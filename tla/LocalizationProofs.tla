-------------------------- MODULE LocalizationProofs --------------------------
(***************************************************************************)
(* What Localization's sums along a traversal are, and what holds of every *)
(* run of it, whatever the itinerary, the script and the injections.       *)
(***************************************************************************)
EXTENDS Localization, OperatorLemmas

\* Two functions agree at 0, and with every step if they agree before it.
StepAlike(u, f, m) ==
    /\ u[0] = f[0]
    /\ \A k \in 1..m : u[k - 1] = f[k - 1] => u[k] = f[k]

Alike(u, f, m) == \A k \in 0..m : u[k] = f[k]

\* So they agree.
LEMMA StepByStep ==
    ASSUME NEW m \in Nat, NEW u, NEW f, StepAlike(u, f, m)
    PROVE  Alike(u, f, m)
<1> DEFINE T == {k \in Nat : k <= m => u[k] = f[k]}
<1>1. 0 \in T
  BY DEF StepAlike
<1>2. ASSUME NEW k \in Nat, k \in T PROVE k + 1 \in T
  <2>1. SUFFICES ASSUME k + 1 <= m PROVE u[k + 1] = f[k + 1]
    OBVIOUS
  <2>2. k + 1 \in 1..m /\ (k + 1) - 1 = k /\ u[k] = f[k]
    BY <1>2, <2>1
  <2>. QED
    BY <2>2 DEF StepAlike
<1> HIDE DEF T
<1>3. Nat \subseteq T
  BY <1>1, <1>2, Ind
<1>4. ASSUME NEW k \in 0..m PROVE u[k] = f[k]
  <2>1. k \in T
    BY <1>3
  <2>. QED
    BY <2>1 DEF T
<1>. QED
  BY <1>4 DEF Alike

-----------------------------------------------------------------------------
(* Sums along a traversal.                                                 *)

\* How far the legs reach is a sum of their lengths.
LEMMA ReachSums ==
    ASSUME NEW legs \in Seq(RoadLeg)
    PROVE  /\ Reach(legs, 0) = 0
           /\ \A i \in 0..Len(legs) : Reach(legs, i) \in Nat
           /\ \A i \in 1..Len(legs) : Reach(legs, i) = Reach(legs, i - 1) + legs[i].length
<1> DEFINE n == Len(legs)
           step == [k \in 1..n |-> [x \in Nat |-> x + legs[k].length]]
           D == Nat
<1>1. n \in Nat /\ \A k \in 1..n : legs[k] \in RoadLeg /\ legs[k].length \in Nat
  <2>1. n \in Nat /\ \A k \in 1..n : legs[k] \in RoadLeg
    OBVIOUS
  <2>. QED
    BY <2>1 DEF RoadLeg
<1>2. step \in [1..n -> [D -> D]] /\ 0 \in D
  <2>1. \A k \in 1..n, x \in Nat : x + legs[k].length \in Nat
    BY <1>1
  <2>. QED
    BY <2>1
<1>3. \A k \in 1..n, x \in Nat : step[k][x] = x + legs[k].length
  OBVIOUS
<1> HIDE DEF n, step
<1>4. PICK f : Recurs(f, n, D, 0, step)
  <2> HIDE DEF D
  <2>. QED
    BY <1>1, <1>2, Recursion
<1>5. /\ f[0] = 0
      /\ \A k \in 0..n : f[k] \in Nat
      /\ \A k \in 1..n : f[k] = f[k - 1] + legs[k].length
  <2>1. f[0] = 0 /\ \A k \in 0..n : f[k] \in Nat
    BY <1>4 DEF Recurs
  <2>2. ASSUME NEW k \in 1..n PROVE f[k] = f[k - 1] + legs[k].length
    <3>1. f[k] = step[k][f[k - 1]] /\ k - 1 \in 0..n
      BY <1>1, <1>4 DEF Recurs
    <3>. QED
      BY <1>3, <2>1, <3>1
  <2>. QED
    BY <2>1, <2>2
<1>6. ASSUME NEW i \in 0..n PROVE Reach(legs, i) = f[i]
  <2> DEFINE Sum(u) == u = [k \in 0..i |-> IF k = 0 THEN 0 ELSE u[k - 1] + legs[k].length]
             upto == CHOOSE u : Sum(u)
             h == [k \in 0..i |-> f[k]]
  <2>1. Reach(legs, i) = upto[i]
    BY DEF Reach
  <2>2. i \in Nat /\ 0 \in 0..i /\ i \in 0..i /\ \A k \in 1..i : k \in 1..n /\ k - 1 \in 0..i /\ k \in 0..i /\ k # 0
    BY <1>1
  <2>3. Sum(h)
    <3>1. \A k \in 0..i : h[k] = IF k = 0 THEN 0 ELSE h[k - 1] + legs[k].length
      <4> TAKE k \in 0..i
      <4>1. CASE k = 0
        BY <1>5, <4>1
      <4>2. CASE k # 0
        <5>1. k \in 1..i
          BY <4>2
        <5>2. h[k] = f[k] /\ h[k - 1] = f[k - 1] /\ f[k] = f[k - 1] + legs[k].length
          BY <1>5, <2>2, <5>1
        <5>. QED
          BY <4>2, <5>2
      <4>. QED
        BY <4>1, <4>2
    <3>. QED
      BY <3>1
  <2>4. Sum(upto)
    BY <2>3
  <2> HIDE DEF upto
  <2>5. upto[0] = 0 /\ \A k \in 1..i : upto[k] = upto[k - 1] + legs[k].length
    BY <2>2, <2>4
  <2>6. \A k \in 0..i : upto[k] = f[k]
    <3>1. StepAlike(upto, f, i)
      BY <1>5, <2>2, <2>5 DEF StepAlike
    <3>. QED
      BY <2>2, <3>1, StepByStep DEF Alike
  <2>. QED
    BY <2>1, <2>2, <2>6
<1>7. 0 \in 0..n /\ \A i \in 1..n : i \in 0..n /\ i - 1 \in 0..n
  BY <1>1
<1>. QED
  BY <1>5, <1>6, <1>7 DEF n

Position == Int \X Int

\* The unit vectors are vectors, and so is what is made of vectors.
LEMMA VectorTypes ==
    /\ \A h \in Heading : Along(h) \in Position
    /\ \A p, v \in Position : Shifted(p, v) \in Position
    /\ \A n \in Int, v \in Position : Times(n, v) \in Position
<1>1. ASSUME NEW h \in Heading PROVE Along(h) \in Position
  <2>1. /\ Vector[1] = <<0, 1>> /\ Vector[2] = <<1, 0>>
        /\ Vector[3] = <<0, -1>> /\ Vector[4] = <<-1, 0>>
    BY DEF Vector
  <2>2. h + 1 = 1 \/ h + 1 = 2 \/ h + 1 = 3 \/ h + 1 = 4
    BY DEF Heading
  <2>3. /\ <<0, 1>> \in Position /\ <<1, 0>> \in Position
        /\ <<0, -1>> \in Position /\ <<-1, 0>> \in Position
    BY DEF Position
  <2>4. Vector[h + 1] \in Position
    BY <2>1, <2>2, <2>3
  <2>. QED
    BY <2>4 DEF Along
<1>2. ASSUME NEW p \in Position, NEW v \in Position PROVE Shifted(p, v) \in Position
  BY DEF Position, Shifted
<1>3. ASSUME NEW n \in Int, NEW v \in Position PROVE Times(n, v) \in Position
  <2>1. v[1] \in Int /\ v[2] \in Int
    BY DEF Position
  <2>2. n * v[1] \in Int /\ n * v[2] \in Int
    BY <2>1
  <2>. QED
    BY <2>2 DEF Position, Times
<1>. QED
  BY <1>1, <1>2, <1>3

\* Of a leg, no less than nothing and no more than the leg lies before a point.
LEMMA WithinIs ==
    ASSUME NEW legs \in Seq(RoadLeg), NEW k \in 1..Len(legs), NEW target \in Int
    PROVE  /\ Within(legs, k, target) \in Nat
           /\ Within(legs, k, target) <= legs[k].length
           /\ legs[k].length \in Nat /\ legs[k].heading \in Heading
<1>1. legs[k] \in RoadLeg
  OBVIOUS
<1>2. legs[k].length \in Nat /\ legs[k].heading \in Heading
  BY <1>1 DEF RoadLeg
<1>3. k - 1 \in 0..Len(legs)
  OBVIOUS
<1>4. Reach(legs, k - 1) \in Nat
  BY <1>3, ReachSums
<1>. QED
  BY <1>2, <1>4 DEF Within

(* The way along the legs from p to the point "target", a position for     *)
(* each leg.                                                               *)
WayTo(f, p, legs, target) ==
    /\ f \in [0..Len(legs) -> Position]
    /\ f[0] = p
    /\ \A k \in 1..Len(legs) :
         f[k] = Shifted(f[k - 1], Times(Within(legs, k, target), Along(legs[k].heading)))
    /\ PointOn(p, legs, target) = f[Len(legs)]

\* There is one.
LEMMA PointIsReached ==
    ASSUME NEW p \in Position, NEW legs \in Seq(RoadLeg), NEW target \in Int
    PROVE  \E f : WayTo(f, p, legs, target)
<1> DEFINE n == Len(legs)
           part(k) == Times(Within(legs, k, target), Along(legs[k].heading))
           step == [k \in 1..n |-> [x \in Position |-> Shifted(x, part(k))]]
<1>1. n \in Nat
  OBVIOUS
<1>2. \A k \in 1..n : part(k) \in Position
  <2> TAKE k \in 1..n
  <2>1. Within(legs, k, target) \in Int /\ legs[k].heading \in Heading
    BY WithinIs
  <2>. QED
    BY <2>1, VectorTypes
<1> HIDE DEF n, part
<1>3. step \in [1..n -> [Position -> Position]]
  <2>1. \A k \in 1..n, x \in Position : Shifted(x, part(k)) \in Position
    BY <1>2, VectorTypes
  <2>. QED
    BY <2>1
<1>4. \A k \in 1..n, x \in Position : step[k][x] = Shifted(x, part(k))
  OBVIOUS
<1> HIDE DEF step
<1>5. PICK f : Recurs(f, n, Position, p, step)
  BY <1>1, <1>3, Recursion
<1>6. /\ f \in [0..n -> Position] /\ f[0] = p
      /\ \A k \in 1..n : f[k] = Shifted(f[k - 1], part(k))
  <2>1. f \in [0..n -> Position] /\ f[0] = p
    BY <1>5 DEF Recurs
  <2>2. ASSUME NEW k \in 1..n PROVE f[k] = Shifted(f[k - 1], part(k))
    <3>1. f[k] = step[k][f[k - 1]] /\ k - 1 \in 0..n
      BY <1>1, <1>5 DEF Recurs
    <3>. QED
      BY <1>4, <2>1, <3>1
  <2>. QED
    BY <2>1, <2>2
<1>7. PointOn(p, legs, target) = f[n]
  <2> DEFINE Sum(u) == u = [k \in 0..n |-> IF k = 0 THEN p ELSE Shifted(u[k - 1], part(k))]
             upto == CHOOSE u : Sum(u)
  <2>1. PointOn(p, legs, target) = upto[n]
    BY DEF PointOn, part, n
  <2>2. 0 \in 0..n /\ n \in 0..n /\ \A k \in 1..n : k \in 0..n /\ k # 0
    BY <1>1
  <2>3. Sum(f)
    <3>1. \A k \in 0..n : f[k] = IF k = 0 THEN p ELSE Shifted(f[k - 1], part(k))
      <4> TAKE k \in 0..n
      <4>1. k = 0 \/ k \in 1..n
        BY <1>1
      <4>. QED
        BY <1>6, <4>1
    <3>. QED
      BY <1>6, <3>1
  <2>4. Sum(upto)
    BY <2>3
  <2> HIDE DEF upto
  <2>5. upto[0] = p /\ \A k \in 1..n : upto[k] = Shifted(upto[k - 1], part(k))
    BY <2>2, <2>4
  <2>6. StepAlike(upto, f, n)
    BY <1>6, <2>5 DEF StepAlike
  <2>. QED
    BY <1>1, <2>1, <2>2, <2>6, StepByStep DEF Alike
<1>. QED
  BY <1>6, <1>7 DEF WayTo, n, part

\* And it ends in a position.
LEMMA PointType ==
    ASSUME NEW p \in Position, NEW legs \in Seq(RoadLeg), NEW target \in Int
    PROVE  PointOn(p, legs, target) \in Position
<1>1. PICK f : WayTo(f, p, legs, target)
  BY PointIsReached
<1>2. Len(legs) \in 0..Len(legs)
  OBVIOUS
<1>. QED
  BY <1>1, <1>2 DEF WayTo

-----------------------------------------------------------------------------
(* The itinerary.                                                          *)

\* A traversal has legs and takes time.
LEMMA Traversal ==
    ASSUME NEW k \in 1..Len(Itinerary)
    PROVE  /\ Itinerary[k].legs \in Seq(RoadLeg)
           /\ Itinerary[k].ticks \in Nat \ {0}
           /\ Length(Itinerary[k].legs) \in Nat
<1> DEFINE T == [legs : Seq(RoadLeg), ticks : Nat \ {0}]
<1>1. Itinerary[k] \in T
  <2>1. Itinerary \in Seq(T)
    BY TravelAssumption
  <2> HIDE DEF T
  <2>. QED
    BY <2>1
<1>2. Itinerary[k].legs \in Seq(RoadLeg) /\ Itinerary[k].ticks \in Nat \ {0}
  BY <1>1
<1>3. Len(Itinerary[k].legs) \in 0..Len(Itinerary[k].legs)
  BY <1>2
<1>. QED
  BY <1>2, <1>3, ReachSums DEF Length

(* The positions of the nodes: from one to the next by a whole traversal.  *)
LEMMA NodePositions ==
    /\ NodePosition(0) = <<0, 0>>
    /\ \A n \in 0..Len(Itinerary) : NodePosition(n) \in Position
    /\ \A n \in 1..Len(Itinerary) :
         NodePosition(n) = PointOn(NodePosition(n - 1), Itinerary[n].legs,
                                   Length(Itinerary[n].legs))
<1> DEFINE n == Len(Itinerary)
           next(k, x) == PointOn(x, Itinerary[k].legs, Length(Itinerary[k].legs))
           step == [k \in 1..n |-> [x \in Position |-> next(k, x)]]
           origin == <<0, 0>>
<1>1. n \in Nat /\ origin \in Position
  BY TravelAssumption DEF Position
<1>2. \A k \in 1..n, x \in Position : next(k, x) \in Position
  <2> TAKE k \in 1..n, x \in Position
  <2>1. Itinerary[k].legs \in Seq(RoadLeg) /\ Length(Itinerary[k].legs) \in Int
    BY Traversal
  <2>. QED
    BY <2>1, PointType
<1> HIDE DEF n, next, origin
<1>3. step \in [1..n -> [Position -> Position]]
  BY <1>2
<1>4. \A k \in 1..n, x \in Position : step[k][x] = next(k, x)
  OBVIOUS
<1> HIDE DEF step
<1>5. PICK f : Recurs(f, n, Position, origin, step)
  BY <1>1, <1>3, Recursion
<1>6. /\ f \in [0..n -> Position] /\ f[0] = origin
      /\ \A k \in 1..n : f[k] = next(k, f[k - 1])
  <2>1. f \in [0..n -> Position] /\ f[0] = origin
    BY <1>5 DEF Recurs
  <2>2. ASSUME NEW k \in 1..n PROVE f[k] = next(k, f[k - 1])
    <3>1. f[k] = step[k][f[k - 1]] /\ k - 1 \in 0..n
      BY <1>1, <1>5 DEF Recurs
    <3>. QED
      BY <1>4, <2>1, <3>1
  <2>. QED
    BY <2>1, <2>2
<1>7. ASSUME NEW i \in 0..n PROVE NodePosition(i) = f[i]
  <2> DEFINE Sum(u) == u = [k \in 0..i |-> IF k = 0 THEN origin ELSE next(k, u[k - 1])]
             upto == CHOOSE u : Sum(u)
             h == [k \in 0..i |-> f[k]]
  <2>1. NodePosition(i) = upto[i]
    BY DEF NodePosition, next, origin
  <2>2. /\ i \in Nat /\ 0 \in 0..i /\ i \in 0..i
        /\ \A k \in 1..i : k \in 1..n /\ k - 1 \in 0..i /\ k \in 0..i /\ k # 0
    BY <1>1
  <2>3. Sum(h)
    <3>1. \A k \in 0..i : h[k] = IF k = 0 THEN origin ELSE next(k, h[k - 1])
      <4> TAKE k \in 0..i
      <4>1. CASE k = 0
        BY <1>6, <4>1
      <4>2. CASE k # 0
        <5>1. k \in 1..i
          BY <4>2
        <5>2. h[k] = f[k] /\ h[k - 1] = f[k - 1] /\ f[k] = next(k, f[k - 1])
          BY <1>6, <2>2, <5>1
        <5>. QED
          BY <4>2, <5>2
      <4>. QED
        BY <4>1, <4>2
    <3>. QED
      BY <3>1
  <2>4. Sum(upto)
    BY <2>3
  <2> HIDE DEF upto
  <2>5. upto[0] = origin /\ \A k \in 1..i : upto[k] = next(k, upto[k - 1])
    BY <2>2, <2>4
  <2>6. StepAlike(upto, f, i)
    BY <1>6, <2>2, <2>5 DEF StepAlike
  <2>. QED
    BY <2>1, <2>2, <2>6, StepByStep DEF Alike
<1>8. 0 \in 0..n /\ \A i \in 1..n : i \in 0..n /\ i - 1 \in 0..n
  BY <1>1
<1>. QED
  BY <1>6, <1>7, <1>8 DEF n, next, origin

\* What division does, of what is used.
LEMMA Division ==
    ASSUME NEW a \in Nat, NEW b \in Nat, NEW c \in Nat \ {0}
    PROVE  /\ a \div c \in Nat
           /\ a <= b => a \div c <= b \div c
           /\ (a * c) \div c = a
           /\ 0 \div c = 0
<1>1. a \div c \in Nat
  OBVIOUS
<1>2. ASSUME a <= b PROVE a \div c <= b \div c
  BY <1>2
<1>3. (a * c) \div c = a
  OBVIOUS
<1>4. 0 \div c = 0
  OBVIOUS
<1>. QED
  BY <1>1, <1>2, <1>3, <1>4

\* The leg that owns a point is one of them, and the point is not outside it
\* but where the legs end.
LEMMA LegAtIs ==
    ASSUME NEW legs \in Seq(RoadLeg), Len(legs) > 0, NEW target \in Nat
    PROVE  /\ LegAt(legs, target) \in 1..Len(legs)
           /\ \/ /\ Reach(legs, LegAt(legs, target) - 1) <= target
                 /\ target < Reach(legs, LegAt(legs, target))
              \/ /\ LegAt(legs, target) = Len(legs)
                 /\ Length(legs) <= target
<1> DEFINE n == Len(legs)
<1>1. n \in Nat /\ n > 0 /\ DOMAIN legs = 1..n
  OBVIOUS
<1>2. Reach(legs, 0) = 0 /\ \A i \in 0..n : Reach(legs, i) \in Nat
  BY ReachSums
<1> DEFINE First(i) == /\ target < Reach(legs, i)
                       /\ \A j \in 1..(i - 1) : Reach(legs, j) <= target
<1>3. CASE \E i \in 1..n : target < Reach(legs, i)
  <2> DEFINE S == {i \in 1..n : target < Reach(legs, i)}
  <2>1. PICK i \in S : \A j \in S : i <= j
    <3>1. S \in SUBSET Nat /\ S # {}
      BY <1>1, <1>3
    <3> HIDE DEF S
    <3>. QED
      BY <3>1, Least
  <2>2. i \in 1..n /\ First(i)
    <3>1. i \in 1..n /\ target < Reach(legs, i)
      BY <2>1
    <3>2. ASSUME NEW j \in 1..(i - 1) PROVE Reach(legs, j) <= target
      <4>1. j \in 1..n /\ j \notin S /\ j \in 0..n
        BY <1>1, <2>1, <3>1
      <4>. QED
        BY <1>2, <4>1
    <3>. QED
      BY <3>1, <3>2
  <2> DEFINE l == LegAt(legs, target)
  <2>3. l = CHOOSE k \in 1..n : First(k)
    BY <1>1, <1>3 DEF LegAt
  <2> HIDE DEF l, First
  <2>4. l \in 1..n /\ First(l)
    BY <2>2, <2>3
  <2>5. Reach(legs, l - 1) <= target
    <3>1. l - 1 = 0 \/ l - 1 \in 1..(l - 1)
      BY <1>1, <2>4
    <3>. QED
      BY <1>2, <2>4, <3>1 DEF First
  <2>. QED
    BY <2>4, <2>5 DEF First, l
<1>4. CASE ~\E i \in 1..n : target < Reach(legs, i)
  <2>1. LegAt(legs, target) = n
    BY <1>1, <1>4 DEF LegAt
  <2>2. n \in 1..n /\ n \in 0..n
    BY <1>1
  <2>3. Length(legs) <= target
    BY <1>2, <1>4, <2>2 DEF Length
  <2>. QED
    BY <2>1, <2>2, <2>3
<1>. QED
  BY <1>3, <1>4

-----------------------------------------------------------------------------
(* Types.                                                                  *)

Pose == [position : Position, heading : Heading, at : Nat]

RobotType == [node : Nat, departed_at : Nat, arrival : Nat, estimate : SUBSET Pose,
              last_fix_at : SUBSET Nat, dead_reckoned : BOOLEAN, missed : Nat,
              odometry_at : Nat, motion_heading : Heading]

\* A robot that is at a node, or on the traversal that begins there.
Travels(r) ==
    /\ r \in RobotType
    /\ InTransit(r) => /\ r.node + 1 \in 1..Len(Itinerary)
                       /\ r.arrival = r.departed_at + Itinerary[r.node + 1].ticks

\* The fields of a robot.
LEMMA Fields ==
    ASSUME NEW r \in RobotType
    PROVE  /\ r.node \in Nat /\ r.departed_at \in Nat /\ r.arrival \in Nat
           /\ r.estimate \in SUBSET Pose /\ r.last_fix_at \in SUBSET Nat
           /\ r.dead_reckoned \in BOOLEAN /\ r.missed \in Nat
           /\ r.odometry_at \in Nat /\ r.motion_heading \in Heading
BY DEF RobotType

\* What is driven grows with time, from nothing to all of it.
LEMMA DrivenIs ==
    ASSUME NEW r, Travels(r), InTransit(r)
    PROVE  /\ Legs(r) \in Seq(RoadLeg) /\ Length(Legs(r)) \in Nat
           /\ r.departed_at \in Nat /\ r.arrival \in Nat /\ r.departed_at <= r.arrival
           /\ \A t \in Nat : r.departed_at <= t => Driven(r, t) \in Nat
           /\ \A t, u \in Nat : r.departed_at <= t /\ t <= u => Driven(r, t) <= Driven(r, u)
           /\ Driven(r, r.departed_at) = 0
           /\ Driven(r, r.arrival) = Length(Legs(r))
<1> DEFINE k == r.node + 1
           n == Length(Legs(r))
           c == Itinerary[k].ticks
<1>1. k \in 1..Len(Itinerary) /\ r.arrival = r.departed_at + c
  BY DEF Travels
<1>2. Legs(r) \in Seq(RoadLeg) /\ n \in Nat /\ c \in Nat \ {0}
  BY <1>1, Traversal DEF Legs
<1>3. r.departed_at \in Nat /\ r.arrival \in Nat /\ r.departed_at <= r.arrival
  BY <1>1, Fields DEF Travels, InTransit
<1>4. \A t : Driven(r, t) = (n * (t - r.departed_at)) \div c
  BY DEF Driven
<1> HIDE DEF n, c, k
<1>5. \A t \in Nat : r.departed_at <= t =>
        t - r.departed_at \in Nat /\ n * (t - r.departed_at) \in Nat
  BY <1>2, <1>3
<1>6. ASSUME NEW t \in Nat, r.departed_at <= t PROVE Driven(r, t) \in Nat
  BY <1>2, <1>4, <1>5, <1>6, Division
<1>7. ASSUME NEW t \in Nat, NEW u \in Nat, r.departed_at <= t, t <= u
      PROVE  Driven(r, t) <= Driven(r, u)
  <2> DEFINE a == t - r.departed_at
             b == u - r.departed_at
  <2>1. a \in Nat /\ b \in Nat /\ a <= b
    BY <1>3, <1>7
  <2> HIDE DEF a, b
  <2>2. n * a \in Nat /\ n * b \in Nat /\ n * a <= n * b
    BY <1>2, <2>1
  <2>3. (n * a) \div c <= (n * b) \div c
    BY <1>2, <2>2, Division
  <2>. QED
    BY <1>4, <2>3 DEF a, b
<1>8. Driven(r, r.departed_at) = 0
  <2>1. n * (r.departed_at - r.departed_at) = 0
    BY <1>2, <1>3
  <2>. QED
    BY <1>2, <1>4, <2>1, Division
<1>9. Driven(r, r.arrival) = n
  <2>1. n * (r.arrival - r.departed_at) = n * c
    BY <1>1, <1>2, <1>3
  <2>. QED
    BY <1>2, <1>4, <2>1, Division
<1>. QED
  BY <1>2, <1>3, <1>6, <1>7, <1>8, <1>9 DEF n

\* The greater and the lesser of two.
LEMMA OfTwo ==
    ASSUME NEW a \in Int, NEW b \in Int
    PROVE  /\ Max({a, b}) = IF a >= b THEN a ELSE b
           /\ Min({a, b}) = IF a <= b THEN a ELSE b
BY DEF Max, Min

\* What is covered of a leg is no less than nothing.
LEMMA CoveredIs ==
    ASSUME NEW r, Travels(r), InTransit(r), NEW t \in Nat,
           r.departed_at <= r.odometry_at, r.odometry_at <= t,
           NEW i \in 1..Len(Legs(r))
    PROVE  Covered(r, i, t) \in Nat
<1> DEFINE a == Driven(r, r.odometry_at)
           b == Driven(r, t)
           x == Reach(Legs(r), i - 1)
           y == Reach(Legs(r), i)
           from == Max({a, x})
           to   == Min({b, y})
<1>1. r.odometry_at \in Nat /\ r.departed_at \in Nat /\ r.departed_at <= t
  BY Fields DEF Travels
<1>2. a \in Nat /\ b \in Nat /\ Legs(r) \in Seq(RoadLeg)
  BY <1>1, DrivenIs
<1>3. x \in Nat /\ y \in Nat
  <2>1. i - 1 \in 0..Len(Legs(r)) /\ i \in 0..Len(Legs(r))
    BY <1>2
  <2>. QED
    BY <1>2, <2>1, ReachSums
<1>4. Covered(r, i, t) = Max({0, to - from})
  BY DEF Covered
<1> HIDE DEF a, b, x, y
<1>5. from \in Int /\ to \in Int
  <2>1. a \in Int /\ b \in Int /\ x \in Int /\ y \in Int
    BY <1>2, <1>3
  <2>2. (from = IF a >= x THEN a ELSE x) /\ (to = IF b <= y THEN b ELSE y)
    BY <2>1, OfTwo
  <2> HIDE DEF from, to
  <2>. QED
    BY <2>1, <2>2
<1> HIDE DEF from, to
<1>6. 0 \in Int /\ to - from \in Int
  BY <1>5
<1>7. Max({0, to - from}) = IF 0 >= to - from THEN 0 ELSE to - from
  BY <1>6, OfTwo
<1>. QED
  BY <1>4, <1>6, <1>7

\* Truth is a pose.
LEMMA TruthPoseType ==
    ASSUME NEW r, Travels(r), r.node \in 0..Len(Itinerary), NEW heading \in Heading,
           NEW t \in Nat, InTransit(r) => r.departed_at <= t
    PROVE  TruthPose(r, heading, t) \in Pose
<1> DEFINE p == TruthPose(r, heading, t).position
           h == TruthPose(r, heading, t).heading
<1>1. NodePosition(r.node) \in Position
  BY NodePositions
<1>2. p \in Position
  <2>1. CASE InTransit(r)
    <3>1. Legs(r) \in Seq(RoadLeg) /\ Driven(r, t) \in Int
      BY <2>1, DrivenIs
    <3>2. PointOn(NodePosition(r.node), Legs(r), Driven(r, t)) \in Position
      BY <1>1, <3>1, PointType
    <3>. QED
      BY <2>1, <3>2 DEF TruthPose
  <2>2. CASE ~InTransit(r)
    BY <1>1, <2>2 DEF TruthPose
  <2>. QED
    BY <2>1, <2>2
<1>3. h \in Heading
  <2>1. CASE InTransit(r) /\ Length(Legs(r)) > 0
    <3> DEFINE legs == Legs(r)
               d == Driven(r, t)
    <3>1. legs \in Seq(RoadLeg) /\ d \in Nat
      BY <2>1, DrivenIs
    <3>2. Len(legs) > 0
      <4>1. Len(legs) \in Nat /\ (Len(legs) = 0 => Length(legs) = 0)
        BY <3>1, ReachSums DEF Length
      <4>. QED
        BY <2>1, <4>1
    <3>3. h = legs[LegAt(legs, d)].heading
      BY <2>1 DEF TruthPose
    <3> HIDE DEF legs, d, h
    <3>4. LegAt(legs, d) \in 1..Len(legs)
      BY <3>1, <3>2, LegAtIs
    <3>5. legs[LegAt(legs, d)] \in RoadLeg
      BY <3>1, <3>4
    <3>. QED
      BY <3>3, <3>5 DEF RoadLeg
  <2>2. CASE ~(InTransit(r) /\ Length(Legs(r)) > 0)
    BY <2>2 DEF TruthPose
  <2>. QED
    BY <2>1, <2>2
<1>4. TruthPose(r, heading, t) = [position |-> p, heading |-> h, at |-> t]
  BY DEF TruthPose
<1> HIDE DEF p, h
<1>. QED
  BY <1>2, <1>3, <1>4 DEF Pose

-----------------------------------------------------------------------------
(* Dead reckoning.                                                         *)

(* What dead reckoning up to tick t may make of a robot s: it does not     *)
(* move it, does not touch what is known of its fixes, and makes no        *)
(* estimate where there was none; and an estimate it alters is no longer   *)
(* the fix.                                                                *)
Tracks(s, q, t) ==
    /\ q \in RobotType
    /\ q.node = s.node /\ q.departed_at = s.departed_at /\ q.arrival = s.arrival
    /\ q.last_fix_at = s.last_fix_at /\ q.missed = s.missed
    /\ q.estimate = {} <=> s.estimate = {}
    /\ \A e \in q.estimate : e.at <= t
    /\ ~q.dead_reckoned => ~s.dead_reckoned /\ q.estimate = s.estimate

\* Whatever is made of it in several steps may be.
LEMMA TracksOnward ==
    ASSUME NEW s, NEW q, NEW p, NEW t, Tracks(s, q, t), Tracks(q, p, t)
    PROVE  Tracks(s, p, t)
BY DEF Tracks

\* What an increment makes of one estimate.
Onward(e, distance, turn, t) ==
    [position |-> Shifted(e.position, Times(distance, Along((e.heading + turn) % 4))),
     heading  |-> (e.heading + turn) % 4,
     at       |-> t]

\* It is a pose, and where the increment is nothing the same one.
LEMMA OnwardIs ==
    ASSUME NEW e \in Pose, NEW distance \in Nat, NEW turn \in Int, NEW t \in Nat
    PROVE  /\ Onward(e, distance, turn, t) \in Pose
           /\ e.at <= t /\ ~Moves(e, distance, turn, t) => Onward(e, distance, turn, t) = e
<1> DEFINE h == (e.heading + turn) % 4
           p == Shifted(e.position, Times(distance, Along(h)))
<1>1. e.position \in Position /\ e.heading \in Heading /\ e.at \in Nat
  BY DEF Pose
<1>2. h \in Heading
  BY <1>1 DEF Heading
<1>3. Along(h) \in Position /\ p \in Position
  BY <1>1, <1>2, VectorTypes
<1>4. Onward(e, distance, turn, t) = [position |-> p, heading |-> h, at |-> t]
  BY DEF Onward
<1>5. ASSUME e.at <= t, ~Moves(e, distance, turn, t)
      PROVE  p = e.position /\ h = e.heading /\ t = e.at
  <2>1. t = e.at /\ distance = 0 /\ turn = 0
    BY <1>1, <1>5 DEF Moves
  <2>2. h = e.heading
    BY <1>1, <2>1 DEF Heading
  <2> HIDE DEF h
  <2>3. \A v \in Position : Shifted(e.position, Times(0, v)) = e.position
    BY <1>1 DEF Position, Shifted, Times
  <2>. QED
    BY <1>3, <2>1, <2>2, <2>3
<1>6. e = [position |-> e.position, heading |-> e.heading, at |-> e.at]
  BY DEF Pose
<1> HIDE DEF p, h
<1>7. Onward(e, distance, turn, t) \in Pose
  BY <1>2, <1>3, <1>4 DEF Pose
<1>. QED
  BY <1>4, <1>5, <1>6, <1>7

\* What propagating a robot's estimate does to the robot.
LEMMA PropagateTracks ==
    ASSUME NEW s \in RobotType, NEW distance \in Nat, NEW turn \in Int, NEW t \in Nat,
           \A e \in s.estimate : e.at <= t,
           NEW o \in Nat, NEW h \in Heading
    PROVE  LET q == Propagate(s, distance, turn, t)
           IN  /\ q.motion_heading = s.motion_heading /\ q.odometry_at = s.odometry_at
               /\ q.estimate = {Onward(e, distance, turn, t) : e \in s.estimate}
               /\ q.dead_reckoned <=>
                    s.dead_reckoned \/ \E e \in s.estimate : Moves(e, distance, turn, t)
               /\ Tracks(s, [q EXCEPT !.motion_heading = h], t)
               /\ Tracks(s, [q EXCEPT !.odometry_at = o], t)
<1> DEFINE q == Propagate(s, distance, turn, t)
           E == {Onward(e, distance, turn, t) : e \in s.estimate}
           b == s.dead_reckoned \/ \E e \in s.estimate : Moves(e, distance, turn, t)
<1>1. q = [s EXCEPT !.estimate = E, !.dead_reckoned = b]
  BY DEF Propagate, Onward
<1>2. s.estimate \subseteq Pose
  BY Fields
<1>3. E \subseteq Pose /\ \A e \in E : e.at = t
  <2>1. \A e \in s.estimate : Onward(e, distance, turn, t) \in Pose
    BY <1>2, OnwardIs
  <2>2. \A e : Onward(e, distance, turn, t).at = t
    BY DEF Onward
  <2>. QED
    BY <2>1, <2>2
<1>4. E = {} <=> s.estimate = {}
  OBVIOUS
<1>5. b \in BOOLEAN
  BY Fields
<1>6. ASSUME ~b PROVE E = s.estimate /\ ~s.dead_reckoned
  <2>1. \A e \in s.estimate : ~Moves(e, distance, turn, t)
    BY <1>6
  <2>2. \A e \in s.estimate : Onward(e, distance, turn, t) = e
    BY <1>2, <2>1, OnwardIs
  <2>. QED
    BY <1>6, <2>2
<1> HIDE DEF E, b
<1>7. /\ q \in RobotType
      /\ q.node = s.node /\ q.departed_at = s.departed_at /\ q.arrival = s.arrival
      /\ q.last_fix_at = s.last_fix_at /\ q.missed = s.missed
      /\ q.motion_heading = s.motion_heading /\ q.odometry_at = s.odometry_at
      /\ q.estimate = E /\ q.dead_reckoned = b
  BY <1>1, <1>3, <1>5 DEF RobotType
<1> HIDE DEF q
<1>8. Tracks(s, [q EXCEPT !.motion_heading = h], t)
  <2> DEFINE p == [q EXCEPT !.motion_heading = h]
  <2>1. /\ p \in RobotType
        /\ p.node = q.node /\ p.departed_at = q.departed_at /\ p.arrival = q.arrival
        /\ p.last_fix_at = q.last_fix_at /\ p.missed = q.missed
        /\ p.estimate = q.estimate /\ p.dead_reckoned = q.dead_reckoned
    BY <1>7 DEF RobotType
  <2> HIDE DEF p
  <2>2. Tracks(s, p, t)
    BY <1>3, <1>4, <1>6, <1>7, <2>1 DEF Tracks
  <2>. QED
    BY <2>2 DEF p
<1>9. Tracks(s, [q EXCEPT !.odometry_at = o], t)
  <2> DEFINE p == [q EXCEPT !.odometry_at = o]
  <2>1. /\ p \in RobotType
        /\ p.node = q.node /\ p.departed_at = q.departed_at /\ p.arrival = q.arrival
        /\ p.last_fix_at = q.last_fix_at /\ p.missed = q.missed
        /\ p.estimate = q.estimate /\ p.dead_reckoned = q.dead_reckoned
    BY <1>7 DEF RobotType
  <2> HIDE DEF p
  <2>2. Tracks(s, p, t)
    BY <1>3, <1>4, <1>6, <1>7, <2>1 DEF Tracks
  <2>. QED
    BY <2>2 DEF p
<1>. QED
  BY <1>7, <1>8, <1>9 DEF q, E, b

\* A robot whose belief may be brought up to tick t.
Updatable(r, t) ==
    /\ Travels(r)
    /\ InTransit(r) => r.departed_at <= r.odometry_at
    /\ r.odometry_at <= t
    /\ \A e \in r.estimate : e.at <= t

\* How many legs an update considers.
Considered(r) == IF InTransit(r) THEN Len(Legs(r)) ELSE 0

\* What an update makes of r, leg after leg.
Updates(f, r, t) ==
    /\ f \in [0..Considered(r) -> RobotType]
    /\ f[0] = r
    /\ \A i \in 1..Considered(r) : f[i] = OverLeg(r, f[i - 1], i, t)

\* What the legs considered are.
LEMMA ConsideredIs ==
    ASSUME NEW r, Travels(r)
    PROVE  /\ Considered(r) \in Nat
           /\ \A i \in 1..Considered(r) :
                /\ InTransit(r) /\ i \in 1..Len(Legs(r)) /\ i \in 1..Considered(r)
                /\ Legs(r) \in Seq(RoadLeg)
                /\ Legs(r)[i].length \in Nat /\ Legs(r)[i].heading \in Heading
<1>1. CASE InTransit(r)
  <2>1. Legs(r) \in Seq(RoadLeg) /\ Considered(r) = Len(Legs(r))
    BY <1>1, DrivenIs DEF Considered
  <2>2. ASSUME NEW i \in 1..Len(Legs(r))
        PROVE  Legs(r)[i].length \in Nat /\ Legs(r)[i].heading \in Heading
    <3>1. Legs(r)[i] \in RoadLeg
      BY <2>1
    <3>. QED
      BY <3>1 DEF RoadLeg
  <2>. QED
    BY <1>1, <2>1, <2>2
<1>2. CASE ~InTransit(r)
  BY <1>2 DEF Considered
<1>. QED
  BY <1>1, <1>2

\* One leg's step is a robot, and dead reckoning.
LEMMA OverLegIs ==
    ASSUME NEW t \in Nat, NEW r, Updatable(r, t), NEW i \in 1..Considered(r),
           NEW s \in RobotType
    PROVE  /\ OverLeg(r, s, i, t) \in RobotType
           /\ (\A e \in s.estimate : e.at <= t) => Tracks(s, OverLeg(r, s, i, t), t)
<1>1. /\ Travels(r) /\ InTransit(r) /\ i \in 1..Len(Legs(r))
      /\ r.departed_at <= r.odometry_at /\ r.odometry_at <= t
      /\ Legs(r)[i].heading \in Heading
  BY ConsideredIs DEF Updatable
<1> DEFINE distance == Covered(r, i, t)
           h == Legs(r)[i].heading
           turn == h - s.motion_heading
           q == Propagate(s, distance, turn, t)
<1>2. distance \in Nat /\ h \in Heading
  BY <1>1, CoveredIs
<1>3. turn \in Int
  BY <1>2, Fields DEF Heading
<1>4. CASE Crossed(r, i, t)
  <2>1. OverLeg(r, s, i, t) = [q EXCEPT !.motion_heading = h]
    BY <1>4 DEF OverLeg
  <2>2. [q EXCEPT !.motion_heading = h] \in RobotType
    <3>1. q = [s EXCEPT !.estimate = {Onward(e, distance, turn, t) : e \in s.estimate},
                        !.dead_reckoned =
                           s.dead_reckoned \/ \E e \in s.estimate : Moves(e, distance, turn, t)]
      BY DEF Propagate, Onward
    <3> DEFINE E == {Onward(e, distance, turn, t) : e \in s.estimate}
               b == s.dead_reckoned \/ \E e \in s.estimate : Moves(e, distance, turn, t)
    <3>2. E \in SUBSET Pose
      <4>1. \A e \in s.estimate : Onward(e, distance, turn, t) \in Pose
        <5> HIDE DEF distance, turn
        <5>. QED
          BY <1>2, <1>3, Fields, OnwardIs
      <4>. QED
        BY <4>1
    <3>3. b \in BOOLEAN
      BY Fields
    <3> HIDE DEF E, b, q, h
    <3>. QED
      BY <1>2, <3>1, <3>2, <3>3 DEF RobotType, E, b
  <2>3. ASSUME \A e \in s.estimate : e.at <= t
        PROVE  Tracks(s, [q EXCEPT !.motion_heading = h], t)
    <3> HIDE DEF distance, turn, h
    <3>. QED
      BY <1>2, <1>3, <2>3, PropagateTracks
  <2>. QED
    BY <2>1, <2>2, <2>3
<1>5. CASE ~Crossed(r, i, t)
  BY <1>5 DEF OverLeg, Tracks
<1>. QED
  BY <1>4, <1>5

\* An update is made of its legs' steps, and of the time that passed.
LEMMA AdvanceIs ==
    ASSUME scenario.dead_reckoning, NEW t \in Nat, NEW r, Updatable(r, t)
    PROVE  \E f : /\ Updates(f, r, t)
                  /\ AdvanceLocalization(r, t) =
                       [Propagate(f[Considered(r)], 0, 0, t) EXCEPT !.odometry_at = t]
<1> DEFINE n == Considered(r)
           step == [i \in 1..n |-> [s \in RobotType |-> OverLeg(r, s, i, t)]]
<1>1. n \in Nat /\ r \in RobotType
  BY ConsideredIs DEF Updatable, Travels
<1>2. \A i \in 1..n, s \in RobotType : OverLeg(r, s, i, t) \in RobotType
  BY OverLegIs
<1> HIDE DEF n
<1>3. step \in [1..n -> [RobotType -> RobotType]]
  BY <1>2
<1>4. \A i \in 1..n, s \in RobotType : step[i][s] = OverLeg(r, s, i, t)
  OBVIOUS
<1> HIDE DEF step
<1>5. PICK f : Recurs(f, n, RobotType, r, step)
  BY <1>1, <1>3, Recursion
<1>6. /\ f \in [0..n -> RobotType] /\ f[0] = r
      /\ \A i \in 1..n : f[i] = OverLeg(r, f[i - 1], i, t)
  <2>1. f \in [0..n -> RobotType] /\ f[0] = r
    BY <1>5 DEF Recurs
  <2>2. ASSUME NEW i \in 1..n PROVE f[i] = OverLeg(r, f[i - 1], i, t)
    <3>1. f[i] = step[i][f[i - 1]] /\ i - 1 \in 0..n
      BY <1>1, <1>5 DEF Recurs
    <3>. QED
      BY <1>4, <2>1, <3>1
  <2>. QED
    BY <2>1, <2>2
<1> DEFINE Sum(u) == u = [i \in 0..n |-> IF i = 0 THEN r ELSE OverLeg(r, u[i - 1], i, t)]
           after == CHOOSE u : Sum(u)
<1>7. AdvanceLocalization(r, t) = [Propagate(after[n], 0, 0, t) EXCEPT !.odometry_at = t]
  BY DEF AdvanceLocalization, n, Considered
<1>8. after[n] = f[n]
  <2>1. 0 \in 0..n /\ n \in 0..n /\ \A i \in 1..n : i \in 0..n /\ i # 0
    BY <1>1
  <2>2. Sum(f)
    <3>1. \A i \in 0..n : f[i] = IF i = 0 THEN r ELSE OverLeg(r, f[i - 1], i, t)
      <4> TAKE i \in 0..n
      <4>1. i = 0 \/ i \in 1..n
        BY <1>1
      <4>. QED
        BY <1>6, <4>1
    <3>. QED
      BY <1>6, <3>1
  <2>3. Sum(after)
    BY <2>2
  <2> HIDE DEF after
  <2>4. after[0] = r /\ \A i \in 1..n : after[i] = OverLeg(r, after[i - 1], i, t)
    BY <2>1, <2>3
  <2>5. StepAlike(after, f, n)
    BY <1>6, <2>4 DEF StepAlike
  <2>. QED
    BY <1>1, <2>1, <2>5, StepByStep DEF Alike
<1> HIDE DEF after
<1>9. Updates(f, r, t)
  BY <1>6 DEF Updates, n
<1>. QED
  BY <1>7, <1>8, <1>9 DEF n

\* Along the legs, too, it is dead reckoning.
LEMMA UpdatesTrack ==
    ASSUME NEW t \in Nat, NEW r, Updatable(r, t), NEW f, Updates(f, r, t)
    PROVE  \A i \in 0..Considered(r) : Tracks(r, f[i], t)
<1> DEFINE n == Considered(r)
           T == {i \in Nat : i <= n => Tracks(r, f[i], t)}
<1>1. 0 \in T
  BY DEF Updates, Updatable, Travels, Tracks
<1>2. ASSUME NEW i \in Nat, i \in T PROVE i + 1 \in T
  <2>1. SUFFICES ASSUME i + 1 <= n PROVE Tracks(r, f[i + 1], t)
    OBVIOUS
  <2>2. n \in Nat
    BY ConsideredIs DEF Updatable
  <2>3. i + 1 \in 1..n /\ (i + 1) - 1 = i /\ i <= n
    BY <2>1, <2>2
  <2>4. Tracks(r, f[i], t) /\ f[i + 1] = OverLeg(r, f[i], i + 1, t)
    BY <1>2, <2>3 DEF Updates
  <2>5. Tracks(f[i], f[i + 1], t)
    <3>1. f[i] \in RobotType /\ \A e \in f[i].estimate : e.at <= t
      BY <2>4 DEF Tracks
    <3> HIDE DEF n
    <3>. QED
      BY <2>3, <2>4, <3>1, OverLegIs DEF n
  <2>. QED
    BY <2>4, <2>5, TracksOnward
<1> HIDE DEF T
<1>3. Nat \subseteq T
  BY <1>1, <1>2, Ind
<1>4. ASSUME NEW i \in 0..n PROVE Tracks(r, f[i], t)
  <2>1. i \in T
    BY <1>3
  <2>. QED
    BY <2>1 DEF T
<1>. QED
  BY <1>4

\* An update is dead reckoning, and brings the robot to its tick.
LEMMA AdvanceTracks ==
    ASSUME NEW t \in Nat, NEW r, Travels(r), \A e \in r.estimate : e.at <= t,
           scenario.dead_reckoning => Updatable(r, t)
    PROVE  /\ Tracks(r, AdvanceLocalization(r, t), t)
           /\ scenario.dead_reckoning => AdvanceLocalization(r, t).odometry_at = t
           /\ ~scenario.dead_reckoning => AdvanceLocalization(r, t) = r
<1>1. CASE scenario.dead_reckoning
  <2>1. PICK f : /\ Updates(f, r, t)
                 /\ AdvanceLocalization(r, t) =
                      [Propagate(f[Considered(r)], 0, 0, t) EXCEPT !.odometry_at = t]
    BY <1>1, AdvanceIs
  <2> DEFINE s == f[Considered(r)]
             q == Propagate(s, 0, 0, t)
             p == [q EXCEPT !.odometry_at = t]
  <2>2. Considered(r) \in 0..Considered(r)
    BY ConsideredIs
  <2>3. Tracks(r, s, t)
    BY <1>1, <2>1, <2>2, UpdatesTrack
  <2>4. s \in RobotType /\ \A e \in s.estimate : e.at <= t
    BY <2>3 DEF Tracks
  <2>5. Tracks(s, p, t)
    <3>1. 0 \in Nat /\ 0 \in Int /\ 0 \in Heading
      BY DEF Heading
    <3> HIDE DEF s
    <3>. QED
      BY <2>4, <3>1, PropagateTracks
  <2>6. p.odometry_at = t
    <3>1. q = [s EXCEPT !.estimate = q.estimate, !.dead_reckoned = q.dead_reckoned]
      BY <2>4 DEF Propagate, RobotType
    <3>2. "odometry_at" \in DOMAIN q
      BY <2>4, <3>1 DEF RobotType
    <3> HIDE DEF q
    <3>. QED
      BY <3>2
  <2> HIDE DEF s, p
  <2>7. Tracks(r, p, t)
    BY <2>3, <2>5, TracksOnward
  <2>. QED
    BY <1>1, <2>1, <2>6, <2>7 DEF p, s
<1>2. CASE ~scenario.dead_reckoning
  <2>1. AdvanceLocalization(r, t) = r
    BY <1>2 DEF AdvanceLocalization
  <2>. QED
    BY <1>2, <2>1 DEF Tracks, Travels
<1>. QED
  BY <1>1, <1>2

-----------------------------------------------------------------------------
(* The queue.                                                              *)

Event == [at : Nat, kind : {"advance", "sample"}] \cup
         [at : Nat, kind : {"switch"}, model : Models]

Kind(k) == {e \in Event : e.kind = k}

\* Typed, in order, and nothing of it is in the past.
QueueOK(q, tick) ==
    /\ q \in Seq(Event) /\ InOrder(q)
    /\ \A e \in Range(q) : e.at >= tick

\* An event has a tick.
LEMMA EventTicks == \A e \in Event : e.at \in Nat
BY DEF Event

\* The events that are scheduled.
LEMMA EventsAre ==
    ASSUME NEW at \in Nat, NEW m \in Models
    PROVE  /\ Advance(at) \in Kind("advance") /\ Advance(at).at = at
           /\ Sample(at) \in Kind("sample") /\ Sample(at).at = at
           /\ Switch(m, at) \in Kind("switch") /\ Switch(m, at).at = at
BY DEF Advance, Sample, Switch, Event, Kind

\* Kinds are apart, and of a sample or an advance there is only its tick.
LEMMA KindsAre ==
    /\ \A k : Kind(k) \subseteq Event
    /\ \A k, l : k # l => Kind(k) \cap Kind(l) = {}
    /\ \A e \in Kind("advance") : e = Advance(e.at)
    /\ \A e \in Kind("sample") : e = Sample(e.at)
    /\ \A e \in Kind("switch") : e.model \in Models
BY DEF Advance, Sample, Event, Kind

\* An enqueued event is added, and the agenda stays in order.
LEMMA EnqueueGrows ==
    ASSUME NEW q \in Seq(Event), InOrder(q), NEW e \in Event
    PROVE  Enqueue(q, e) \in Seq(Event) /\ InOrder(Enqueue(q, e))
<1>1. Enqueue(q, e) \in Seq(Event)
  BY EnqueueShifts
<1>2. InOrder(Enqueue(q, e))
  <2>1. \A s \in Event : s.at \in Int
    BY EventTicks
  <2>. QED
    BY <2>1, EnqueueInOrder
<1>. QED
  BY <1>1, <1>2

\* What is left of the queue when its first event is popped.
LEMMA TailOf ==
    ASSUME NEW q, NEW tick \in Nat, QueueOK(q, tick), q # <<>>
    PROVE  /\ Head(q) \in Event /\ Head(q).at >= tick /\ Head(q).at \in Nat
           /\ QueueOK(Tail(q), Head(q).at)
           /\ Range(q) = Range(Tail(q)) \cup {Head(q)}
           /\ \A A : Once(q, A) => Once(Tail(q), A)
           /\ \A A : Once(q, A) /\ Head(q) \in A => Range(Tail(q)) \cap A = {}
<1> DEFINE t == Tail(q)
           h == Head(q)
<1>1. /\ q \in Seq(Event) /\ InOrder(q) /\ Len(q) \in Nat \ {0}
      /\ \A e \in Range(q) : e.at >= tick
  BY DEF QueueOK
<1>2. /\ t \in Seq(Event) /\ Len(t) = Len(q) - 1 /\ h = q[1]
      /\ \A i \in 1..Len(t) : t[i] = q[i + 1]
  BY <1>1
<1>3. h \in Event /\ h \in Range(q) /\ h.at >= tick /\ h.at \in Nat
  <2>1. 1 \in DOMAIN q
    BY <1>1
  <2>. QED
    BY <1>1, <1>2, <2>1, EventTicks DEF Range
<1> HIDE DEF t, h
<1>4. /\ \A i \in DOMAIN t : i + 1 \in DOMAIN q /\ t[i] = q[i + 1] /\ i \in Nat
      /\ \A i \in DOMAIN q : i = 1 \/ (i - 1 \in DOMAIN t /\ t[i - 1] = q[i])
      /\ 1 \in DOMAIN q /\ q[1] = h
  BY <1>1, <1>2
<1>5. Range(q) = Range(t) \cup {h}
  BY <1>4 DEF Range
<1>6. InOrder(t)
  <2> SUFFICES ASSUME NEW i \in DOMAIN t, NEW j \in DOMAIN t, i < j
               PROVE  t[i].at <= t[j].at
    BY DEF InOrder
  <2>1. i + 1 < j + 1
    BY <1>4
  <2>. QED
    BY <1>1, <1>4, <2>1 DEF InOrder
<1>7. \A e \in Range(t) : e.at >= h.at
  <2> SUFFICES ASSUME NEW i \in DOMAIN t PROVE t[i].at >= h.at
    BY DEF Range
  <2>1. q[1].at <= q[i + 1].at
    <3>1. 1 < i + 1
      BY <1>2
    <3>. QED
      BY <1>1, <1>4, <3>1 DEF InOrder
  <2>2. t[i] \in Event
    BY <1>2
  <2>. QED
    BY <1>3, <1>4, <2>1, <2>2, EventTicks
<1>8. ASSUME NEW A, Once(q, A) PROVE Once(t, A)
  <2> SUFFICES ASSUME NEW i \in DOMAIN t, NEW j \in DOMAIN t, t[i] \in A, t[j] \in A
               PROVE  i = j
    BY DEF Once
  <2>1. i + 1 = j + 1
    BY <1>4, <1>8 DEF Once
  <2>. QED
    BY <1>4, <2>1
<1>9. ASSUME NEW A, Once(q, A), h \in A PROVE Range(t) \cap A = {}
  <2> SUFFICES ASSUME NEW i \in DOMAIN t, t[i] \in A PROVE FALSE
    BY DEF Range
  <2>1. i + 1 = 1
    BY <1>4, <1>9 DEF Once
  <2>. QED
    BY <1>2, <2>1
<1>. QED
  BY <1>2, <1>3, <1>5, <1>6, <1>7, <1>8, <1>9 DEF QueueOK, t, h

\* What scheduling an event does.
LEMMA ScheduleKeeps ==
    ASSUME NEW tick \in Nat, NEW q, QueueOK(q, tick), NEW e \in Event, e.at >= tick
    PROVE  /\ QueueOK(Enqueue(q, e), tick)
           /\ Range(Enqueue(q, e)) = Range(q) \cup {e}
           /\ \A A : Once(q, A) /\ (e \in A => Range(q) \cap A = {}) => Once(Enqueue(q, e), A)
<1>1. q \in Seq(Event) /\ InOrder(q) /\ \A x \in Range(q) : x.at >= tick
  BY DEF QueueOK
<1>2. Range(Enqueue(q, e)) = Range(q) \cup {e}
  BY <1>1, EnqueueAdds
<1>3. ASSUME NEW A, Once(q, A), e \in A => Range(q) \cap A = {} PROVE Once(Enqueue(q, e), A)
  BY <1>1, <1>3, EnqueueOnce
<1>4. Enqueue(q, e) \in Seq(Event) /\ InOrder(Enqueue(q, e))
  BY <1>1, EnqueueGrows
<1>. QED
  BY <1>1, <1>2, <1>3, <1>4 DEF QueueOK

\* i is among the first k of es, and e is what is there.
AmongFirst(es, k, e) == \E i \in 1..k : es[i] = e

\* The kinds of which there is one event at most.
Chains == {"advance", "sample"}

\* Whatever begin() schedules, one event of a kind at most, is in order.
LEMMA FirstAgenda ==
    ASSUME NEW es \in Seq(Event),
           \A r \in Chains : \A i, j \in 1..Len(es) :
              es[i] \in Kind(r) /\ es[j] \in Kind(r) => i = j
    PROVE  LET q == EnqueueAll(<<>>, es)
           IN  /\ QueueOK(q, 0)
               /\ \A e : e \in Range(q) <=> AmongFirst(es, Len(es), e)
               /\ \A r \in Chains : Once(q, Kind(r))
<1> DEFINE n == Len(es)
           Has(p, k) == /\ InOrder(p)
                        /\ \A e : e \in Range(p) <=> AmongFirst(es, k, e)
                        /\ \A r \in Chains : Once(p, Kind(r))
           K == [k \in 0..n |-> {p \in Seq(Event) : Has(p, k)}]
           none == <<>>
<1>1. n \in Nat /\ \A i \in 1..n : es[i] \in Event
  OBVIOUS
<1>2. none \in Seq(Event) /\ Has(none, 0)
  <2>1. none \in Seq(Event) /\ DOMAIN none = {}
    OBVIOUS
  <2> HIDE DEF none
  <2>. QED
    BY <2>1 DEF InOrder, Range, AmongFirst, Once
<1>3. ASSUME NEW k \in 1..n, NEW p \in Seq(Event), Has(p, k - 1)
      PROVE  Enqueue(p, es[k]) \in Seq(Event) /\ Has(Enqueue(p, es[k]), k)
  <2> DEFINE e == es[k]
             after == Enqueue(p, e)
  <2>1. e \in Event /\ InOrder(p) /\ \A x \in Range(p) : AmongFirst(es, k - 1, x)
    BY <1>1, <1>3
  <2>2. after \in Seq(Event) /\ InOrder(after)
    BY <2>1, EnqueueGrows
  <2>3. Range(after) = Range(p) \cup {e}
    BY <2>1, EnqueueAdds
  <2>4. ASSUME NEW x PROVE AmongFirst(es, k, x) <=> AmongFirst(es, k - 1, x) \/ x = e
    <3>1. 1..k = (1..(k - 1)) \cup {k}
      BY <1>1
    <3>. QED
      BY <3>1 DEF AmongFirst
  <2>5. ASSUME NEW r \in Chains PROVE Once(after, Kind(r))
    <3>1. ASSUME e \in Kind(r), NEW x \in Range(p) \cap Kind(r) PROVE FALSE
      <4>1. PICK i \in 1..(k - 1) : es[i] = x
        BY <2>1 DEF AmongFirst
      <4>2. i \in 1..n /\ k \in 1..n /\ i # k
        BY <1>1
      <4>. QED
        BY <3>1, <4>1, <4>2
    <3>2. Once(p, Kind(r))
      BY <1>3
    <3> HIDE DEF e
    <3>. QED
      BY <2>1, <3>1, <3>2, EnqueueOnce
  <2>6. \A x : x \in Range(after) <=> AmongFirst(es, k, x)
    BY <1>3, <2>3, <2>4
  <2>. QED
    BY <2>2, <2>5, <2>6
<1> HIDE DEF Has
<1>4. K \in [0..n -> SUBSET Seq(Event)]
  OBVIOUS
<1>5. \A k \in 0..n : K[k] = {p \in Seq(Event) : Has(p, k)}
  OBVIOUS
<1> HIDE DEF K
<1>6. none \in K[0]
  <2>1. 0 \in 0..n
    BY <1>1
  <2>2. K[0] = {p \in Seq(Event) : Has(p, 0)}
    BY <1>5, <2>1
  <2>. QED
    BY <1>2, <2>2
<1>7. \A k \in 1..n : \A p \in K[k - 1] : Enqueue(p, es[k]) \in K[k]
  BY <1>1, <1>3, <1>5
<1> HIDE DEF none
<1>8. EnqueueAll(none, es) \in K[Len(es)]
  BY <1>2, <1>4, <1>6, <1>7, EnqueueAllByStep
<1> DEFINE q == EnqueueAll(none, es)
<1>9. q \in Seq(Event) /\ Has(q, n)
  BY <1>1, <1>5, <1>8
<1> HIDE DEF q
<1>10. \A e \in Range(q) : e.at >= 0
  <2>1. \A e \in Range(q) : e \in Event
    BY <1>9 DEF Range
  <2>. QED
    BY <2>1, EventTicks
<1>. QED
  BY <1>9, <1>10 DEF Has, QueueOK, q, none

-----------------------------------------------------------------------------
(* The invariant.                                                          *)

\* A robot on its itinerary, of which nothing is later than tick t.
RobotOK(r, t) ==
    /\ Travels(r) /\ r.node \in 0..Len(Itinerary)
    /\ InTransit(r) => r.departed_at <= t
    /\ r.odometry_at <= t /\ \A e \in r.estimate : e.at <= t
    /\ scenario.dead_reckoning => (InTransit(r) => r.departed_at <= r.odometry_at)

\* The two chains of the robot r: no more than an event of each, and none missing.
ChainsOK(q, r, n) ==
    /\ Once(q, Kind("advance")) /\ Once(q, Kind("sample"))
    /\ InTransit(r) => Advance(r.arrival) \in Range(q)
    /\ Sample(n * scenario.period) \in Range(q)

SampleRecord == [at : Nat, model : Models, fix : BOOLEAN, reacquired : BOOLEAN,
                 since_last_fix : SUBSET Int]

TypeInv ==
    /\ now \in Nat /\ until \in Nat /\ running \in BOOLEAN /\ injected \in Nat
    /\ scenario \in Scenarios
    /\ rest_heading \in Heading /\ model \in Models
    /\ atFix \subseteq [believed : Pose, true : Pose]
    /\ samples \in Seq(SampleRecord)

CourseInv ==
    /\ running => now <= until
    /\ QueueOK(queue, now)
    /\ RobotOK(robot, now)
    /\ ChainsOK(queue, robot, Len(samples))

(* What dead reckoning may do to a belief: not what is known of the fixes; *)
(* no estimate where there was none, and none lost; and an estimate it     *)
(* alters is no longer the fix.  Without dead reckoning it does nothing.   *)
Reckons(s, q) ==
    /\ q.last_fix_at = s.last_fix_at /\ q.missed = s.missed
    /\ q.estimate = {} <=> s.estimate = {}
    /\ ~q.dead_reckoned => ~s.dead_reckoned /\ q.estimate = s.estimate
    /\ ~scenario.dead_reckoning =>
         q.dead_reckoned = s.dead_reckoned /\ q.estimate = s.estimate

\* What an update does to a robot that is in order.
LEMMA UpdateKeeps ==
    ASSUME scenario \in Scenarios, NEW now0 \in Nat, NEW r, RobotOK(r, now0),
           NEW t \in Nat, now0 <= t
    PROVE  LET q == AdvanceLocalization(r, t)
           IN  /\ RobotOK(q, t) /\ Reckons(r, q)
               /\ q.node = r.node /\ q.departed_at = r.departed_at /\ q.arrival = r.arrival
               /\ InTransit(q) = InTransit(r)
               /\ scenario.dead_reckoning => q.odometry_at = t
<1> DEFINE q == AdvanceLocalization(r, t)
<1>1. /\ r \in RobotType /\ Travels(r) /\ r.odometry_at <= t
      /\ \A e \in r.estimate : e.at <= t
      /\ scenario.dead_reckoning => Updatable(r, t)
  <2>1. /\ r \in RobotType /\ Travels(r) /\ r.odometry_at <= now0
        /\ \A e \in r.estimate : e.at <= now0
        /\ scenario.dead_reckoning => (InTransit(r) => r.departed_at <= r.odometry_at)
    BY DEF RobotOK, Travels
  <2>2. r.odometry_at \in Nat /\ r.estimate \subseteq Pose /\ \A e \in Pose : e.at \in Nat
    BY <2>1, Fields DEF Pose
  <2>3. r.odometry_at <= t /\ \A e \in r.estimate : e.at <= t
    BY <2>1, <2>2
  <2>. QED
    BY <2>1, <2>3 DEF Updatable
<1>2. /\ Tracks(r, q, t)
      /\ scenario.dead_reckoning => q.odometry_at = t
      /\ ~scenario.dead_reckoning => q = r
  BY <1>1, AdvanceTracks
<1> HIDE DEF q
<1>3. /\ q \in RobotType
      /\ q.node = r.node /\ q.departed_at = r.departed_at /\ q.arrival = r.arrival
      /\ \A e \in q.estimate : e.at <= t
  BY <1>2 DEF Tracks
<1>4. InTransit(q) = InTransit(r)
  BY <1>3 DEF InTransit
<1>5. q.odometry_at <= t
  BY <1>1, <1>2
<1>6. Reckons(r, q)
  BY <1>2 DEF Tracks, Reckons
<1>7. RobotOK(q, t)
  <2>1. Travels(q)
    BY <1>1, <1>3, <1>4 DEF Travels
  <2>2. InTransit(r) => r.departed_at <= t
    BY <1>1, Fields DEF RobotOK
  <2>. QED
    BY <1>2, <1>3, <1>4, <1>5, <2>1, <2>2 DEF RobotOK
<1>. QED
  BY <1>2, <1>3, <1>4, <1>6, <1>7 DEF q

\* One update after another.
LEMMA ReckonsOnward ==
    ASSUME NEW s, NEW q, NEW p, Reckons(s, q), Reckons(q, p)
    PROVE  Reckons(s, p)
BY DEF Reckons

\* A robot that completes its traversal is at the next node.
LEMMA CompletedIs ==
    ASSUME scenario \in Scenarios, NEW now0 \in Nat, NEW r, RobotOK(r, now0),
           InTransit(r), now0 <= r.arrival
    PROVE  /\ RobotOK(Completed(r), r.arrival) /\ Reckons(r, Completed(r))
           /\ ~InTransit(Completed(r)) /\ Completed(r).node = r.node + 1
<1> DEFINE q == AdvanceLocalization(r, r.arrival)
           p == Completed(r)
<1>1. r.arrival \in Nat /\ r.node \in Nat /\ r.node + 1 \in 1..Len(Itinerary)
  BY Fields DEF RobotOK, Travels
<1>2. /\ RobotOK(q, r.arrival) /\ Reckons(r, q) /\ q.node = r.node
  BY <1>1, UpdateKeeps
<1>3. p = [q EXCEPT !.node = @ + 1, !.departed_at = 1, !.arrival = 0]
  BY DEF Completed
<1> HIDE DEF q, p
<1>4. q \in RobotType
  BY <1>2 DEF RobotOK, Travels
<1>5. /\ p \in RobotType /\ p.node = r.node + 1 /\ p.departed_at = 1 /\ p.arrival = 0
      /\ p.estimate = q.estimate /\ p.last_fix_at = q.last_fix_at /\ p.missed = q.missed
      /\ p.dead_reckoned = q.dead_reckoned /\ p.odometry_at = q.odometry_at
  <2>1. q.node + 1 \in Nat /\ 1 \in Nat /\ 0 \in Nat
    BY <1>1, <1>2
  <2>. QED
    BY <1>2, <1>3, <1>4, <2>1 DEF RobotType
<1>6. ~InTransit(p)
  BY <1>5 DEF InTransit
<1>7. p.node \in 0..Len(Itinerary)
  BY <1>1, <1>5
<1>8. RobotOK(p, r.arrival)
  BY <1>2, <1>5, <1>6, <1>7 DEF RobotOK, Travels
<1>9. Reckons(r, p)
  BY <1>2, <1>5 DEF Reckons
<1>. QED
  BY <1>5, <1>6, <1>8, <1>9 DEF p

\* A robot that departs is on the traversal that begins at its node.
LEMMA BegunIs ==
    ASSUME scenario \in Scenarios, NEW now0 \in Nat, NEW r, RobotOK(r, now0),
           ~InTransit(r), r.node < Len(Itinerary), NEW t \in Nat, now0 <= t
    PROVE  /\ RobotOK(Begun(r, t), t) /\ Reckons(r, Begun(r, t))
           /\ InTransit(Begun(r, t)) /\ Begun(r, t).node = r.node
           /\ Begun(r, t).departed_at = t
           /\ Begun(r, t).arrival = t + Itinerary[r.node + 1].ticks
<1> DEFINE q == AdvanceLocalization(r, t)
           c == Itinerary[r.node + 1].ticks
           d == [q EXCEPT !.departed_at = t, !.arrival = t + c]
           p == AdvanceLocalization(d, t)
<1>1. r.node \in Nat /\ r.node + 1 \in 1..Len(Itinerary)
  BY Fields DEF RobotOK, Travels
<1>2. c \in Nat \ {0}
  BY <1>1, Traversal
<1>3. /\ RobotOK(q, t) /\ Reckons(r, q) /\ q.node = r.node
      /\ scenario.dead_reckoning => q.odometry_at = t
  BY UpdateKeeps
<1>4. Begun(r, t) = p
  BY DEF Begun
<1> HIDE DEF q, p
<1>5. q \in RobotType
  BY <1>3 DEF RobotOK, Travels
<1>6. /\ d \in RobotType /\ d.node = r.node /\ d.departed_at = t /\ d.arrival = t + c
      /\ d.estimate = q.estimate /\ d.last_fix_at = q.last_fix_at /\ d.missed = q.missed
      /\ d.dead_reckoned = q.dead_reckoned /\ d.odometry_at = q.odometry_at
  <2>1. t + c \in Nat
    BY <1>2
  <2> HIDE DEF c
  <2>. QED
    BY <1>3, <1>5, <2>1 DEF RobotType
<1> HIDE DEF d
<1>7. InTransit(d)
  BY <1>2, <1>6 DEF InTransit
<1>8. RobotOK(d, t)
  BY <1>1, <1>3, <1>6, <1>7 DEF RobotOK, Travels
<1>9. Reckons(r, d)
  BY <1>3, <1>6 DEF Reckons
<1>10. /\ RobotOK(p, t) /\ Reckons(d, p) /\ InTransit(p)
       /\ p.node = r.node /\ p.departed_at = t /\ p.arrival = t + c
  <2>1. t <= t
    OBVIOUS
  <2>2. /\ RobotOK(p, t) /\ Reckons(d, p) /\ InTransit(p) = InTransit(d)
        /\ p.node = d.node /\ p.departed_at = d.departed_at /\ p.arrival = d.arrival
    BY <1>8, <2>1, UpdateKeeps DEF p
  <2>. QED
    BY <1>6, <1>7, <2>2
<1>11. Reckons(r, p)
  BY <1>9, <1>10, ReckonsOnward
<1>. QED
  BY <1>4, <1>10, <1>11

\* What is measured is nothing, or a pose of the tick.
LEMMA MeasurementIs ==
    ASSUME NEW m \in Models, NEW truth \in Pose, NEW fix \in Measurements(m, truth)
    PROVE  fix = {} \/ \E e \in Pose : fix = {e} /\ e.at = truth.at
<1>1. CASE m = "perfect"
  BY <1>1 DEF Measurements
<1>2. CASE m = "unavailable"
  BY <1>2 DEF Measurements
<1>3. CASE m = "noisy"
  <2>1. PICK noise \in Offsets \X Turns :
          fix = {[truth EXCEPT !.position = Shifted(@, noise[1]),
                               !.heading = (@ + noise[2]) % 4]}
    BY <1>3 DEF Measurements
  <2> DEFINE p == Shifted(truth.position, noise[1])
             h == (truth.heading + noise[2]) % 4
             e == [truth EXCEPT !.position = p, !.heading = h]
  <2>2. truth.position \in Position /\ truth.heading \in Heading
    BY DEF Pose
  <2>3. noise[1] \in Position /\ noise[2] \in Heading
    BY BoundsAssumption DEF Position
  <2>4. p \in Position
    BY <2>2, <2>3, VectorTypes
  <2>5. h \in Heading
    BY <2>2, <2>3 DEF Heading
  <2>6. fix = {e}
    BY <2>1
  <2> HIDE DEF p, h
  <2>7. e \in Pose /\ e.at = truth.at
    BY <2>4, <2>5 DEF Pose
  <2>. QED
    BY <2>6, <2>7
<1>. QED
  BY <1>1, <1>2, <1>3 DEF Models

-----------------------------------------------------------------------------
(* The steps.                                                              *)

\* The tick of the event that is next.
Due == Head(queue).at

\* Where in the queue an event is, no event before it is later.
LEMMA HeadIsFirst ==
    ASSUME NEW q, NEW tick \in Nat, QueueOK(q, tick), q # <<>>
    PROVE  \A e \in Range(q) : Head(q).at <= e.at
<1>1. Range(q) = Range(Tail(q)) \cup {Head(q)} /\ QueueOK(Tail(q), Head(q).at)
      /\ Head(q).at \in Nat
  BY TailOf
<1>. QED
  BY <1>1 DEF QueueOK

\* A queue with its chains is not empty, and nothing in it is in the past.
LEMMA QueueIs ==
    ASSUME TypeInv, CourseInv
    PROVE  /\ queue # <<>> /\ Due \in Nat /\ now <= Due /\ Head(queue) \in Event
           /\ Len(samples) \in Nat
           /\ scenario.period \in Nat \ {0} /\ scenario.retry \in Nat \ {0}
           /\ scenario.dead_reckoning \in BOOLEAN
           /\ Len(samples) * scenario.period \in Nat
           /\ InTransit(robot) => robot.arrival \in Nat /\ Due <= robot.arrival
<1>1. queue # <<>>
  <2>1. Range(queue) # {}
    BY DEF CourseInv, ChainsOK
  <2>. QED
    BY <2>1 DEF Range
<1>2. Head(queue) \in Event /\ Due \in Nat /\ now <= Due
  BY <1>1, TailOf DEF TypeInv, CourseInv, Due
<1>3. /\ Len(samples) \in Nat
      /\ scenario.period \in Nat \ {0} /\ scenario.retry \in Nat \ {0}
      /\ scenario.dead_reckoning \in BOOLEAN
  BY ScenarioAssumption DEF TypeInv
<1>4. Len(samples) * scenario.period \in Nat
  BY <1>3
<1>5. ASSUME InTransit(robot) PROVE robot.arrival \in Nat /\ Due <= robot.arrival
  <2>1. Advance(robot.arrival) \in Range(queue)
    BY <1>5 DEF CourseInv, ChainsOK
  <2>2. Due <= Advance(robot.arrival).at
    BY <1>1, <2>1, HeadIsFirst DEF TypeInv, CourseInv, Due
  <2>3. robot.arrival \in Nat
    BY Fields DEF CourseInv, RobotOK, Travels
  <2>. QED
    BY <2>2, <2>3 DEF Advance
<1>. QED
  BY <1>1, <1>2, <1>3, <1>4, <1>5

\* What is there when an event is popped, and what is left of the queue.
LEMMA PoppedIs ==
    ASSUME TypeInv, CourseInv, NEW k, Pop(k)
    PROVE  /\ now' = Due /\ until' = until /\ running' = running /\ injected' = injected
           /\ scenario' = scenario
           /\ running /\ Due <= until
           /\ Head(queue) \in Kind(k)
           /\ QueueOK(Tail(queue), Due)
           /\ Once(Tail(queue), Kind("advance")) /\ Once(Tail(queue), Kind("sample"))
           /\ k = "advance" =>
                /\ Range(Tail(queue)) \cap Kind("advance") = {}
                /\ InTransit(robot) => Due = robot.arrival
           /\ k # "advance" =>
                (InTransit(robot) => Advance(robot.arrival) \in Range(Tail(queue)))
           /\ k = "sample" =>
                /\ Range(Tail(queue)) \cap Kind("sample") = {}
                /\ Due = Len(samples) * scenario.period
           /\ k # "sample" => Sample(Len(samples) * scenario.period) \in Range(Tail(queue))
<1> DEFINE h == Head(queue)
           rest == Tail(queue)
           next == Sample(Len(samples) * scenario.period)
           arrive == Advance(robot.arrival)
<1>1. /\ now' = h.at /\ until' = until /\ running' = running /\ injected' = injected
      /\ scenario' = scenario
      /\ running /\ h.at <= until /\ h.kind = k
  BY DEF Pop
<1>2. /\ queue # <<>> /\ h \in Event /\ h.at \in Nat
      /\ Len(samples) * scenario.period \in Nat
      /\ InTransit(robot) => robot.arrival \in Nat
  BY QueueIs DEF Due
<1>3. /\ QueueOK(rest, h.at)
      /\ Range(queue) = Range(rest) \cup {h}
      /\ \A A : Once(queue, A) => Once(rest, A)
      /\ \A A : Once(queue, A) /\ h \in A => Range(rest) \cap A = {}
  BY <1>2, TailOf DEF TypeInv, CourseInv
<1>4. /\ Once(queue, Kind("advance")) /\ Once(queue, Kind("sample"))
      /\ InTransit(robot) => arrive \in Range(queue)
      /\ next \in Range(queue)
  BY DEF CourseInv, ChainsOK
<1>5. h \in Kind(k)
  BY <1>1, <1>2 DEF Kind
<1>6. /\ next \in Kind("sample") /\ next.at = Len(samples) * scenario.period
      /\ InTransit(robot) => arrive \in Kind("advance") /\ arrive.at = robot.arrival
  <2>1. \E m : m \in Models
    BY DEF Models
  <2>. QED
    BY <1>2, <2>1, EventsAre
<1> HIDE DEF h, rest, next, arrive
<1>7. ASSUME k = "advance"
      PROVE  /\ Range(rest) \cap Kind("advance") = {}
             /\ InTransit(robot) => h.at = robot.arrival
  <2>1. Range(rest) \cap Kind("advance") = {}
    BY <1>3, <1>4, <1>5, <1>7
  <2>. QED
    BY <1>3, <1>4, <1>6, <2>1
<1>8. ASSUME k # "advance", InTransit(robot) PROVE arrive \in Range(rest)
  <2>1. h \notin Kind("advance")
    BY <1>5, <1>8, KindsAre
  <2>. QED
    BY <1>3, <1>4, <1>6, <1>8, <2>1
<1>9. ASSUME k = "sample"
      PROVE  /\ Range(rest) \cap Kind("sample") = {}
             /\ h.at = Len(samples) * scenario.period
  <2>1. Range(rest) \cap Kind("sample") = {}
    BY <1>3, <1>4, <1>5, <1>9
  <2>. QED
    BY <1>3, <1>4, <1>6, <2>1
<1>10. ASSUME k # "sample" PROVE next \in Range(rest)
  <2>1. h \notin Kind("sample")
    BY <1>5, <1>10, KindsAre
  <2>. QED
    BY <1>3, <1>4, <1>6, <2>1
<1>. QED
  BY <1>1, <1>3, <1>4, <1>5, <1>7, <1>8, <1>9, <1>10 DEF Due, h, rest, next, arrive

\* What scheduling an advance or a sample event in what is left does.
LEMMA Scheduled ==
    ASSUME NEW tick \in Nat, NEW q, QueueOK(q, tick),
           Once(q, Kind("advance")), Once(q, Kind("sample")),
           NEW k \in {"advance", "sample"}, NEW e \in Kind(k), e.at >= tick,
           Range(q) \cap Kind(k) = {}
    PROVE  /\ QueueOK(Enqueue(q, e), tick)
           /\ Range(Enqueue(q, e)) = Range(q) \cup {e}
           /\ Once(Enqueue(q, e), Kind("advance")) /\ Once(Enqueue(q, e), Kind("sample"))
<1>1. e \in Event /\ \A l : l # k => e \notin Kind(l)
  BY KindsAre
<1>2. /\ QueueOK(Enqueue(q, e), tick)
      /\ Range(Enqueue(q, e)) = Range(q) \cup {e}
      /\ \A A : Once(q, A) /\ (e \in A => Range(q) \cap A = {}) => Once(Enqueue(q, e), A)
  BY <1>1, ScheduleKeeps
<1>3. ASSUME NEW l, Once(q, Kind(l)) PROVE Once(Enqueue(q, e), Kind(l))
  <2>1. e \in Kind(l) => Range(q) \cap Kind(l) = {}
    BY <1>1
  <2>. QED
    BY <1>2, <1>3, <2>1
<1>. QED
  BY <1>2, <1>3

\* A robot that is in order stays so while time passes.
LEMMA RobotLater ==
    ASSUME NEW t \in Nat, NEW u \in Nat, t <= u, NEW r, RobotOK(r, t)
    PROVE  RobotOK(r, u)
<1>1. r \in RobotType /\ r.odometry_at <= t /\ \A e \in r.estimate : e.at <= t
  BY DEF RobotOK, Travels
<1>2. /\ r.odometry_at \in Nat /\ r.departed_at \in Nat
      /\ r.estimate \subseteq Pose /\ \A e \in Pose : e.at \in Nat
  BY <1>1, Fields DEF Pose
<1>3. r.odometry_at <= u /\ \A e \in r.estimate : e.at <= u
  BY <1>1, <1>2
<1>4. InTransit(r) => r.departed_at <= u
  BY <1>2 DEF RobotOK
<1>. QED
  BY <1>3, <1>4 DEF RobotOK

\* The robot at the node an advance event finds it at.
LEMMA AtNodeIs ==
    ASSUME TypeInv, CourseInv, Pop("advance")
    PROVE  /\ RobotOK(AtNode(Due).robot, Due) /\ ~InTransit(AtNode(Due).robot)
           /\ Reckons(robot, AtNode(Due).robot)
           /\ AtNode(Due).heading \in Heading
<1>1. /\ Due \in Nat /\ now \in Nat /\ now <= Due /\ RobotOK(robot, now)
      /\ scenario \in Scenarios /\ rest_heading \in Heading
  BY QueueIs DEF TypeInv, CourseInv
<1>2. CASE InTransit(robot)
  <2> DEFINE truth == TruthPose(robot, rest_heading, Due)
  <2>1. Due = robot.arrival
    BY <1>2, PoppedIs
  <2>2. AtNode(Due) = [robot |-> Completed(robot), heading |-> truth.heading]
    BY <1>2 DEF AtNode
  <2>3. /\ RobotOK(Completed(robot), Due) /\ Reckons(robot, Completed(robot))
        /\ ~InTransit(Completed(robot))
    BY <1>1, <1>2, <2>1, CompletedIs
  <2>4. truth \in Pose
    <3>1. Travels(robot) /\ robot.node \in 0..Len(Itinerary) /\ robot.departed_at <= Due
      BY <1>1, <1>2, RobotLater DEF RobotOK
    <3>. QED
      BY <1>1, <3>1, TruthPoseType
  <2>5. truth.heading \in Heading
    BY <2>4 DEF Pose
  <2> HIDE DEF truth
  <2>. QED
    BY <2>2, <2>3, <2>5
<1>3. CASE ~InTransit(robot)
  <2>1. AtNode(Due) = [robot |-> robot, heading |-> rest_heading]
    BY <1>3 DEF AtNode
  <2>2. RobotOK(robot, Due)
    BY <1>1, RobotLater
  <2>3. Reckons(robot, robot)
    BY DEF Reckons
  <2>. QED
    BY <1>1, <1>3, <2>1, <2>2, <2>3
<1>. QED
  BY <1>2, <1>3

\* The invariant of the next state, by its parts.
LEMMA NextCourse ==
    ASSUME TypeInv, CourseInv, NEW k, Pop(k), NEW q, NEW r, NEW n,
           queue' = q, robot' = r, Len(samples') = n,
           QueueOK(q, Due), RobotOK(r, Due), ChainsOK(q, r, n)
    PROVE  CourseInv'
<1>1. /\ now' = Due /\ until' = until /\ running' = running /\ scenario' = scenario
      /\ running /\ Due <= until
  BY PoppedIs
<1>2. QueueOK(queue, now)'
  BY <1>1 DEF QueueOK
<1>3. RobotOK(robot, now)'
  BY <1>1 DEF RobotOK, Travels, InTransit
<1>4. ChainsOK(queue, robot, Len(samples))'
  BY <1>1 DEF ChainsOK, InTransit
<1>5. (running => now <= until)'
  BY <1>1
<1>. QED
  BY <1>2, <1>3, <1>4, <1>5 DEF CourseInv

\* The event handled schedules one of kind k.
Pushes(k) == \E e \in Kind(k) : queue' = Enqueue(Tail(queue), e)

\* A robot departs.
LEMMA DepartKeeps ==
    ASSUME TypeInv, CourseInv, Depart
    PROVE  TypeInv' /\ CourseInv' /\ Reckons(robot, robot') /\ Pushes("advance")
<1> DEFINE s == AtNode(Due)
           p == Begun(s.robot, Due)
           rest == Tail(queue)
           e == Advance(p.arrival)
<1>1. /\ Pop("advance") /\ s.robot.node < Len(Itinerary)
      /\ robot' = p /\ rest_heading' = s.heading /\ queue' = Enqueue(rest, e)
      /\ model' = model /\ atFix' = atFix /\ samples' = samples
  BY DEF Depart, Due
<1>2. /\ RobotOK(s.robot, Due) /\ ~InTransit(s.robot) /\ Reckons(robot, s.robot)
      /\ s.heading \in Heading
  BY <1>1, AtNodeIs
<1>3. /\ Due \in Nat /\ scenario \in Scenarios /\ Len(samples) \in Nat
      /\ Len(samples) * scenario.period \in Nat
  BY QueueIs DEF TypeInv
<1>4. /\ RobotOK(p, Due) /\ Reckons(s.robot, p) /\ InTransit(p) /\ p.departed_at = Due
  <2>1. Due <= Due
    BY <1>3
  <2> HIDE DEF s
  <2>. QED
    BY <1>1, <1>2, <1>3, <2>1, BegunIs
<1> HIDE DEF p, s
<1>5. Reckons(robot, p)
  BY <1>2, <1>4, ReckonsOnward
<1>6. p.arrival \in Nat /\ p.arrival >= Due
  BY <1>4, Fields DEF RobotOK, Travels, InTransit
<1>7. e \in Kind("advance") /\ e.at = p.arrival
  <2>1. \E m : m \in Models
    BY DEF Models
  <2>. QED
    BY <1>6, <2>1, EventsAre
<1>8. /\ now' = Due /\ until' = until /\ running' = running /\ injected' = injected
      /\ scenario' = scenario
      /\ QueueOK(rest, Due) /\ Once(rest, Kind("advance")) /\ Once(rest, Kind("sample"))
      /\ Range(rest) \cap Kind("advance") = {}
      /\ Sample(Len(samples) * scenario.period) \in Range(rest)
  BY <1>1, PoppedIs
<1>9. /\ QueueOK(Enqueue(rest, e), Due)
      /\ Range(Enqueue(rest, e)) = Range(rest) \cup {e}
      /\ Once(Enqueue(rest, e), Kind("advance")) /\ Once(Enqueue(rest, e), Kind("sample"))
  <2> HIDE DEF e, rest
  <2>. QED
    BY <1>3, <1>6, <1>7, <1>8, Scheduled
<1>10. ChainsOK(Enqueue(rest, e), p, Len(samples))
  BY <1>8, <1>9 DEF ChainsOK
<1>11. CourseInv'
  BY <1>1, <1>4, <1>9, <1>10, NextCourse
<1>12. TypeInv'
  BY <1>1, <1>2, <1>3, <1>8 DEF TypeInv
<1>13. Pushes("advance")
  BY <1>1, <1>7 DEF Pushes
<1>. QED
  BY <1>1, <1>5, <1>11, <1>12, <1>13

\* A robot stays where it is: there is no route, or nothing left to do.
LEMMA StayKeeps ==
    ASSUME TypeInv, CourseInv, Park \/ EndChain
    PROVE  /\ TypeInv' /\ CourseInv' /\ Reckons(robot, robot')
           /\ queue' = Tail(queue) \/ Pushes("advance")
<1> DEFINE s == AtNode(Due)
           r == s.robot
           rest == Tail(queue)
           e == Advance(Due + scenario.retry)
<1>1. /\ Pop("advance")
      /\ robot' = r /\ rest_heading' = s.heading
      /\ model' = model /\ atFix' = atFix /\ samples' = samples
      /\ queue' = Enqueue(rest, e) \/ queue' = rest
  BY DEF Park, EndChain, Due
<1>2. /\ RobotOK(r, Due) /\ ~InTransit(r) /\ Reckons(robot, r) /\ s.heading \in Heading
  BY <1>1, AtNodeIs
<1>3. /\ Due \in Nat /\ scenario \in Scenarios /\ Len(samples) \in Nat
      /\ scenario.retry \in Nat
  BY QueueIs DEF TypeInv
<1>4. /\ now' = Due /\ until' = until /\ running' = running /\ injected' = injected
      /\ scenario' = scenario
      /\ QueueOK(rest, Due) /\ Once(rest, Kind("advance")) /\ Once(rest, Kind("sample"))
      /\ Range(rest) \cap Kind("advance") = {}
      /\ Sample(Len(samples) * scenario.period) \in Range(rest)
  BY <1>1, PoppedIs
<1>5. e \in Kind("advance") /\ e.at >= Due
  <2>1. Due + scenario.retry \in Nat /\ Due + scenario.retry >= Due /\ \E m : m \in Models
    BY <1>3 DEF Models
  <2>. QED
    BY <2>1, EventsAre
<1> HIDE DEF r, s
<1>6. /\ QueueOK(Enqueue(rest, e), Due)
      /\ Range(Enqueue(rest, e)) = Range(rest) \cup {e}
      /\ Once(Enqueue(rest, e), Kind("advance")) /\ Once(Enqueue(rest, e), Kind("sample"))
  <2> HIDE DEF e, rest
  <2>. QED
    BY <1>3, <1>4, <1>5, Scheduled
<1>7. ChainsOK(Enqueue(rest, e), r, Len(samples)) /\ ChainsOK(rest, r, Len(samples))
  BY <1>2, <1>4, <1>6 DEF ChainsOK
<1>8. CourseInv'
  BY <1>1, <1>2, <1>4, <1>6, <1>7, NextCourse
<1>9. TypeInv'
  BY <1>1, <1>2, <1>3, <1>4 DEF TypeInv
<1>10. queue' = rest \/ Pushes("advance")
  BY <1>1, <1>5 DEF Pushes
<1>. QED
  BY <1>1, <1>2, <1>8, <1>9, <1>10

\* A switch of the model leaves the robot as it is.
LEMMA SwitchKeeps ==
    ASSUME TypeInv, CourseInv, SetGnssModel
    PROVE  TypeInv' /\ CourseInv' /\ robot' = robot
<1>1. /\ Pop("switch") /\ model' = Head(queue).model /\ queue' = Tail(queue)
      /\ robot' = robot /\ rest_heading' = rest_heading /\ atFix' = atFix
      /\ samples' = samples
  BY DEF SetGnssModel
<1>2. /\ now' = Due /\ until' = until /\ running' = running /\ injected' = injected
      /\ scenario' = scenario
      /\ Head(queue) \in Kind("switch")
      /\ QueueOK(Tail(queue), Due)
      /\ Once(Tail(queue), Kind("advance")) /\ Once(Tail(queue), Kind("sample"))
      /\ InTransit(robot) => Advance(robot.arrival) \in Range(Tail(queue))
      /\ Sample(Len(samples) * scenario.period) \in Range(Tail(queue))
  BY <1>1, PoppedIs
<1>3. /\ Due \in Nat /\ now \in Nat /\ now <= Due /\ RobotOK(robot, now)
  BY QueueIs DEF TypeInv, CourseInv
<1>4. RobotOK(robot, Due)
  BY <1>3, RobotLater
<1>5. ChainsOK(Tail(queue), robot, Len(samples))
  BY <1>2 DEF ChainsOK
<1>6. CourseInv'
  BY <1>1, <1>2, <1>4, <1>5, NextCourse
<1>7. Head(queue).model \in Models
  BY <1>2, KindsAre
<1>8. TypeInv'
  BY <1>1, <1>2, <1>3, <1>7 DEF TypeInv
<1>. QED
  BY <1>1, <1>6, <1>8

\* What a sample without a fix, and one with it, make of the robot r.
NoFix(r) ==
    /\ robot' = [r EXCEPT !.missed = @ + 1]
    /\ atFix' = atFix
    /\ samples' = Append(samples, Report(Due, r, {}))

Fixed(r, e, truth) ==
    /\ robot' = [r EXCEPT !.estimate = {e}, !.last_fix_at = {Due},
                          !.dead_reckoned = FALSE, !.missed = 0]
    /\ atFix' = {[believed |-> e, true |-> truth]}
    /\ samples' = Append(samples, Report(Due, r, {e}))

\* What a sample reports is a report.
LEMMA ReportType ==
    ASSUME NEW at \in Nat, NEW r \in RobotType, NEW fix, model \in Models
    PROVE  Report(at, r, fix) \in SampleRecord
<1> DEFINE b == fix # {}
           q == fix # {} /\ r.missed > 0 /\ r.estimate # {}
           l == IF fix = {} THEN {} ELSE {at - x : x \in r.last_fix_at}
<1>1. l \in SUBSET Int
  <2>1. r.last_fix_at \subseteq Nat
    BY Fields
  <2>. QED
    BY <2>1
<1>2. b \in BOOLEAN /\ q \in BOOLEAN
  OBVIOUS
<1>3. Report(at, r, fix) =
        [at |-> at, model |-> model, fix |-> b, reacquired |-> q, since_last_fix |-> l]
  BY DEF Report
<1> HIDE DEF b, q, l
<1>. QED
  BY <1>1, <1>2, <1>3 DEF SampleRecord

\* What a sample does.
LEMMA SampleIs ==
    ASSUME TypeInv, CourseInv, NEW fix, SampleGnss(fix)
    PROVE  LET r     == AdvanceLocalization(robot, Due)
               truth == TruthPose(robot, rest_heading, Due)
           IN  /\ RobotOK(r, Due) /\ Reckons(robot, r)
               /\ r.node = robot.node /\ r.departed_at = robot.departed_at
               /\ r.arrival = robot.arrival /\ InTransit(r) = InTransit(robot)
               /\ rest_heading' = rest_heading /\ truth \in Pose
               /\ NoFix(r) \/ \E e \in Pose : e.at = Due /\ Fixed(r, e, truth)
<1> DEFINE r == AdvanceLocalization(robot, Due)
           truth == TruthPose(robot, rest_heading, Due)
<1>1. /\ Pop("sample") /\ fix \in Measurements(model, truth)
      /\ robot' = ApplySample(r, fix) /\ rest_heading' = rest_heading
      /\ atFix' = (IF fix = {} THEN atFix
                   ELSE {[believed |-> e, true |-> truth] : e \in fix})
      /\ samples' = Append(samples, Report(Due, r, fix))
  BY DEF SampleGnss, Due
<1>2. /\ Due \in Nat /\ now \in Nat /\ now <= Due /\ RobotOK(robot, now)
      /\ scenario \in Scenarios /\ rest_heading \in Heading /\ model \in Models
  BY QueueIs DEF TypeInv, CourseInv
<1>3. /\ RobotOK(r, Due) /\ Reckons(robot, r)
      /\ r.node = robot.node /\ r.departed_at = robot.departed_at
      /\ r.arrival = robot.arrival /\ InTransit(r) = InTransit(robot)
  BY <1>2, UpdateKeeps
<1>4. truth \in Pose
  <2>1. /\ Travels(robot) /\ robot.node \in 0..Len(Itinerary)
        /\ InTransit(robot) => robot.departed_at <= Due
    BY <1>2, RobotLater DEF RobotOK
  <2>. QED
    BY <1>2, <2>1, TruthPoseType
<1>5. truth.at = Due
  BY DEF TruthPose
<1> HIDE DEF r, truth
<1>6. fix = {} \/ \E e \in Pose : fix = {e} /\ e.at = truth.at
  BY <1>1, <1>2, <1>4, MeasurementIs
<1>7. CASE fix = {}
  <2>1. NoFix(r)
    BY <1>1, <1>7 DEF ApplySample, NoFix
  <2>. QED
    BY <1>1, <1>3, <1>4, <2>1 DEF r, truth
<1>8. CASE fix # {}
  <2>1. PICK e \in Pose : fix = {e} /\ e.at = Due
    BY <1>5, <1>6, <1>8
  <2>2. {x.at : x \in fix} = {Due}
    BY <2>1
  <2>3. {[believed |-> x, true |-> truth] : x \in fix} = {[believed |-> e, true |-> truth]}
    BY <2>1
  <2>4. Fixed(r, e, truth)
    BY <1>1, <1>8, <2>1, <2>2, <2>3 DEF ApplySample, Fixed
  <2>. QED
    BY <1>1, <1>3, <1>4, <2>1, <2>4 DEF r, truth
<1>. QED
  BY <1>7, <1>8

\* A sample keeps the invariant.
LEMMA SampleKeeps ==
    ASSUME TypeInv, CourseInv, NEW fix, SampleGnss(fix)
    PROVE  TypeInv' /\ CourseInv' /\ Pushes("sample")
<1>1. PICK r : /\ RobotOK(r, Due) /\ Reckons(robot, r)
               /\ r.arrival = robot.arrival /\ InTransit(r) = InTransit(robot)
               /\ \/ NoFix(r)
                  \/ \E e, truth \in Pose : e.at = Due /\ Fixed(r, e, truth)
  BY SampleIs
<1> DEFINE rest == Tail(queue)
           next == Sample(Due + scenario.period)
           n == Len(samples)
<1>2. /\ Pop("sample") /\ queue' = Enqueue(rest, next)
      /\ rest_heading' = rest_heading /\ model' = model
  BY DEF SampleGnss, Due
<1>3. /\ now' = Due /\ until' = until /\ running' = running /\ injected' = injected
      /\ scenario' = scenario
      /\ QueueOK(rest, Due) /\ Once(rest, Kind("advance")) /\ Once(rest, Kind("sample"))
      /\ Range(rest) \cap Kind("sample") = {}
      /\ InTransit(robot) => Advance(robot.arrival) \in Range(rest)
      /\ Due = n * scenario.period
  BY <1>2, PoppedIs
<1>4. /\ Due \in Nat /\ n \in Nat /\ scenario.period \in Nat \ {0} /\ model \in Models
      /\ samples \in Seq(SampleRecord)
  BY QueueIs DEF TypeInv
<1>5. r \in RobotType /\ r.missed \in Nat
  BY <1>1, Fields DEF RobotOK, Travels
<1>6. /\ robot' \in RobotType /\ robot'.node = r.node
      /\ robot'.departed_at = r.departed_at /\ robot'.arrival = r.arrival
      /\ robot'.odometry_at = r.odometry_at
      /\ \A e \in robot'.estimate : e.at <= Due
      /\ atFix' \subseteq [believed : Pose, true : Pose]
  <2>1. CASE NoFix(r)
    <3>1. \A e \in r.estimate : e.at <= Due
      BY <1>1 DEF RobotOK
    <3> DEFINE m == r.missed + 1
    <3>2. m \in Nat /\ robot' = [r EXCEPT !.missed = m] /\ atFix' = atFix
      BY <1>5, <2>1 DEF NoFix
    <3> HIDE DEF m
    <3>3. /\ robot' \in RobotType /\ robot'.node = r.node
          /\ robot'.departed_at = r.departed_at /\ robot'.arrival = r.arrival
          /\ robot'.odometry_at = r.odometry_at /\ robot'.estimate = r.estimate
      BY <1>5, <3>2 DEF RobotType
    <3>. QED
      BY <3>1, <3>2, <3>3 DEF TypeInv
  <2>2. CASE \E e, truth \in Pose : e.at = Due /\ Fixed(r, e, truth)
    <3>1. PICK e \in Pose, truth \in Pose : e.at = Due /\ Fixed(r, e, truth)
      BY <2>2
    <3>2. {e} \in SUBSET Pose /\ {Due} \in SUBSET Nat /\ e.at <= Due
      BY <1>4, <3>1
    <3>3. [believed |-> e, true |-> truth] \in [believed : Pose, true : Pose]
      OBVIOUS
    <3>. QED
      BY <1>5, <3>1, <3>2, <3>3 DEF Fixed, RobotType
  <2>. QED
    BY <1>1, <2>1, <2>2
<1>7. InTransit(robot') = InTransit(r)
  BY <1>6 DEF InTransit
<1>8. RobotOK(robot', Due)
  BY <1>1, <1>6, <1>7 DEF RobotOK, Travels, Legs
<1>9. \E m : samples' = Append(samples, m) /\ m \in SampleRecord
  BY <1>1, <1>4, <1>5, ReportType DEF NoFix, Fixed
<1>10. samples' \in Seq(SampleRecord) /\ Len(samples') = n + 1
  BY <1>4, <1>9
<1>11. next \in Kind("sample") /\ next.at >= Due /\ next = Sample((n + 1) * scenario.period)
  <2>1. /\ Due + scenario.period \in Nat /\ Due + scenario.period >= Due
        /\ Due + scenario.period = (n + 1) * scenario.period
    BY <1>3, <1>4
  <2>2. \E m : m \in Models
    BY DEF Models
  <2>. QED
    BY <2>1, <2>2, EventsAre
<1> HIDE DEF rest, next, n
<1>12. /\ QueueOK(Enqueue(rest, next), Due)
       /\ Range(Enqueue(rest, next)) = Range(rest) \cup {next}
       /\ Once(Enqueue(rest, next), Kind("advance"))
       /\ Once(Enqueue(rest, next), Kind("sample"))
  BY <1>3, <1>4, <1>11, Scheduled
<1>13. ChainsOK(Enqueue(rest, next), robot', n + 1)
  BY <1>1, <1>3, <1>6, <1>7, <1>11, <1>12 DEF ChainsOK
<1>14. CourseInv'
  <2> DEFINE q == Enqueue(rest, next)
             p == robot'
  <2>1. /\ queue' = q /\ robot' = p /\ Len(samples') = n + 1
        /\ QueueOK(q, Due) /\ RobotOK(p, Due) /\ ChainsOK(q, p, n + 1)
    BY <1>2, <1>8, <1>10, <1>12, <1>13
  <2> HIDE DEF q, p
  <2>. QED
    BY <1>2, <2>1, NextCourse
<1>15. TypeInv'
  BY <1>2, <1>3, <1>4, <1>6, <1>10 DEF TypeInv
<1>16. Pushes("sample")
  BY <1>2, <1>11 DEF Pushes, rest, next
<1>. QED
  BY <1>14, <1>15, <1>16

\* What the caller does between events leaves the robot and its samples alone.
LEMMA CallerKeeps ==
    ASSUME TypeInv, CourseInv,
           \/ Return
           \/ \E horizon \in Horizons : RunUntil(horizon)
           \/ \E m \in Injections, at \in UNION {0..horizon : horizon \in Horizons} :
                Inject(m, at)
           \/ UNCHANGED vars
    PROVE  /\ TypeInv' /\ CourseInv'
           /\ UNCHANGED <<scenario, robot, rest_heading, model, atFix, samples>>
<1>1. /\ now \in Nat /\ until \in Nat /\ running \in BOOLEAN /\ injected \in Nat
      /\ QueueOK(queue, now) /\ RobotOK(robot, now)
      /\ ChainsOK(queue, robot, Len(samples))
      /\ running => now <= until
  BY DEF TypeInv, CourseInv
<1>2. CASE Return
  <2>1. /\ running /\ now' = until /\ running' = FALSE
        /\ \A i \in DOMAIN queue : queue[i].at > until
        /\ UNCHANGED <<queue, until, injected, scenario, robot, rest_heading, model,
                       atFix, samples>>
    BY <1>2 DEF Return
  <2>2. QueueOK(queue, until)
    <3>1. \A e \in Range(queue) : e \in Event /\ e.at > until
      BY <1>1, <2>1 DEF QueueOK, Range
    <3>2. \A e \in Range(queue) : e.at >= until
      BY <1>1, <3>1, EventTicks
    <3>. QED
      BY <1>1, <3>2 DEF QueueOK
  <2>3. RobotOK(robot, until)
    BY <1>1, <2>1, RobotLater
  <2>4. QueueOK(queue, now)' /\ RobotOK(robot, now)' /\ ChainsOK(queue, robot, Len(samples))'
    BY <1>1, <2>1, <2>2, <2>3 DEF QueueOK, RobotOK, Travels, InTransit, ChainsOK
  <2>5. CourseInv'
    BY <2>1, <2>4 DEF CourseInv
  <2>. QED
    BY <1>1, <2>1, <2>5 DEF TypeInv
<1>3. CASE \E horizon \in Horizons : RunUntil(horizon)
  <2>1. PICK horizon \in Horizons : RunUntil(horizon)
    BY <1>3
  <2>2. /\ horizon \in Nat /\ horizon >= now /\ until' = horizon /\ running' = TRUE
        /\ UNCHANGED <<now, queue, injected, scenario, robot, rest_heading, model,
                       atFix, samples>>
    BY <2>1, BoundsAssumption DEF RunUntil
  <2>3. QueueOK(queue, now)' /\ RobotOK(robot, now)' /\ ChainsOK(queue, robot, Len(samples))'
    BY <1>1, <2>2 DEF QueueOK, RobotOK, Travels, InTransit, ChainsOK
  <2>4. (running => now <= until)'
    BY <1>1, <2>2
  <2>. QED
    BY <1>1, <2>2, <2>3, <2>4 DEF CourseInv, TypeInv
<1>4. CASE \E m \in Injections, at \in UNION {0..horizon : horizon \in Horizons} :
             Inject(m, at)
  <2>1. PICK m \in Injections, at \in UNION {0..horizon : horizon \in Horizons} :
          Inject(m, at)
    BY <1>4
  <2> DEFINE e == Switch(m, at)
             q == Enqueue(queue, e)
  <2>2. m \in Models /\ at \in Nat
    BY BoundsAssumption
  <2>3. /\ ~running /\ at >= now /\ queue' = q /\ injected' = injected + 1
        /\ UNCHANGED <<now, until, running, scenario, robot, rest_heading, model,
                       atFix, samples>>
    BY <2>1 DEF Inject
  <2>4. e \in Kind("switch") /\ e.at = at
    BY <2>2, EventsAre
  <2> HIDE DEF e
  <2>5. e \in Event /\ e \notin Kind("advance") /\ e \notin Kind("sample")
    BY <2>4, KindsAre
  <2>6. /\ QueueOK(q, now) /\ Range(q) = Range(queue) \cup {e}
        /\ \A A : Once(queue, A) /\ (e \in A => Range(queue) \cap A = {}) => Once(q, A)
    BY <1>1, <2>3, <2>4, <2>5, ScheduleKeeps
  <2> HIDE DEF q
  <2>7. ChainsOK(q, robot, Len(samples))
    BY <1>1, <2>5, <2>6 DEF ChainsOK
  <2>8. QueueOK(queue, now)' /\ RobotOK(robot, now)' /\ ChainsOK(queue, robot, Len(samples))'
    BY <1>1, <2>3, <2>6, <2>7 DEF QueueOK, RobotOK, Travels, InTransit, ChainsOK
  <2>9. CourseInv'
    BY <2>3, <2>8 DEF CourseInv
  <2>. QED
    BY <1>1, <2>3, <2>9 DEF TypeInv
<1>5. CASE UNCHANGED vars
  <2>1. UNCHANGED <<now, queue, until, running, injected, scenario, robot, rest_heading,
                    model, atFix, samples>>
    BY <1>5 DEF vars
  <2>2. QueueOK(queue, now)' /\ RobotOK(robot, now)' /\ ChainsOK(queue, robot, Len(samples))'
    BY <1>1, <2>1 DEF QueueOK, RobotOK, Travels, InTransit, ChainsOK
  <2>. QED
    BY <1>1, <2>1, <2>2 DEF CourseInv, TypeInv
<1>. QED
  BY <1>2, <1>3, <1>4, <1>5

\* One sequence after another.
LEMMA Concatenated ==
    ASSUME NEW S, NEW a \in Seq(S), NEW b \in Seq(S)
    PROVE  /\ a \o b \in Seq(S) /\ Len(a \o b) = Len(a) + Len(b)
           /\ \A i \in 1..Len(a) : (a \o b)[i] = a[i]
           /\ \A i \in 1..Len(b) : (a \o b)[Len(a) + i] = b[i]
OBVIOUS

\* What begin() schedules, in this order.
Script(s) ==
    <<Advance(0)>> \o [i \in DOMAIN s |-> Switch(s[i][2], s[i][1])] \o <<Sample(0)>>

\* First movement, then the switches of the script, at last sampling.
LEMMA ScriptIs ==
    ASSUME NEW s \in Seq(Nat \X Models)
    PROVE  /\ Script(s) \in Seq(Event) /\ Len(s) \in Nat /\ Len(Script(s)) = Len(s) + 2
           /\ Script(s)[1] = Advance(0) /\ Script(s)[Len(s) + 2] = Sample(0)
           /\ Script(s)[1] \in Kind("advance") /\ Script(s)[Len(s) + 2] \in Kind("sample")
           /\ \A i \in 2..(Len(s) + 1) :
                /\ Script(s)[i] = Switch(s[i - 1][2], s[i - 1][1])
                /\ Script(s)[i] \in Kind("switch")
<1> DEFINE script == [i \in DOMAIN s |-> Switch(s[i][2], s[i][1])]
           first == <<Advance(0)>>
           last == <<Sample(0)>>
           es == first \o script \o last
           n == Len(s)
<1>3. /\ Advance(0) \in Kind("advance") /\ Sample(0) \in Kind("sample")
      /\ Advance(0) \in Event /\ Sample(0) \in Event
  <2>1. 0 \in Nat /\ \E m : m \in Models
    BY DEF Models
  <2>. QED
    BY <2>1, EventsAre, KindsAre
<1>4. n \in Nat /\ script \in Seq(Event) /\ Len(script) = n
      /\ \A i \in 1..n : script[i] \in Kind("switch")
  <2>1. n \in Nat /\ DOMAIN s = 1..n /\ \A i \in 1..n : s[i] \in Nat \X Models
    OBVIOUS
  <2>2. \A i \in 1..n : Switch(s[i][2], s[i][1]) \in Kind("switch")
    <3> TAKE i \in 1..n
    <3>1. s[i][2] \in Models /\ s[i][1] \in Nat
      BY <2>1
    <3>. QED
      BY <3>1, EventsAre
  <2>3. /\ script \in [1..n -> Event]
        /\ \A i \in 1..n : script[i] \in Kind("switch")
    BY <2>1, <2>2, KindsAre
  <2> HIDE DEF script, n
  <2>. QED
    BY <2>1, <2>3, FunctionIsSequence
<1> HIDE DEF script, n
<1>5. /\ first \in Seq(Event) /\ Len(first) = 1 /\ first[1] = Advance(0)
      /\ last \in Seq(Event) /\ Len(last) = 1 /\ last[1] = Sample(0)
  BY <1>3, OneElement
<1> HIDE DEF first, last
<1>6. /\ es \in Seq(Event) /\ Len(es) = n + 2
      /\ es[1] = Advance(0) /\ es[n + 2] = Sample(0)
      /\ \A i \in 2..(n + 1) : es[i] = script[i - 1]
  <2> DEFINE both == first \o script
  <2>1. /\ both \in Seq(Event) /\ Len(both) = 1 + n
        /\ \A i \in 1..1 : both[i] = first[i]
        /\ \A i \in 1..n : both[1 + i] = script[i]
    <3>1. /\ both \in Seq(Event) /\ Len(both) = Len(first) + Len(script)
          /\ \A i \in 1..Len(first) : both[i] = first[i]
          /\ \A i \in 1..Len(script) : both[Len(first) + i] = script[i]
      <4>1. first \in Seq(Event) /\ script \in Seq(Event)
        BY <1>4, <1>5
      <4>. QED
        BY <4>1, Concatenated
    <3> HIDE DEF both
    <3>. QED
      BY <1>4, <1>5, <3>1
  <2> HIDE DEF both
  <2>2. /\ both \o last \in Seq(Event) /\ Len(both \o last) = (1 + n) + 1
        /\ \A i \in 1..(1 + n) : (both \o last)[i] = both[i]
        /\ \A i \in 1..1 : (both \o last)[(1 + n) + i] = last[i]
    <3>1. both \in Seq(Event) /\ last \in Seq(Event)
      BY <1>5, <2>1
    <3>2. /\ both \o last \in Seq(Event) /\ Len(both \o last) = Len(both) + Len(last)
          /\ \A i \in 1..Len(both) : (both \o last)[i] = both[i]
          /\ \A i \in 1..Len(last) : (both \o last)[Len(both) + i] = last[i]
      BY <3>1, Concatenated
    <3>. QED
      BY <1>5, <2>1, <3>2
  <2>3. /\ (1 + n) + 1 = n + 2 /\ 1 \in 1..1 /\ 1 \in 1..(1 + n)
        /\ \A i \in 2..(n + 1) : i \in 1..(1 + n) /\ i - 1 \in 1..n /\ 1 + (i - 1) = i
    BY <1>4
  <2>4. es = both \o last
    BY DEF both
  <2> HIDE DEF es
  <2>5. es \in Seq(Event) /\ Len(es) = n + 2
    BY <2>2, <2>3, <2>4
  <2>6. es[1] = first[1] /\ es[n + 2] = last[1]
    BY <2>1, <2>2, <2>3, <2>4
  <2>7. ASSUME NEW i \in 2..(n + 1) PROVE es[i] = script[i - 1]
    <3>1. both[1 + (i - 1)] = script[i - 1]
      BY <2>1, <2>3
    <3>2. both[i] = script[i - 1] /\ es[i] = both[i]
      BY <2>2, <2>3, <2>4, <3>1
    <3>. QED
      BY <3>2
  <2>. QED
    BY <1>5, <2>5, <2>6, <2>7
<1> HIDE DEF es
<1>7. \A i \in 2..(n + 1) : es[i] \in Kind("switch")
  <2> TAKE i \in 2..(n + 1)
  <2>1. i - 1 \in 1..n
    BY <1>4
  <2>. QED
    BY <1>4, <1>6, <2>1
<1>8. ASSUME NEW i \in 2..(n + 1)
      PROVE  es[i] = Switch(s[i - 1][2], s[i - 1][1])
  <2>1. i - 1 \in 1..n /\ DOMAIN s = 1..n
    BY <1>4 DEF n
  <2>2. script[i - 1] = Switch(s[i - 1][2], s[i - 1][1])
    BY <2>1 DEF script
  <2>. QED
    BY <1>6, <2>2
<1>9. Script(s) = es
  BY DEF Script, es, first, script, last
<1>. QED
  BY <1>3, <1>4, <1>6, <1>7, <1>8, <1>9 DEF n

\* What begin() leaves.
LEMMA InitKeeps == Init => TypeInv /\ CourseInv
<1> SUFFICES ASSUME Init PROVE TypeInv /\ CourseInv
  OBVIOUS
<1> DEFINE s == scenario.switches
           es == Script(s)
           n == Len(s)
<1>1. /\ scenario \in Scenarios /\ s \in Seq(Nat \X Models)
      /\ scenario.initial_model \in Models
  BY ScenarioAssumption DEF Init
<1>2. queue = EnqueueAll(<<>>, es)
  BY DEF Init, Agendas, Script
<1>3. /\ es \in Seq(Event) /\ n \in Nat /\ Len(es) = n + 2
      /\ es[n + 2] = Sample(0)
      /\ es[1] \in Kind("advance") /\ es[n + 2] \in Kind("sample")
      /\ \A i \in 2..(n + 1) : es[i] \in Kind("switch")
  BY <1>1, ScriptIs
<1> HIDE DEF es, n
<1>8. \A k \in Chains : \A i, j \in 1..Len(es) :
        es[i] \in Kind(k) /\ es[j] \in Kind(k) => i = j
  <2>1. /\ "switch" # "advance" /\ "switch" # "sample" /\ "advance" # "sample"
        /\ \A i \in 1..Len(es) : i = 1 \/ i = n + 2 \/ i \in 2..(n + 1)
    BY <1>3
  <2>2. \A i \in 1..Len(es) : es[i] \in Kind("advance") => i = 1
    BY <1>3, <2>1, KindsAre
  <2>3. \A i \in 1..Len(es) : es[i] \in Kind("sample") => i = n + 2
    BY <1>3, <2>1, KindsAre
  <2>. QED
    BY <2>2, <2>3 DEF Chains
<1>9. /\ QueueOK(queue, 0)
      /\ \A e : e \in Range(queue) <=> AmongFirst(es, Len(es), e)
      /\ Once(queue, Kind("advance")) /\ Once(queue, Kind("sample"))
  <2>1. "advance" \in Chains /\ "sample" \in Chains
    BY DEF Chains
  <2> DEFINE q == EnqueueAll(<<>>, es)
  <2>2. /\ QueueOK(q, 0)
        /\ \A e : e \in Range(q) <=> AmongFirst(es, Len(es), e)
        /\ \A k \in Chains : Once(q, Kind(k))
    BY <1>3, <1>8, FirstAgenda
  <2>3. queue = q
    BY <1>2
  <2> HIDE DEF q
  <2>. QED
    BY <2>1, <2>2, <2>3
<1>10. Sample(0) \in Range(queue)
  <2>1. n + 2 \in 1..Len(es)
    BY <1>3
  <2>. QED
    BY <1>3, <1>9, <2>1 DEF AmongFirst
<1>11. robot \in RobotType /\ ~InTransit(robot) /\ robot.node = 0 /\ robot.odometry_at = 0
       /\ robot.estimate = {}
  BY DEF Init, Fresh, RobotType, InTransit, Heading
<1>12. RobotOK(robot, 0)
  <2>1. Len(Itinerary) \in Nat
    BY TravelAssumption
  <2>2. robot.node \in 0..Len(Itinerary)
    BY <1>11, <2>1
  <2>. QED
    BY <1>11, <2>2 DEF RobotOK, Travels
<1>13. /\ now = 0 /\ until = 0 /\ running = FALSE /\ injected = 0 /\ rest_heading = 0
       /\ model = scenario.initial_model /\ atFix = {} /\ samples = <<>>
  BY DEF Init
<1>14. Len(samples) * scenario.period = 0
  <2>1. scenario.period \in Nat
    BY <1>1, ScenarioAssumption
  <2>. QED
    BY <1>13, <2>1
<1>15. CourseInv
  BY <1>9, <1>10, <1>11, <1>12, <1>13, <1>14 DEF CourseInv, ChainsOK
<1>16. TypeInv
  <2>1. /\ rest_heading \in Heading /\ model \in Models
        /\ now \in Nat /\ until \in Nat /\ running \in BOOLEAN /\ injected \in Nat
    <3>1. model \in Models
      BY <1>1, <1>13
    <3>2. rest_heading \in Heading
      BY <1>13 DEF Heading
    <3>3. now \in Nat /\ until \in Nat /\ injected \in Nat
      BY <1>13
    <3>4. running \in BOOLEAN
      BY <1>13
    <3>. QED
      BY <3>1, <3>2, <3>3, <3>4
  <2>2. samples \in Seq(SampleRecord) /\ atFix \subseteq [believed : Pose, true : Pose]
    BY <1>13
  <2>. QED
    BY <1>1, <2>1, <2>2 DEF TypeInv
<1>. QED
  BY <1>15, <1>16

-----------------------------------------------------------------------------
(* The theorems.                                                           *)

\* A step that samples, and one that does not, as far as belief goes.
Samples ==
    \E r : /\ r \in RobotType /\ Reckons(robot, r)
           /\ Due = Len(samples) * scenario.period /\ Due \in Nat
           /\ \/ NoFix(r)
              \/ \E e, truth \in Pose : e.at = Due /\ Fixed(r, e, truth)

Reckoned ==
    Reckons(robot, robot') /\ atFix' = atFix /\ samples' = samples

\* Every step keeps the invariant, and is one of the two.
LEMMA StepIs ==
    ASSUME TypeInv, CourseInv, [Next]_vars
    PROVE  /\ TypeInv' /\ CourseInv' /\ scenario' = scenario
           /\ Samples \/ Reckoned
<1>1. CASE SetGnssModel
  <2>1. TypeInv' /\ CourseInv' /\ robot' = robot
    BY <1>1, SwitchKeeps
  <2>2. atFix' = atFix /\ samples' = samples /\ scenario' = scenario
    BY <1>1 DEF SetGnssModel, Pop
  <2>. QED
    BY <2>1, <2>2 DEF Reckoned, Reckons
<1>2. CASE Depart
  <2>1. TypeInv' /\ CourseInv' /\ Reckons(robot, robot')
    BY <1>2, DepartKeeps
  <2>2. atFix' = atFix /\ samples' = samples /\ scenario' = scenario
    BY <1>2 DEF Depart, Pop
  <2>. QED
    BY <2>1, <2>2 DEF Reckoned
<1>3. CASE Park \/ EndChain
  <2>1. TypeInv' /\ CourseInv' /\ Reckons(robot, robot')
    BY <1>3, StayKeeps
  <2>2. atFix' = atFix /\ samples' = samples /\ scenario' = scenario
    BY <1>3 DEF Park, EndChain, Pop
  <2>. QED
    BY <2>1, <2>2 DEF Reckoned
<1>4. CASE \E fix \in Measurements(model, TruthPose(robot, rest_heading, Head(queue).at)) :
             SampleGnss(fix)
  <2>1. PICK fix : SampleGnss(fix)
    BY <1>4
  <2>2. TypeInv' /\ CourseInv'
    BY <2>1, SampleKeeps
  <2>3. Pop("sample")
    BY <2>1 DEF SampleGnss
  <2>4. scenario' = scenario /\ Due = Len(samples) * scenario.period /\ Due \in Nat
    BY <2>3, PoppedIs, QueueIs
  <2>5. PICK r : /\ RobotOK(r, Due) /\ Reckons(robot, r)
                 /\ \/ NoFix(r)
                    \/ \E e, truth \in Pose : e.at = Due /\ Fixed(r, e, truth)
    BY <2>1, SampleIs
  <2>6. r \in RobotType
    BY <2>5 DEF RobotOK, Travels
  <2>7. Samples
    BY <2>4, <2>5, <2>6 DEF Samples
  <2>. QED
    BY <2>2, <2>4, <2>7
<1>5. CASE \/ Return
           \/ \E horizon \in Horizons : RunUntil(horizon)
           \/ \E m \in Injections, at \in UNION {0..horizon : horizon \in Horizons} :
                Inject(m, at)
           \/ UNCHANGED vars
  <2>1. /\ TypeInv' /\ CourseInv'
        /\ UNCHANGED <<scenario, robot, rest_heading, model, atFix, samples>>
    BY <1>5, CallerKeeps
  <2>. QED
    BY <2>1 DEF Reckoned, Reckons
<1>. QED
  BY <1>1, <1>2, <1>3, <1>4, <1>5 DEF Next, HandleEvent

(* In every run, the state is typed; the queue is in order and nothing of  *)
(* it is in the past; the robot is at a node of its itinerary or on the    *)
(* traversal that begins there, and an arrival and the next sample -- one  *)
(* period after the other -- are scheduled (scenario_runner.cpp:411-465,   *)
(* 520-615).                                                               *)
THEOREM CourseHolds == Spec => [](TypeInv /\ CourseInv)
<1>1. Init => TypeInv /\ CourseInv
  BY InitKeeps
<1>2. TypeInv /\ CourseInv /\ [Next]_vars => TypeInv' /\ CourseInv'
  BY StepIs
<1>. QED
  BY <1>1, <1>2, PTL DEF Spec

(* No handler about to run refuses its tick: dead reckoning never goes     *)
(* backward nor past an arrival (odometry.cpp:69-83), and no estimate is   *)
(* of a later tick (estimate_tracker.cpp:55-91).                           *)
THEOREM NothingThrows == Spec => []NoHandlerThrows
<1>1. TypeInv /\ CourseInv => NoHandlerThrows
  <2> SUFFICES ASSUME TypeInv, CourseInv PROVE NoHandlerThrows
    OBVIOUS
  <2>1. /\ Due \in Nat /\ now \in Nat /\ now <= Due /\ RobotOK(robot, now)
        /\ InTransit(robot) => Due <= robot.arrival
    BY QueueIs DEF TypeInv, CourseInv
  <2>2. RobotOK(robot, Due)
    BY <2>1, RobotLater
  <2>. QED
    BY <2>1, <2>2 DEF RobotOK, NoHandlerThrows, Due
<1>. QED
  BY <1>1, CourseHolds, PTL

(* A belief that is not labelled dead reckoned is the last fix: an outage  *)
(* neither erases nor alters it, and without dead reckoning nothing does   *)
(* (estimate_tracker.cpp:101-139).                                         *)
THEOREM BeliefIsTheFix == Spec => []UndriftedBeliefIsTheFix
<1>1. Init => UndriftedBeliefIsTheFix
  <2> SUFFICES ASSUME Init PROVE UndriftedBeliefIsTheFix
    OBVIOUS
  <2>1. robot.estimate = {} /\ robot.dead_reckoned = FALSE /\ atFix = {}
    BY DEF Init, Fresh
  <2>. QED
    BY <2>1 DEF UndriftedBeliefIsTheFix
<1>2. TypeInv /\ CourseInv /\ UndriftedBeliefIsTheFix /\ [Next]_vars
        => UndriftedBeliefIsTheFix'
  <2> SUFFICES ASSUME TypeInv, CourseInv, UndriftedBeliefIsTheFix, [Next]_vars
               PROVE  UndriftedBeliefIsTheFix'
    OBVIOUS
  <2> DEFINE believed == {f.believed : f \in atFix}
  <2>1. /\ ~robot.dead_reckoned => robot.estimate = believed
        /\ ~scenario.dead_reckoning => ~robot.dead_reckoned
    BY DEF UndriftedBeliefIsTheFix
  <2>2. scenario' = scenario /\ (Samples \/ Reckoned)
    BY StepIs
  <2>3. CASE Reckoned
    <3>1. Reckons(robot, robot') /\ believed' = believed
      BY <2>3 DEF Reckoned
    <3> HIDE DEF believed
    <3>2. /\ ~robot'.dead_reckoned => robot'.estimate = believed'
          /\ ~scenario'.dead_reckoning => ~robot'.dead_reckoned
      BY <2>1, <2>2, <3>1 DEF Reckons
    <3>. QED
      BY <3>2 DEF UndriftedBeliefIsTheFix, believed
  <2>4. CASE Samples
    <3>1. PICK r : /\ r \in RobotType /\ Reckons(robot, r)
                   /\ \/ NoFix(r)
                      \/ \E e, truth \in Pose : e.at = Due /\ Fixed(r, e, truth)
      BY <2>4 DEF Samples
    <3>2. CASE NoFix(r)
      <4>1. believed' = believed
        BY <3>2 DEF NoFix
      <4>2. robot'.estimate = r.estimate /\ robot'.dead_reckoned = r.dead_reckoned
        BY <3>1, <3>2 DEF NoFix, RobotType
      <4> HIDE DEF believed
      <4>3. /\ ~robot'.dead_reckoned => robot'.estimate = believed'
            /\ ~scenario'.dead_reckoning => ~robot'.dead_reckoned
        BY <2>1, <2>2, <3>1, <4>1, <4>2 DEF Reckons
      <4>. QED
        BY <4>3 DEF UndriftedBeliefIsTheFix, believed
    <3>3. CASE \E e, truth \in Pose : e.at = Due /\ Fixed(r, e, truth)
      <4>1. PICK e \in Pose, truth \in Pose : Fixed(r, e, truth)
        BY <3>3
      <4>2. robot'.estimate = {e} /\ robot'.dead_reckoned = FALSE
        BY <3>1, <4>1 DEF Fixed, RobotType
      <4>3. believed' = {e}
        BY <4>1 DEF Fixed
      <4>. QED
        BY <4>2, <4>3 DEF UndriftedBeliefIsTheFix
    <3>. QED
      BY <3>1, <3>2, <3>3
  <2>. QED
    BY <2>2, <2>3, <2>4
<1>. QED
  BY <1>1, <1>2, CourseHolds, PTL DEF Spec

\* The samples before the i-th that got a fix.
FixesBefore(s, i) == {j \in 1..(i - 1) : s[j].fix}

\* The i-th sample reports what ReacquisitionEndsAnOutage says.
Reported(s, i, period) ==
    /\ s[i].reacquired <=>
         s[i].fix /\ FixesBefore(s, i) # {} /\ ~s[i - 1].fix
    /\ s[i].reacquired =>
         s[i].since_last_fix = {(i - Max(FixesBefore(s, i))) * period}

(* What the robot r knows of its outage: it never had a fix; or it had the *)
(* last at the k-th sample, and missed all since.                          *)
Outage(r, s, k, period) ==
    /\ s[k].fix /\ \A j \in (k + 1)..Len(s) : ~s[j].fix
    /\ r.estimate # {} /\ r.last_fix_at = {(k - 1) * period} /\ r.missed = Len(s) - k

OutageKnown(r, s, period) ==
    \/ /\ \A j \in 1..Len(s) : ~s[j].fix
       /\ r.estimate = {} /\ r.last_fix_at = {}
    \/ \E k \in 1..Len(s) : Outage(r, s, k, period)

\* A greatest element is the greatest.
LEMMA MaxIs ==
    ASSUME NEW S \in SUBSET Int, NEW k \in S, \A j \in S : j <= k
    PROVE  Max(S) = k
<1>1. Max(S) = CHOOSE x \in S : \A y \in S : x >= y
  BY DEF Max
<1>2. \A y \in S : k >= y
  OBVIOUS
<1>3. \A x \in S : (\A y \in S : x >= y) => x = k
  OBVIOUS
<1>. QED
  BY <1>1, <1>2, <1>3

\* What an earlier sample reported is not touched by a later one.
LEMMA ReportedBefore ==
    ASSUME NEW s \in Seq(SampleRecord), NEW m \in SampleRecord, NEW i \in 1..Len(s),
           NEW period, Reported(s, i, period)
    PROVE  Reported(Append(s, m), i, period)
<1> DEFINE t == Append(s, m)
<1>1. \A j \in 1..Len(s) : t[j] = s[j]
  OBVIOUS
<1> HIDE DEF t
<1>2. \A j \in 1..(i - 1) : j \in 1..Len(s)
  OBVIOUS
<1>3. FixesBefore(t, i) = FixesBefore(s, i)
  BY <1>1, <1>2 DEF FixesBefore
<1>4. t[i] = s[i]
  BY <1>1
<1>5. CASE i = 1
  <2>1. FixesBefore(s, i) = {}
    BY <1>5 DEF FixesBefore
  <2>. QED
    BY <1>3, <1>4, <2>1 DEF Reported, t
<1>6. CASE i # 1
  <2>1. i - 1 \in 1..(i - 1)
    BY <1>6
  <2>2. t[i - 1] = s[i - 1]
    BY <1>1, <1>2, <2>1
  <2>. QED
    BY <1>3, <1>4, <2>2 DEF Reported, t
<1>. QED
  BY <1>5, <1>6

\* What the next sample reports is what the robot knows of its outage.
LEMMA ReportedNext ==
    ASSUME NEW s \in Seq(SampleRecord), NEW period \in Nat, NEW r, r.missed \in Nat,
           OutageKnown(r, s, period), NEW fix, model \in Models,
           NEW m, m = Report(Len(s) * period, r, fix), m \in SampleRecord
    PROVE  Reported(Append(s, m), Len(s) + 1, period)
<1> DEFINE n == Len(s)
           t == Append(s, m)
           B == FixesBefore(t, n + 1)
<1>1. n \in Nat /\ t[n + 1] = m /\ \A j \in 1..n : t[j] = s[j]
  OBVIOUS
<1> HIDE DEF t
<1>2. /\ m.fix <=> fix # {}
      /\ m.reacquired <=> fix # {} /\ r.missed > 0 /\ r.estimate # {}
      /\ fix # {} => m.since_last_fix = {n * period - l : l \in r.last_fix_at}
  BY DEF Report
<1>3. \A j : j \in B <=> j \in 1..n /\ s[j].fix
  <2>1. (n + 1) - 1 = n
    BY <1>1
  <2>. QED
    BY <1>1, <2>1 DEF FixesBefore
<1> HIDE DEF B, n
<1>4. CASE (\A j \in 1..n : ~s[j].fix) /\ r.estimate = {}
  <2>1. B = {}
    BY <1>3, <1>4
  <2>2. ~m.reacquired
    BY <1>2, <1>4
  <2>. QED
    BY <1>1, <2>1, <2>2 DEF Reported, t, n, B
<1>5. CASE \E k \in 1..n : Outage(r, s, k, period)
  <2>1. PICK k \in 1..n : Outage(r, s, k, period)
    BY <1>5
  <2>2. /\ s[k].fix /\ \A j \in (k + 1)..n : ~s[j].fix
        /\ r.estimate # {} /\ r.last_fix_at = {(k - 1) * period} /\ r.missed = n - k
    BY <2>1 DEF Outage, n
  <2>3. k \in B /\ B \in SUBSET Int /\ \A j \in B : j <= k
    <3>1. k \in B /\ B \subseteq 1..n
      BY <1>3, <2>2
    <3>2. ASSUME NEW j \in B PROVE j <= k
      <4>1. j \in 1..n /\ s[j].fix
        BY <1>3
      <4>2. j \notin (k + 1)..n
        BY <2>2, <4>1
      <4>. QED
        BY <1>1, <4>1, <4>2
    <3>. QED
      BY <1>1, <3>1, <3>2
  <2>4. Max(B) = k
    BY <2>3, MaxIs
  <2>5. r.missed > 0 <=> ~s[n].fix
    <3>1. CASE k = n
      BY <1>1, <2>2, <3>1
    <3>2. CASE k # n
      <4>1. n \in (k + 1)..n /\ n - k > 0
        BY <1>1, <3>2
      <4>. QED
        BY <2>2, <4>1
    <3>. QED
      BY <3>1, <3>2
  <2>6. m.reacquired <=> m.fix /\ B # {} /\ ~s[n].fix
    BY <1>2, <2>2, <2>3, <2>5
  <2>7. ASSUME fix # {} PROVE m.since_last_fix = {((n + 1) - k) * period}
    <3>1. m.since_last_fix = {n * period - (k - 1) * period}
      BY <1>2, <2>2, <2>7
    <3>2. n * period - (k - 1) * period = ((n + 1) - k) * period
      <4>1. n \in Int /\ k \in Int /\ period \in Int
        BY <1>1
      <4>. QED
        BY <4>1
    <3>. QED
      BY <3>1, <3>2
  <2>8. /\ t[n + 1] = m /\ t[(n + 1) - 1] = s[n]
        /\ m.reacquired => m.since_last_fix = {((n + 1) - Max(B)) * period}
    <3>1. n \in 1..n /\ (n + 1) - 1 = n
      BY <1>1
    <3>. QED
      BY <1>1, <1>2, <2>4, <2>7, <3>1
  <2>. QED
    BY <2>6, <2>8 DEF Reported, t, n, B
<1>. QED
  BY <1>4, <1>5 DEF OutageKnown, n

OutageInv ==
    /\ OutageKnown(robot, samples, scenario.period)
    /\ \A i \in 1..Len(samples) : Reported(samples, i, scenario.period)

\* What the robot knows of its outage when one more sample is missed.
LEMMA OneMoreMissed ==
    ASSUME NEW s \in Seq(SampleRecord), NEW period \in Nat, NEW r, NEW p,
           OutageKnown(r, s, period), NEW m \in SampleRecord, ~m.fix, r.missed \in Nat,
           p.estimate = r.estimate, p.last_fix_at = r.last_fix_at,
           p.missed = r.missed + 1
    PROVE  OutageKnown(p, Append(s, m), period)
<1> DEFINE n == Len(s)
           t == Append(s, m)
<1>1. n \in Nat /\ Len(t) = n + 1 /\ t[n + 1] = m /\ \A j \in 1..n : t[j] = s[j]
  OBVIOUS
<1> HIDE DEF t, n
<1>2. \A j \in 1..(n + 1) : j \in 1..n \/ j = n + 1
  BY <1>1
<1>3. CASE (\A j \in 1..n : ~s[j].fix) /\ r.estimate = {} /\ r.last_fix_at = {}
  <2>1. \A j \in 1..(n + 1) : ~t[j].fix
    BY <1>1, <1>2, <1>3
  <2>. QED
    BY <1>1, <1>3, <2>1 DEF OutageKnown, t
<1>4. CASE \E k \in 1..n : Outage(r, s, k, period)
  <2>1. PICK k \in 1..n : Outage(r, s, k, period)
    BY <1>4
  <2>2. /\ s[k].fix /\ \A j \in (k + 1)..n : ~s[j].fix
        /\ r.estimate # {} /\ r.last_fix_at = {(k - 1) * period} /\ r.missed = n - k
    BY <2>1 DEF Outage, n
  <2>3. \A j \in (k + 1)..(n + 1) : ~t[j].fix
    <3> TAKE j \in (k + 1)..(n + 1)
    <3>1. j \in (k + 1)..n \/ j = n + 1
      BY <1>1
    <3>2. j \in (k + 1)..n => j \in 1..n
      BY <1>1
    <3>. QED
      BY <1>1, <2>2, <3>1, <3>2
  <2>4. t[k].fix /\ k \in 1..(n + 1) /\ p.missed = (n + 1) - k
    BY <1>1, <2>2
  <2>5. Outage(p, t, k, period)
    BY <1>1, <2>2, <2>3, <2>4 DEF Outage
  <2>. QED
    BY <1>1, <2>4, <2>5 DEF OutageKnown, t
<1>. QED
  BY <1>3, <1>4 DEF OutageKnown, n

(* A reacquisition is reported exactly for the fix that ends an outage,    *)
(* and the gap it reports is the samples missed, in whole periods, however *)
(* arrivals, switches and injections fell between the samples              *)
(* (estimate_tracker.cpp:101-139, scenario_runner.cpp:540-592).            *)
THEOREM OutagesAreReported == Spec => []ReacquisitionEndsAnOutage
<1>1. Init => OutageInv
  <2> SUFFICES ASSUME Init PROVE OutageInv
    OBVIOUS
  <2>1. robot.estimate = {} /\ robot.last_fix_at = {} /\ samples = <<>>
    BY DEF Init, Fresh
  <2>2. 1..Len(samples) = {}
    BY <2>1
  <2>. QED
    BY <2>1, <2>2 DEF OutageInv, OutageKnown
<1>2. TypeInv /\ CourseInv /\ OutageInv /\ [Next]_vars => OutageInv'
  <2> SUFFICES ASSUME TypeInv, CourseInv, OutageInv, [Next]_vars PROVE OutageInv'
    OBVIOUS
  <2> DEFINE n == Len(samples)
             period == scenario.period
  <2>1. /\ scenario' = scenario /\ (Samples \/ Reckoned)
        /\ samples \in Seq(SampleRecord) /\ n \in Nat /\ period \in Nat
        /\ model \in Models /\ robot.missed \in Nat
        /\ OutageKnown(robot, samples, period)
        /\ \A i \in 1..n : Reported(samples, i, period)
    BY StepIs, QueueIs, Fields DEF TypeInv, CourseInv, RobotOK, Travels, OutageInv
  <2>2. CASE Reckoned
    <3>1. /\ samples' = samples /\ robot'.last_fix_at = robot.last_fix_at
          /\ robot'.missed = robot.missed /\ (robot'.estimate = {} <=> robot.estimate = {})
      BY <2>2 DEF Reckoned, Reckons
    <3>2. OutageKnown(robot, samples, scenario.period)'
      BY <2>1, <3>1 DEF OutageKnown, Outage
    <3>3. \A i \in 1..Len(samples') : Reported(samples', i, scenario'.period)
      BY <2>1, <3>1
    <3>. QED
      BY <3>2, <3>3 DEF OutageInv, Reported, FixesBefore
  <2>3. CASE Samples
    <3>1. PICK r : /\ r \in RobotType /\ Reckons(robot, r)
                   /\ Due = n * period /\ Due \in Nat
                   /\ \/ NoFix(r)
                      \/ \E e, truth \in Pose : e.at = Due /\ Fixed(r, e, truth)
      BY <2>3 DEF Samples
    <3>2. r.missed \in Nat /\ OutageKnown(r, samples, period)
      BY <2>1, <3>1 DEF Reckons, OutageKnown, Outage
    <3>3. PICK fix : /\ samples' = Append(samples, Report(Due, r, fix))
                     /\ fix = {} => NoFix(r)
                     /\ fix # {} => \E e, truth \in Pose : Fixed(r, e, truth)
      <4>1. CASE NoFix(r)
        BY <4>1 DEF NoFix
      <4>2. CASE \E e, truth \in Pose : e.at = Due /\ Fixed(r, e, truth)
        <5>1. PICK e \in Pose, truth \in Pose : Fixed(r, e, truth)
          BY <4>2
        <5>2. samples' = Append(samples, Report(Due, r, {e})) /\ {e} # {}
          BY <5>1 DEF Fixed
        <5>. QED
          BY <5>1, <5>2
      <4>. QED
        BY <3>1, <4>1, <4>2
    <3> DEFINE m == Report(Due, r, fix)
    <3>4. m \in SampleRecord /\ m = Report(n * period, r, fix) /\ (m.fix <=> fix # {})
      BY <2>1, <3>1, ReportType DEF Report
    <3> HIDE DEF m, period
    <3>5. Reported(Append(samples, m), n + 1, period)
      BY <2>1, <3>2, <3>4, ReportedNext
    <3>6. \A i \in 1..n : Reported(Append(samples, m), i, period)
      BY <2>1, <3>4, ReportedBefore
    <3>7. Len(Append(samples, m)) = n + 1
      BY <2>1
    <3> HIDE DEF n
    <3>8. \A i \in 1..(n + 1) : Reported(Append(samples, m), i, period)
      <4>1. \A i \in 1..(n + 1) : i \in 1..n \/ i = n + 1
        BY <2>1
      <4>. QED
        BY <3>5, <3>6, <4>1
    <3>9. OutageKnown(robot', Append(samples, m), period)
      <4>1. CASE fix = {}
        <5>1. /\ robot'.estimate = r.estimate /\ robot'.last_fix_at = r.last_fix_at
              /\ robot'.missed = r.missed + 1
          BY <3>1, <3>3, <4>1 DEF NoFix, RobotType
        <5>2. ~m.fix
          BY <3>4, <4>1
        <5> DEFINE p == robot'
        <5>3. /\ p.estimate = r.estimate /\ p.last_fix_at = r.last_fix_at
              /\ p.missed = r.missed + 1
          BY <5>1
        <5> HIDE DEF p
        <5>4. OutageKnown(p, Append(samples, m), period)
          BY <2>1, <3>2, <3>4, <5>2, <5>3, OneMoreMissed
        <5>. QED
          BY <5>4 DEF p
      <4>2. CASE fix # {}
        <5> DEFINE p == robot'
                   t == Append(samples, m)
        <5>1. PICK e \in Pose, truth \in Pose : Fixed(r, e, truth)
          BY <3>3, <4>2
        <5>2. p.estimate = {e} /\ p.last_fix_at = {Due} /\ p.missed = 0
          BY <3>1, <5>1 DEF Fixed, RobotType
        <5>3. /\ n + 1 \in 1..(n + 1) /\ (n + 1) - 1 = n /\ ((n + 1) + 1)..(n + 1) = {}
              /\ (n + 1) - (n + 1) = 0
          BY <2>1
        <5>4. t[n + 1] = m
          BY <2>1 DEF n
        <5>5. m.fix
          BY <3>4, <4>2
        <5> HIDE DEF p, t
        <5>6. Len(t) = n + 1
          BY <3>7 DEF t
        <5>7. Outage(p, t, n + 1, period)
          BY <3>1, <5>2, <5>3, <5>4, <5>5, <5>6 DEF Outage, period, n
        <5>8. OutageKnown(p, t, period)
          BY <5>3, <5>6, <5>7 DEF OutageKnown
        <5>. QED
          BY <5>8 DEF p, t
      <4>. QED
        BY <4>1, <4>2
    <3>10. samples' = Append(samples, m) /\ scenario'.period = period
      BY <2>1, <3>3 DEF m, period
    <3>11. OutageKnown(robot, samples, scenario.period)'
      BY <3>9, <3>10 DEF OutageKnown, Outage
    <3>12. \A i \in 1..Len(samples') : Reported(samples', i, scenario'.period)
      BY <3>7, <3>8, <3>10
    <3>. QED
      BY <3>11, <3>12 DEF OutageInv, Reported, FixesBefore
  <2>. QED
    BY <2>1, <2>2, <2>3
<1>3. TypeInv /\ OutageInv => ReacquisitionEndsAnOutage
  <2> SUFFICES ASSUME TypeInv, OutageInv PROVE ReacquisitionEndsAnOutage
    OBVIOUS
  <2>1. DOMAIN samples = 1..Len(samples)
    BY DEF TypeInv
  <2>. QED
    BY <2>1 DEF OutageInv, Reported, FixesBefore, ReacquisitionEndsAnOutage
<1>. QED
  BY <1>1, <1>2, <1>3, CourseHolds, PTL DEF Spec

-----------------------------------------------------------------------------
(* The way a belief moves.                                                 *)

\* What a quarter turn does to a vector, by its components.
LEMMA RotatedIs ==
    ASSUME NEW turn \in Heading, NEW v \in Position
    PROVE  /\ Rotated(turn, v) \in Position
           /\ turn = 0 => Rotated(turn, v) = <<v[1], v[2]>>
           /\ turn = 1 => Rotated(turn, v) = <<v[2], -v[1]>>
           /\ turn = 2 => Rotated(turn, v) = <<-v[1], -v[2]>>
           /\ turn = 3 => Rotated(turn, v) = <<-v[2], v[1]>>
<1>1. v[1] \in Int /\ v[2] \in Int /\ v = <<v[1], v[2]>>
  BY DEF Position
<1>2. turn = 0 \/ turn = 1 \/ turn = 2 \/ turn = 3
  BY DEF Heading
<1>3. /\ turn = 0 => Rotated(turn, v) = <<v[1], v[2]>>
      /\ turn = 1 => Rotated(turn, v) = <<v[2], -v[1]>>
      /\ turn = 2 => Rotated(turn, v) = <<-v[1], -v[2]>>
      /\ turn = 3 => Rotated(turn, v) = <<-v[2], v[1]>>
  BY <1>1 DEF Rotated
<1>4. /\ <<v[1], v[2]>> \in Position /\ <<v[2], -v[1]>> \in Position
      /\ <<-v[1], -v[2]>> \in Position /\ <<-v[2], v[1]>> \in Position
  BY <1>1 DEF Position
<1>. QED
  BY <1>2, <1>3, <1>4

\* To turn a way is to turn its direction.
LEMMA RotatedAlong ==
    ASSUME NEW turn \in Heading, NEW h \in Heading
    PROVE  /\ (h + turn) % 4 \in Heading
           /\ Along((h + turn) % 4) = Rotated(turn, Along(h))
<1>1. /\ Along(0) = <<0, 1>> /\ Along(1) = <<1, 0>>
      /\ Along(2) = <<0, -1>> /\ Along(3) = <<-1, 0>>
  BY DEF Along, Vector
<1>2. Along(h) \in Position
  BY VectorTypes
<1>3. /\ turn = 0 => Rotated(turn, Along(h)) = <<Along(h)[1], Along(h)[2]>>
      /\ turn = 1 => Rotated(turn, Along(h)) = <<Along(h)[2], -Along(h)[1]>>
      /\ turn = 2 => Rotated(turn, Along(h)) = <<-Along(h)[1], -Along(h)[2]>>
      /\ turn = 3 => Rotated(turn, Along(h)) = <<-Along(h)[2], Along(h)[1]>>
  BY <1>2, RotatedIs
<1>4. (h + turn) % 4 \in Heading
  BY DEF Heading
<1>5. CASE turn = 0
  <2>1. (h + turn) % 4 = h
    BY <1>5 DEF Heading
  <2>2. h = 0 \/ h = 1 \/ h = 2 \/ h = 3
    BY DEF Heading
  <2>. QED
    BY <1>1, <1>3, <1>4, <1>5, <2>1, <2>2
<1>6. CASE turn = 1
  <2>1. \/ h = 0 /\ (h + turn) % 4 = 1
        \/ h = 1 /\ (h + turn) % 4 = 2
        \/ h = 2 /\ (h + turn) % 4 = 3
        \/ h = 3 /\ (h + turn) % 4 = 0
    BY <1>6 DEF Heading
  <2>. QED
    BY <1>1, <1>3, <1>4, <1>6, <2>1
<1>7. CASE turn = 2
  <2>1. \/ h = 0 /\ (h + turn) % 4 = 2
        \/ h = 1 /\ (h + turn) % 4 = 3
        \/ h = 2 /\ (h + turn) % 4 = 0
        \/ h = 3 /\ (h + turn) % 4 = 1
    BY <1>7 DEF Heading
  <2>. QED
    BY <1>1, <1>3, <1>4, <1>7, <2>1
<1>8. CASE turn = 3
  <2>1. \/ h = 0 /\ (h + turn) % 4 = 3
        \/ h = 1 /\ (h + turn) % 4 = 0
        \/ h = 2 /\ (h + turn) % 4 = 1
        \/ h = 3 /\ (h + turn) % 4 = 2
    BY <1>8 DEF Heading
  <2>. QED
    BY <1>1, <1>3, <1>4, <1>8, <2>1
<1>. QED
  BY <1>5, <1>6, <1>7, <1>8 DEF Heading

\* To turn a way made of two is to turn each.
LEMMA RotatedSum ==
    ASSUME NEW turn \in Heading, NEW v \in Position, NEW n \in Int, NEW u \in Position
    PROVE  Rotated(turn, Shifted(v, Times(n, u))) =
             Shifted(Rotated(turn, v), Times(n, Rotated(turn, u)))
<1> DEFINE a == n * u[1]
           b == n * u[2]
           w == Shifted(v, Times(n, u))
<1>1. /\ v[1] \in Int /\ v[2] \in Int /\ u[1] \in Int /\ u[2] \in Int
      /\ a \in Int /\ b \in Int
      /\ n * (-u[1]) = -a /\ n * (-u[2]) = -b
  BY DEF Position
<1>2. w = <<v[1] + a, v[2] + b>> /\ w[1] = v[1] + a /\ w[2] = v[2] + b
  BY DEF Shifted, Times
<1>3. w \in Position
  BY VectorTypes
<1> DEFINE x == Rotated(turn, u)
           y == Rotated(turn, v)
           z == Shifted(y, Times(n, x))
<1>4. z = <<y[1] + n * x[1], y[2] + n * x[2]>>
  BY DEF Shifted, Times
<1>5. turn = 0 \/ turn = 1 \/ turn = 2 \/ turn = 3
  BY DEF Heading
<1> HIDE DEF a, b, w, x, y, z
<1>6. CASE turn = 0
  <2>1. /\ x = <<u[1], u[2]>> /\ y = <<v[1], v[2]>>
        /\ Rotated(turn, w) = <<w[1], w[2]>>
    BY <1>3, <1>6, RotatedIs DEF x, y
  <2>2. n * x[1] = a /\ n * x[2] = b
    BY <2>1 DEF a, b
  <2>. QED
    BY <1>1, <1>2, <1>4, <2>1, <2>2 DEF w, x, y, z
<1>7. CASE turn = 1
  <2>1. /\ x = <<u[2], -u[1]>> /\ y = <<v[2], -v[1]>>
        /\ Rotated(turn, w) = <<w[2], -w[1]>>
    BY <1>3, <1>7, RotatedIs DEF x, y
  <2>2. n * x[1] = b /\ n * x[2] = -a
    BY <1>1, <2>1 DEF b
  <2>. QED
    BY <1>1, <1>2, <1>4, <2>1, <2>2 DEF w, x, y, z
<1>8. CASE turn = 2
  <2>1. /\ x = <<-u[1], -u[2]>> /\ y = <<-v[1], -v[2]>>
        /\ Rotated(turn, w) = <<-w[1], -w[2]>>
    BY <1>3, <1>8, RotatedIs DEF x, y
  <2>2. n * x[1] = -a /\ n * x[2] = -b
    BY <1>1, <2>1
  <2>. QED
    BY <1>1, <1>2, <1>4, <2>1, <2>2 DEF w, x, y, z
<1>9. CASE turn = 3
  <2>1. /\ x = <<-u[2], u[1]>> /\ y = <<-v[2], v[1]>>
        /\ Rotated(turn, w) = <<-w[2], w[1]>>
    BY <1>3, <1>9, RotatedIs DEF x, y
  <2>2. n * x[1] = -b /\ n * x[2] = a
    BY <1>1, <2>1 DEF a
  <2>. QED
    BY <1>1, <1>2, <1>4, <2>1, <2>2 DEF w, x, y, z
<1>. QED
  BY <1>5, <1>6, <1>7, <1>8, <1>9 DEF w, x, y, z

\* By how much a belief's heading is off since the fix f.
Turn(f) == (f.believed.heading - f.true.heading) % 4

\* Where a robot believes it is that got the fix f, and is at p.
Carried(f, p) ==
    Shifted(f.believed.position, Rotated(Turn(f), Shifted(p, Times(-1, f.true.position))))

Fix == [believed : Pose, true : Pose]

\* A belief moves as the robot does, turned by the error of the fix.
LEMMA CarriedMoves ==
    ASSUME NEW f \in Fix, NEW p \in Position
    PROVE  /\ Turn(f) \in Heading /\ Carried(f, p) \in Position
           /\ \A n \in Int, h \in Heading :
                /\ (h + Turn(f)) % 4 \in Heading
                /\ Carried(f, Shifted(p, Times(n, Along(h)))) =
                     Shifted(Carried(f, p), Times(n, Along((h + Turn(f)) % 4)))
<1> DEFINE b == f.believed.position
           o == Times(-1, f.true.position)
           turn == Turn(f)
           v == Shifted(p, o)
           w == Rotated(turn, v)
<1>1. /\ b \in Position /\ f.true.position \in Position
      /\ f.believed.heading \in Heading /\ f.true.heading \in Heading
  BY DEF Fix, Pose
<1>2. turn \in Heading
  BY <1>1 DEF Turn, Heading
<1>3. -1 \in Int /\ o \in Position /\ v \in Position
  BY <1>1, VectorTypes
<1> HIDE DEF b, o, turn, v
<1>4. w \in Position
  BY <1>2, <1>3, RotatedIs
<1>5. Carried(f, p) = Shifted(b, w) /\ Shifted(b, w) \in Position
  BY <1>1, <1>4, VectorTypes DEF Carried, b, o, turn, v
<1>6. ASSUME NEW n \in Int, NEW h \in Heading
      PROVE  /\ (h + turn) % 4 \in Heading
             /\ Carried(f, Shifted(p, Times(n, Along(h)))) =
                  Shifted(Carried(f, p), Times(n, Along((h + turn) % 4)))
  <2> DEFINE u == Along(h)
             x == Rotated(turn, u)
  <2>1. u \in Position /\ Times(n, u) \in Position
    BY VectorTypes
  <2>2. (h + turn) % 4 \in Heading /\ Along((h + turn) % 4) = x
    BY <1>2, RotatedAlong
  <2>3. x \in Position
    BY <1>2, <2>1, RotatedIs
  <2>4. Times(n, x) \in Position
    BY <2>3, VectorTypes
  <2> HIDE DEF u, x
  <2>5. \A a, c, d \in Position : Shifted(Shifted(a, c), d) = Shifted(Shifted(a, d), c)
    BY DEF Shifted, Position
  <2>6. \A a, c, d \in Position : Shifted(a, Shifted(c, d)) = Shifted(Shifted(a, c), d)
    BY DEF Shifted, Position
  <2>7. p \in Position /\ Shifted(Shifted(p, Times(n, u)), o) = Shifted(v, Times(n, u))
    BY <1>3, <2>1, <2>5 DEF v
  <2>8. Rotated(turn, Shifted(v, Times(n, u))) = Shifted(w, Times(n, x))
    BY <1>2, <1>3, <2>1, RotatedSum DEF x
  <2>9. Carried(f, Shifted(p, Times(n, u))) = Shifted(b, Shifted(w, Times(n, x)))
    BY <2>7, <2>8 DEF Carried, b, o, turn
  <2>10. Shifted(b, Shifted(w, Times(n, x))) = Shifted(Shifted(b, w), Times(n, x))
    BY <1>1, <1>4, <2>4, <2>6
  <2>. QED
    BY <1>5, <2>2, <2>9, <2>10 DEF u
<1>. QED
  BY <1>2, <1>5, <1>6 DEF turn

\* What is covered of a leg is what is driven of it, if anything.
LEMMA LegCovered ==
    ASSUME NEW t \in Nat, NEW r, Updatable(r, t), InTransit(r),
           NEW i \in 1..Len(Legs(r))
    PROVE  LET legs == Legs(r)
           IN  /\ Crossed(r, i, t) =>
                    Within(legs, i, Driven(r, t)) =
                      Within(legs, i, Driven(r, r.odometry_at)) + Covered(r, i, t)
               /\ ~Crossed(r, i, t) =>
                    Within(legs, i, Driven(r, t)) = Within(legs, i, Driven(r, r.odometry_at))
<1> DEFINE legs == Legs(r)
           a == Driven(r, r.odometry_at)
           b == Driven(r, t)
           x == Reach(legs, i - 1)
           y == Reach(legs, i)
           l == legs[i].length
           from == Max({a, x})
           to   == Min({b, y})
<1>1. /\ Travels(r) /\ r.odometry_at \in Nat /\ r.departed_at \in Nat
      /\ r.departed_at <= r.odometry_at /\ r.odometry_at <= t /\ r.departed_at <= t
  BY Fields DEF Updatable, Travels
<1>2. a \in Nat /\ b \in Nat /\ a <= b /\ legs \in Seq(RoadLeg)
  BY <1>1, DrivenIs
<1>3. x \in Nat /\ y \in Nat /\ l \in Nat /\ y = x + l
  <2>1. i - 1 \in 0..Len(legs) /\ i \in 0..Len(legs) /\ i \in 1..Len(legs)
    BY <1>2
  <2>2. legs[i] \in RoadLeg
    BY <1>2
  <2>3. l \in Nat
    BY <2>2 DEF RoadLeg
  <2>. QED
    BY <1>2, <2>1, <2>3, ReachSums
<1>4. Covered(r, i, t) = Max({0, to - from})
  BY DEF Covered
<1>5. Crossed(r, i, t) <=> l > 0 /\ b >= x /\ a < y
  BY DEF Crossed
<1>6. /\ Within(legs, i, a) = (IF a - x < 0 THEN 0 ELSE IF a - x > l THEN l ELSE a - x)
      /\ Within(legs, i, b) = (IF b - x < 0 THEN 0 ELSE IF b - x > l THEN l ELSE b - x)
  BY DEF Within
<1> HIDE DEF a, b, x, y, l, legs
<1>7. a \in Int /\ b \in Int /\ x \in Int /\ y \in Int
  BY <1>2, <1>3
<1>8. (from = IF a >= x THEN a ELSE x) /\ (to = IF b <= y THEN b ELSE y)
  BY <1>7, OfTwo
<1> HIDE DEF from, to
<1>9. from \in Int /\ to \in Int /\ 0 \in Int /\ to - from \in Int
  BY <1>7, <1>8
<1>10. Max({0, to - from}) = IF 0 >= to - from THEN 0 ELSE to - from
  BY <1>9, OfTwo
<1>11. ASSUME Crossed(r, i, t)
       PROVE  Within(legs, i, b) = Within(legs, i, a) + Covered(r, i, t)
  BY <1>2, <1>3, <1>4, <1>5, <1>6, <1>8, <1>10, <1>11
<1>12. ASSUME ~Crossed(r, i, t) PROVE Within(legs, i, b) = Within(legs, i, a)
  BY <1>2, <1>3, <1>5, <1>6, <1>12
<1>. QED
  BY <1>11, <1>12 DEF legs, a, b

(* What the polylines have to be for a robot to face the way it travelled: *)
(* none that has a length ends in a repeated point.                        *)
NoRepeatedEnd ==
    \A i \in DOMAIN Itinerary :
        LET legs == Itinerary[i].legs
        IN  Length(legs) > 0 => legs[Len(legs)].length > 0

\* Legs reach farther and farther.
LEMMA ReachGrows ==
    ASSUME NEW legs \in Seq(RoadLeg), NEW i \in 0..Len(legs), NEW j \in i..Len(legs)
    PROVE  Reach(legs, i) <= Reach(legs, j)
<1> DEFINE n == Len(legs)
           T == {k \in Nat : i + k <= n => Reach(legs, i) <= Reach(legs, i + k)}
<1>1. /\ n \in Nat /\ \A k \in 0..n : Reach(legs, k) \in Nat
      /\ \A k \in 1..n : Reach(legs, k) = Reach(legs, k - 1) + legs[k].length
      /\ \A k \in 1..n : legs[k].length \in Nat
  <2>1. \A k \in 1..n : legs[k] \in RoadLeg
    OBVIOUS
  <2>2. \A k \in 1..n : legs[k].length \in Nat
    BY <2>1 DEF RoadLeg
  <2>. QED
    BY <2>2, ReachSums
<1> HIDE DEF n
<1>2. 0 \in T
  BY <1>1 DEF n
<1>3. ASSUME NEW k \in Nat, k \in T PROVE k + 1 \in T
  <2>1. SUFFICES ASSUME i + (k + 1) <= n PROVE Reach(legs, i) <= Reach(legs, i + (k + 1))
    OBVIOUS
  <2>2. /\ i + (k + 1) \in 1..n /\ (i + (k + 1)) - 1 = i + k /\ i + k \in 0..n
        /\ i \in 0..n /\ i + k <= n
    BY <1>1, <2>1 DEF n
  <2>3. Reach(legs, i + (k + 1)) = Reach(legs, i + k) + legs[i + (k + 1)].length
    BY <1>1, <2>2
  <2>4. Reach(legs, i) <= Reach(legs, i + k)
    BY <1>3, <2>2
  <2> DEFINE x == Reach(legs, i)
             y == Reach(legs, i + k)
             z == Reach(legs, i + (k + 1))
             l == legs[i + (k + 1)].length
  <2>5. x \in Nat /\ y \in Nat /\ z \in Nat /\ l \in Nat
    BY <1>1, <2>2
  <2>6. z = y + l /\ x <= y
    BY <2>3, <2>4
  <2> HIDE DEF x, y, z, l
  <2>7. x <= z
    BY <2>5, <2>6
  <2>. QED
    BY <2>7 DEF x, z
<1> HIDE DEF T
<1>4. Nat \subseteq T
  BY <1>2, <1>3, Ind
<1>5. j - i \in Nat /\ i + (j - i) = j /\ j <= n
  BY DEF n
<1>6. j - i \in T
  BY <1>4, <1>5
<1>. QED
  BY <1>5, <1>6 DEF T

\* A leg is crossed where it has a length, and the point the robot was at is
\* before its end, and the one it is at not before its start.
LEMMA CrossedIs ==
    ASSUME NEW t \in Nat, NEW r, Updatable(r, t), InTransit(r)
    PROVE  /\ Legs(r) \in Seq(RoadLeg) /\ Length(Legs(r)) \in Nat /\ Len(Legs(r)) \in Nat
           /\ Length(Legs(r)) > 0 => Len(Legs(r)) > 0
           /\ Driven(r, t) \in Nat /\ Driven(r, r.odometry_at) \in Nat
           /\ Driven(r, r.odometry_at) <= Driven(r, t)
           /\ \A i \in 1..Len(Legs(r)) :
                /\ Legs(r)[i].length \in Nat
                /\ Reach(Legs(r), i) \in Nat /\ Reach(Legs(r), i - 1) \in Nat
                /\ Reach(Legs(r), i) = Reach(Legs(r), i - 1) + Legs(r)[i].length
                /\ Reach(Legs(r), i) <= Length(Legs(r))
<1> DEFINE legs == Legs(r)
<1>1. /\ Travels(r) /\ r.odometry_at \in Nat /\ r.departed_at \in Nat
      /\ r.departed_at <= r.odometry_at /\ r.odometry_at <= t /\ r.departed_at <= t
  BY Fields DEF Updatable, Travels
<1>2. /\ legs \in Seq(RoadLeg) /\ Length(legs) \in Nat
      /\ Driven(r, t) \in Nat /\ Driven(r, r.odometry_at) \in Nat
      /\ Driven(r, r.odometry_at) <= Driven(r, t)
  BY <1>1, DrivenIs
<1> HIDE DEF legs
<1>3. Len(legs) \in Nat /\ (Length(legs) > 0 => Len(legs) > 0)
  <2>1. Len(legs) \in Nat /\ (Len(legs) = 0 => Length(legs) = 0)
    BY <1>2, ReachSums DEF Length
  <2>. QED
    BY <2>1
<1>4. ASSUME NEW i \in 1..Len(legs)
      PROVE  /\ legs[i].length \in Nat
             /\ Reach(legs, i) \in Nat /\ Reach(legs, i - 1) \in Nat
             /\ Reach(legs, i) = Reach(legs, i - 1) + legs[i].length
             /\ Reach(legs, i) <= Length(legs)
  <2>1. legs[i] \in RoadLeg
    BY <1>2
  <2>2. i \in 0..Len(legs) /\ i - 1 \in 0..Len(legs) /\ Len(legs) \in i..Len(legs)
    BY <1>3
  <2>3. Reach(legs, i) <= Reach(legs, Len(legs))
    BY <1>2, <2>2, ReachGrows
  <2>. QED
    BY <1>2, <2>1, <2>2, <2>3, ReachSums DEF RoadLeg, Length
<1>. QED
  BY <1>2, <1>3, <1>4 DEF legs

(* An update that begins before the end of the legs crosses the leg the    *)
(* robot is on at its tick, and none after it.                             *)
LEMMA LegUnderWay ==
    ASSUME NoRepeatedEnd, NEW t \in Nat, NEW r, Updatable(r, t), InTransit(r),
           Driven(r, r.odometry_at) < Length(Legs(r))
    PROVE  LET i == LegAt(Legs(r), Driven(r, t))
           IN  /\ i \in 1..Len(Legs(r)) /\ Crossed(r, i, t)
               /\ \A j \in (i + 1)..Len(Legs(r)) : ~Crossed(r, j, t)
<1> DEFINE legs == Legs(r)
           n == Len(legs)
           a == Driven(r, r.odometry_at)
           b == Driven(r, t)
           i == LegAt(legs, b)
<1>1. /\ legs \in Seq(RoadLeg) /\ Length(legs) \in Nat /\ n \in Nat
      /\ Length(legs) > 0 => n > 0
      /\ a \in Nat /\ b \in Nat /\ a <= b
      /\ \A j \in 1..n :
           /\ legs[j].length \in Nat
           /\ Reach(legs, j) \in Nat /\ Reach(legs, j - 1) \in Nat
           /\ Reach(legs, j) = Reach(legs, j - 1) + legs[j].length
           /\ Reach(legs, j) <= Length(legs)
  BY CrossedIs
<1>2. a < Length(legs)
  OBVIOUS
<1>3. \A j : Crossed(r, j, t) <=>
               legs[j].length > 0 /\ b >= Reach(legs, j - 1) /\ a < Reach(legs, j)
  BY DEF Crossed
<1>4. Length(legs) > 0 /\ legs[n].length > 0
  <2>1. Length(legs) > 0
    BY <1>1, <1>2
  <2>2. r.node + 1 \in 1..Len(Itinerary) /\ Itinerary \in Seq([legs : Seq(RoadLeg), ticks : Nat \ {0}])
    BY TravelAssumption DEF Updatable, Travels
  <2>3. r.node + 1 \in DOMAIN Itinerary
    BY <2>2
  <2>. QED
    BY <2>1, <2>3 DEF NoRepeatedEnd, Legs
<1> HIDE DEF legs, n, a, b
<1>5. /\ i \in 1..n
      /\ \/ Reach(legs, i - 1) <= b /\ b < Reach(legs, i)
         \/ i = n /\ Length(legs) <= b
  <2>1. Len(legs) > 0 /\ b \in Nat /\ legs \in Seq(RoadLeg)
    BY <1>1, <1>4 DEF n
  <2>. QED
    BY <2>1, LegAtIs DEF n
<1> HIDE DEF i
<1>6. Reach(legs, n) = Length(legs)
  BY DEF Length, n
<1>7. Crossed(r, i, t)
  <2> DEFINE x == Reach(legs, i - 1)
             y == Reach(legs, i)
             l == legs[i].length
             m == Length(legs)
  <2>1. /\ x \in Nat /\ y \in Nat /\ l \in Nat /\ m \in Nat /\ y = x + l /\ y <= m
        /\ a \in Nat /\ b \in Nat /\ a <= b /\ a < m
    BY <1>1, <1>2, <1>5
  <2>2. (x <= b /\ b < y) \/ (l > 0 /\ y = m /\ m <= b)
    BY <1>4, <1>5, <1>6
  <2> HIDE DEF x, y, l, m
  <2>3. l > 0 /\ b >= x /\ a < y
    BY <2>1, <2>2
  <2>. QED
    BY <1>3, <2>3 DEF x, y, l
<1>8. ASSUME NEW j \in (i + 1)..n PROVE ~Crossed(r, j, t)
  <2>1. i # n /\ j \in 1..n /\ j - 1 \in i..n /\ i \in 0..n
    BY <1>1, <1>5
  <2>2. b < Reach(legs, i)
    BY <1>5, <2>1
  <2>3. Reach(legs, i) <= Reach(legs, j - 1)
    BY <1>1, <2>1, ReachGrows DEF n
  <2>. QED
    BY <1>1, <1>3, <1>5, <2>1, <2>2, <2>3
<1>. QED
  BY <1>5, <1>7, <1>8 DEF i, b, n, legs

-----------------------------------------------------------------------------
(* How a robot at rest faces.                                              *)

\* The legs of a traversal that have a length.
DrivenLegs(legs) == {i \in DOMAIN legs : legs[i].length > 0}

\* The last of them is the last of all, and it owns the end.
LEMMA LastIsDriven ==
    ASSUME NoRepeatedEnd, NEW k \in 1..Len(Itinerary)
    PROVE  LET legs == Itinerary[k].legs
           IN  /\ Length(legs) \in Nat
               /\ Length(legs) = 0 => DrivenLegs(legs) = {}
               /\ Length(legs) > 0 =>
                    /\ DrivenLegs(legs) # {} /\ Max(DrivenLegs(legs)) = Len(legs)
                    /\ legs[Len(legs)].heading \in Heading
                    /\ \A target \in Nat :
                         Length(legs) <= target => LegAt(legs, target) = Len(legs)
<1> DEFINE legs == Itinerary[k].legs
           n == Len(legs)
           D == DrivenLegs(legs)
<1>1. legs \in Seq(RoadLeg) /\ Length(legs) \in Nat /\ n \in Nat
  <2>1. legs \in Seq(RoadLeg) /\ Length(legs) \in Nat
    BY Traversal
  <2>. QED
    BY <2>1
<1>2. Length(legs) > 0 => legs[n].length > 0
  <2>1. k \in DOMAIN Itinerary
    BY TravelAssumption
  <2>. QED
    BY <2>1 DEF NoRepeatedEnd
<1> HIDE DEF legs
<1>3. DOMAIN legs = 1..n
  BY <1>1
<1>4. \A i \in 1..n : /\ legs[i].length \in Nat /\ legs[i].heading \in Heading
                      /\ Reach(legs, i - 1) \in Nat /\ Reach(legs, i) \in Nat
                      /\ Reach(legs, i) = Reach(legs, i - 1) + legs[i].length
                      /\ Reach(legs, i) <= Length(legs)
  <2> TAKE i \in 1..n
  <2>1. legs[i] \in RoadLeg /\ n \in 0..n /\ i \in 0..n /\ i - 1 \in 0..n /\ n \in i..n
    BY <1>1
  <2>2. Reach(legs, i) <= Reach(legs, n)
    BY <1>1, <2>1, ReachGrows
  <2>. QED
    BY <1>1, <2>1, <2>2, ReachSums DEF RoadLeg, Length
<1>5. Length(legs) = 0 => D = {}
  <2>1. SUFFICES ASSUME Length(legs) = 0, NEW i \in D PROVE FALSE
    OBVIOUS
  <2>2. i \in 1..n /\ legs[i].length > 0
    BY <1>3, <2>1 DEF DrivenLegs
  <2>. QED
    BY <1>4, <2>1, <2>2
<1>6. ASSUME Length(legs) > 0
      PROVE  /\ D # {} /\ Max(D) = n /\ legs[n].heading \in Heading
             /\ \A target \in Nat : Length(legs) <= target => LegAt(legs, target) = n
  <2>1. n > 0
    <3>1. n = 0 => Length(legs) = 0
      BY <1>1, ReachSums DEF Length
    <3>. QED
      BY <1>1, <1>6, <3>1
  <2>2. n \in 1..n /\ legs[n].length > 0
    BY <1>1, <1>2, <1>6, <2>1
  <2>3. n \in D /\ D \in SUBSET Int /\ \A i \in D : i <= n
    BY <1>3, <2>2 DEF DrivenLegs
  <2>4. Max(D) = n
    <3> HIDE DEF D, n
    <3>. QED
      BY <2>3, MaxIs
  <2>5. ASSUME NEW target \in Nat, Length(legs) <= target PROVE LegAt(legs, target) = n
    <3>1. ASSUME NEW i \in 1..n PROVE ~(target < Reach(legs, i))
      <4> DEFINE x == Reach(legs, i)
                 l == Length(legs)
      <4>1. x \in Nat /\ l \in Nat /\ x <= l /\ l <= target
        BY <1>1, <1>4, <2>5
      <4> HIDE DEF x, l
      <4>2. ~(target < x)
        BY <4>1
      <4>. QED
        BY <4>2 DEF x
    <3>. QED
      BY <1>3, <3>1 DEF LegAt
  <2>. QED
    BY <1>4, <2>2, <2>3, <2>4, <2>5
<1>. QED
  BY <1>1, <1>5, <1>6 DEF legs

\* How a robot faces after a traversal that faced so before it.
FacingAfter(k, heading) ==
    LET legs == Itinerary[k].legs
    IN  IF Length(legs) = 0 THEN heading ELSE legs[Len(legs)].heading

\* The heading travelled last, traversal by traversal.
LEMMA LastHeadings ==
    ASSUME NoRepeatedEnd
    PROVE  /\ LastHeading(0) = 0
           /\ \A n \in 1..Len(Itinerary) :
                LastHeading(n) = FacingAfter(n, LastHeading(n - 1))
<1> DEFINE n == Len(Itinerary)
           next(k, x) == LET legs == Itinerary[k].legs
                             driven == {i \in DOMAIN legs : legs[i].length > 0}
                         IN  IF driven = {} THEN x ELSE legs[Max(driven)].heading
           step == [k \in 1..n |-> [x \in Heading |-> FacingAfter(k, x)]]
<1>1. n \in Nat /\ 0 \in Heading
  BY TravelAssumption DEF Heading
<1>2. \A k \in 1..n : \A x : next(k, x) = FacingAfter(k, x)
  <2> TAKE k \in 1..n
  <2> TAKE x
  <2> DEFINE legs == Itinerary[k].legs
             D == DrivenLegs(legs)
  <2>1. next(k, x) = IF D = {} THEN x ELSE legs[Max(D)].heading
    BY DEF DrivenLegs
  <2>2. FacingAfter(k, x) = IF Length(legs) = 0 THEN x ELSE legs[Len(legs)].heading
    BY DEF FacingAfter
  <2>3. /\ Length(legs) \in Nat /\ (Length(legs) = 0 => D = {})
        /\ Length(legs) > 0 => D # {} /\ Max(D) = Len(legs)
    BY LastIsDriven
  <2> HIDE DEF next, legs, D
  <2>. QED
    BY <2>1, <2>2, <2>3
<1>3. \A k \in 1..n, x \in Heading : FacingAfter(k, x) \in Heading
  <2> TAKE k \in 1..n, x \in Heading
  <2> DEFINE legs == Itinerary[k].legs
  <2>1. Length(legs) \in Nat /\ (Length(legs) > 0 => legs[Len(legs)].heading \in Heading)
    BY LastIsDriven
  <2>2. FacingAfter(k, x) = IF Length(legs) = 0 THEN x ELSE legs[Len(legs)].heading
    BY DEF FacingAfter
  <2> HIDE DEF legs
  <2>. QED
    BY <2>1, <2>2
<1> HIDE DEF n, next
<1>4. step \in [1..n -> [Heading -> Heading]]
  BY <1>3
<1>5. \A k \in 1..n, x \in Heading : step[k][x] = FacingAfter(k, x)
  OBVIOUS
<1> HIDE DEF step
<1>6. PICK f : Recurs(f, n, Heading, 0, step)
  BY <1>1, <1>4, Recursion
<1>7. /\ f \in [0..n -> Heading] /\ f[0] = 0
      /\ \A k \in 1..n : f[k] = FacingAfter(k, f[k - 1])
  <2>1. f \in [0..n -> Heading] /\ f[0] = 0
    BY <1>6 DEF Recurs
  <2>2. ASSUME NEW k \in 1..n PROVE f[k] = FacingAfter(k, f[k - 1])
    <3>1. f[k] = step[k][f[k - 1]] /\ k - 1 \in 0..n
      BY <1>1, <1>6 DEF Recurs
    <3>. QED
      BY <1>5, <2>1, <3>1
  <2>. QED
    BY <2>1, <2>2
<1>8. ASSUME NEW i \in 0..n PROVE LastHeading(i) = f[i]
  <2> DEFINE Sum(u) == u = [k \in 0..i |-> IF k = 0 THEN 0 ELSE next(k, u[k - 1])]
             upto == CHOOSE u : Sum(u)
             h == [k \in 0..i |-> f[k]]
  <2>1. LastHeading(i) = upto[i]
    BY DEF LastHeading, next
  <2>2. /\ i \in Nat /\ 0 \in 0..i /\ i \in 0..i
        /\ \A k \in 1..i : k \in 1..n /\ k - 1 \in 0..i /\ k \in 0..i /\ k # 0
    BY <1>1
  <2>3. Sum(h)
    <3>1. \A k \in 0..i : h[k] = IF k = 0 THEN 0 ELSE next(k, h[k - 1])
      <4> TAKE k \in 0..i
      <4>1. CASE k = 0
        BY <1>7, <4>1
      <4>2. CASE k # 0
        <5>1. k \in 1..i /\ k \in 1..n
          BY <2>2, <4>2
        <5>2. h[k] = f[k] /\ h[k - 1] = f[k - 1] /\ f[k] = next(k, f[k - 1])
          BY <1>2, <1>7, <2>2, <5>1
        <5>. QED
          BY <4>2, <5>2
      <4>. QED
        BY <4>1, <4>2
    <3>. QED
      BY <3>1
  <2>4. Sum(upto)
    BY <2>3
  <2> HIDE DEF upto
  <2>5. upto[0] = 0 /\ \A k \in 1..i : upto[k] = next(k, upto[k - 1])
    BY <2>2, <2>4
  <2>6. StepAlike(upto, f, i)
    BY <1>2, <1>7, <2>2, <2>5 DEF StepAlike
  <2>. QED
    BY <2>1, <2>2, <2>6, StepByStep DEF Alike
<1>9. 0 \in 0..n /\ \A i \in 1..n : i \in 0..n /\ i - 1 \in 0..n
  BY <1>1
<1>. QED
  BY <1>7, <1>8, <1>9 DEF n

\* A robot that arrives faces as it last travelled.
LEMMA ArrivalFaces ==
    ASSUME NoRepeatedEnd, TypeInv, CourseInv, Pop("advance"),
           rest_heading = LastHeading(robot.node)
    PROVE  AtNode(Due).heading = LastHeading(AtNode(Due).robot.node)
<1>1. CASE ~InTransit(robot)
  BY <1>1 DEF AtNode
<1>2. CASE InTransit(robot)
  <2> DEFINE k == robot.node + 1
             legs == Itinerary[k].legs
             truth == TruthPose(robot, rest_heading, Due)
  <2>1. /\ Due = robot.arrival /\ Due \in Nat /\ now \in Nat /\ now <= Due
        /\ RobotOK(robot, now) /\ Travels(robot) /\ scenario \in Scenarios
    BY <1>2, PoppedIs, QueueIs DEF TypeInv, CourseInv, RobotOK
  <2>2. k \in 1..Len(Itinerary) /\ k - 1 = robot.node /\ Legs(robot) = legs
    BY <1>2, <2>1, Fields DEF Travels, Legs
  <2>3. Completed(robot).node = k
    BY <1>2, <2>1, CompletedIs
  <2>4. Driven(robot, Due) = Length(legs)
    BY <1>2, <2>1, <2>2, DrivenIs
  <2>5. AtNode(Due) = [robot |-> Completed(robot), heading |-> truth.heading]
    BY <1>2 DEF AtNode
  <2>6. truth.heading = IF Length(legs) > 0
                        THEN legs[LegAt(legs, Length(legs))].heading
                        ELSE rest_heading
    BY <1>2, <2>2, <2>4 DEF TruthPose
  <2>7. /\ Length(legs) \in Nat
        /\ Length(legs) > 0 => LegAt(legs, Length(legs)) = Len(legs)
    BY <2>2, LastIsDriven
  <2>8. LastHeading(k) = IF Length(legs) = 0 THEN rest_heading
                         ELSE legs[Len(legs)].heading
    BY <2>2, LastHeadings DEF FacingAfter
  <2> HIDE DEF k, legs, truth
  <2>9. truth.heading = LastHeading(k)
    BY <2>6, <2>7, <2>8
  <2>. QED
    BY <2>3, <2>5, <2>9
<1>. QED
  BY <1>1, <1>2

(* A robot at rest faces the way it last travelled, north if it never did  *)
(* (ADR-018, stationary orientation; scenario_runner.cpp:416-426), if no   *)
(* polyline ends in a repeated point.  The invariant is that the heading   *)
(* kept is that of the traversals completed, also while the next is on.    *)
THEOREM RestFacesTravel ==
    ASSUME NoRepeatedEnd PROVE Spec => []RestsAsItTravelled
<1> DEFINE RestInv == rest_heading = LastHeading(robot.node)
<1>1. Init => RestInv
  BY LastHeadings DEF Init, Fresh
<1>2. TypeInv /\ CourseInv /\ RestInv /\ [Next]_vars => RestInv'
  <2> SUFFICES ASSUME TypeInv, CourseInv, RestInv, [Next]_vars PROVE RestInv'
    OBVIOUS
  <2>1. CASE Depart
    <3> DEFINE s == AtNode(Due)
    <3>1. /\ Pop("advance") /\ s.robot.node < Len(Itinerary)
          /\ robot' = Begun(s.robot, Due) /\ rest_heading' = s.heading
      BY <2>1 DEF Depart, Due
    <3>2. /\ RobotOK(s.robot, Due) /\ ~InTransit(s.robot) /\ Due \in Nat
          /\ scenario \in Scenarios /\ Due <= Due
      BY <3>1, AtNodeIs, QueueIs DEF TypeInv
    <3>3. Begun(s.robot, Due).node = s.robot.node
      BY <3>1, <3>2, BegunIs
    <3>4. s.heading = LastHeading(s.robot.node)
      BY <3>1, ArrivalFaces
    <3>. QED
      BY <3>1, <3>3, <3>4
  <2>2. CASE Park \/ EndChain
    <3> DEFINE s == AtNode(Due)
    <3>1. Pop("advance") /\ robot' = s.robot /\ rest_heading' = s.heading
      BY <2>2 DEF Park, EndChain, Due
    <3>2. s.heading = LastHeading(s.robot.node)
      BY <3>1, ArrivalFaces
    <3>. QED
      BY <3>1, <3>2
  <2>3. CASE \E fix \in Measurements(model, TruthPose(robot, rest_heading, Head(queue).at)) :
               SampleGnss(fix)
    <3> DEFINE r == AdvanceLocalization(robot, Due)
               truth == TruthPose(robot, rest_heading, Due)
    <3>1. /\ RobotOK(r, Due) /\ r.node = robot.node /\ rest_heading' = rest_heading
          /\ NoFix(r) \/ \E e \in Pose : Fixed(r, e, truth)
      BY <2>3, SampleIs
    <3> HIDE DEF r, truth
    <3>2. r \in RobotType
      BY <3>1 DEF RobotOK, Travels
    <3>3. robot'.node = r.node
      BY <3>1, <3>2 DEF NoFix, Fixed, RobotType
    <3>. QED
      BY <3>1, <3>3
  <2>4. CASE SetGnssModel
    BY <2>4 DEF SetGnssModel
  <2>5. CASE \/ Return
             \/ \E horizon \in Horizons : RunUntil(horizon)
             \/ \E m \in Injections, at \in UNION {0..horizon : horizon \in Horizons} :
                  Inject(m, at)
             \/ UNCHANGED vars
    BY <2>5, CallerKeeps
  <2>. QED
    BY <2>1, <2>2, <2>3, <2>4, <2>5 DEF Next, HandleEvent
<1>3. RestInv => RestsAsItTravelled
  BY DEF RestsAsItTravelled
<1> HIDE DEF RestInv
<1>. QED
  BY <1>1, <1>2, <1>3, CourseHolds, PTL DEF Spec

-----------------------------------------------------------------------------
(* Dead reckoning keeps the error of the last fix.                         *)

\* The robot s, which is at p, believes it is where the fix f carried it.
Carries(s, f, p) ==
    \A e \in s.estimate :
        /\ e.position = Carried(f, p)
        /\ e.heading = (s.motion_heading + Turn(f)) % 4

\* A position and nothing more is that position.
LEMMA NothingMore ==
    ASSUME NEW p \in Position, NEW u \in Position
    PROVE  /\ Shifted(p, Times(0, u)) = p
           /\ Shifted(p, Times(-1, p)) = <<0, 0>> /\ Shifted(p, <<0, 0>>) = p
<1>1. p = <<p[1], p[2]>> /\ p[1] \in Int /\ p[2] \in Int /\ u[1] \in Int /\ u[2] \in Int
  BY DEF Position
<1>2. /\ p[1] + 0 * u[1] = p[1] /\ p[2] + 0 * u[2] = p[2] /\ p[1] + 0 = p[1]
      /\ p[2] + 0 = p[2] /\ p[1] + (-1) * p[1] = 0 /\ p[2] + (-1) * p[2] = 0
  BY <1>1
<1>. QED
  BY <1>1, <1>2 DEF Shifted, Times

\* Quarter turns are counted around.
LEMMA TurnAround ==
    ASSUME NEW m \in Heading, NEW turn \in Heading, NEW h \in Heading
    PROVE  /\ (((m + turn) % 4) + (h - m)) % 4 = (h + turn) % 4
           /\ (((m + turn) % 4) + 0) % 4 = (m + turn) % 4
           /\ (m + ((h - m) % 4)) % 4 = h
BY DEF Heading

\* One leg of an update carries the belief as far as it is covered.
LEMMA LegCarries ==
    ASSUME NEW t \in Nat, NEW r, Updatable(r, t), NEW i \in 1..Considered(r),
           NEW s \in RobotType, NEW f \in Fix, NEW p \in Position, Carries(s, f, p)
    PROVE  LET n == IF Crossed(r, i, t) THEN Covered(r, i, t) ELSE 0
           IN  Carries(OverLeg(r, s, i, t), f,
                       Shifted(p, Times(n, Along(Legs(r)[i].heading))))
<1> DEFINE h == Legs(r)[i].heading
           c == Covered(r, i, t)
           m == s.motion_heading
           turn == Turn(f)
           q == Propagate(s, c, h - m, t)
<1>1. /\ Travels(r) /\ InTransit(r) /\ i \in 1..Len(Legs(r))
      /\ r.departed_at <= r.odometry_at /\ r.odometry_at <= t
      /\ h \in Heading
  BY ConsideredIs DEF Updatable
<1>2. c \in Nat
  BY <1>1, CoveredIs
<1>3. m \in Heading /\ h - m \in Int /\ Along(h) \in Position
  BY <1>1, Fields, VectorTypes DEF Heading
<1>4. turn \in Heading
  BY CarriedMoves
<1>5. CASE ~Crossed(r, i, t)
  <2>1. OverLeg(r, s, i, t) = s
    BY <1>5 DEF OverLeg
  <2>2. Shifted(p, Times(0, Along(h))) = p
    BY <1>3, NothingMore
  <2>. QED
    BY <1>5, <2>1, <2>2
<1>6. CASE Crossed(r, i, t)
  <2> DEFINE z == OverLeg(r, s, i, t)
             x == Shifted(p, Times(c, Along(h)))
  <2>1. z = [q EXCEPT !.motion_heading = h]
    BY <1>6 DEF OverLeg
  <2>2. q = [s EXCEPT !.estimate = {Onward(e, c, h - m, t) : e \in s.estimate},
                      !.dead_reckoned = @ \/ \E e \in s.estimate : Moves(e, c, h - m, t)]
    BY DEF Propagate, Onward
  <2> HIDE DEF q, c, h, m, z
  <2>3. z.estimate = {Onward(e, c, h - m, t) : e \in s.estimate} /\ z.motion_heading = h
    <3> DEFINE es == {Onward(e, c, h - m, t) : e \in s.estimate}
               d == s.dead_reckoned \/ \E e \in s.estimate : Moves(e, c, h - m, t)
    <3>1. z = [[s EXCEPT !.estimate = es, !.dead_reckoned = d] EXCEPT !.motion_heading = h]
      BY <2>1, <2>2
    <3> HIDE DEF es, d
    <3>2. z.estimate = es /\ z.motion_heading = h
      BY <3>1 DEF RobotType
    <3>. QED
      BY <3>2 DEF es
  <2>4. Carried(f, x) = Shifted(Carried(f, p), Times(c, Along((h + turn) % 4)))
    BY <1>1, <1>2, CarriedMoves
  <2>5. ASSUME NEW e \in s.estimate
        PROVE  /\ Onward(e, c, h - m, t).position = Carried(f, x)
               /\ Onward(e, c, h - m, t).heading = (h + turn) % 4
    <3>1. e.position = Carried(f, p) /\ e.heading = (m + turn) % 4
      BY DEF Carries, m
    <3>2. (e.heading + (h - m)) % 4 = (h + turn) % 4
      <4> HIDE DEF turn
      <4>1. (((m + turn) % 4) + (h - m)) % 4 = (h + turn) % 4
        BY <1>1, <1>3, <1>4, TurnAround
      <4>. QED
        BY <3>1, <4>1
    <3>. QED
      BY <2>4, <3>1, <3>2 DEF Onward
  <2> HIDE DEF x
  <2>6. Carries(z, f, x)
    <3>1. SUFFICES ASSUME NEW o \in z.estimate
                   PROVE  o.position = Carried(f, x) /\ o.heading = (h + turn) % 4
      BY <2>3 DEF Carries
    <3>2. PICK e \in s.estimate : o = Onward(e, c, h - m, t)
      BY <2>3, <3>1
    <3>. QED
      BY <2>5, <3>2
  <2>. QED
    BY <1>6, <2>6 DEF x, z, h, c
<1>. QED
  BY <1>5, <1>6

\* What is believed does not depend on the tick of the last update.
Elapsed(s, t) == [Propagate(s, 0, 0, t) EXCEPT !.odometry_at = t]

\* Time that passes over a polyline carries belief along.
LEMMA TimeCarries ==
    ASSUME NEW s \in RobotType, NEW f \in Fix, NEW p \in Position, Carries(s, f, p),
           NEW t \in Nat
    PROVE  /\ Carries(Elapsed(s, t), f, p)
           /\ \A e \in Elapsed(s, t).estimate : e.at = t
<1> DEFINE q == Elapsed(s, t)
           es == {Onward(e, 0, 0, t) : e \in s.estimate}
           d == s.dead_reckoned \/ \E e \in s.estimate : Moves(e, 0, 0, t)
           m == s.motion_heading
           turn == Turn(f)
<1>1. q = [[s EXCEPT !.estimate = es, !.dead_reckoned = d] EXCEPT !.odometry_at = t]
  BY DEF Propagate, Onward, Elapsed
<1> HIDE DEF es, d, q
<1>2. q.estimate = es /\ q.motion_heading = m
  BY <1>1 DEF RobotType
<1>3. m \in Heading /\ turn \in Heading /\ Carried(f, p) \in Position
  BY Fields, CarriedMoves
<1>4. ASSUME NEW e \in s.estimate
      PROVE  /\ Onward(e, 0, 0, t).position = Carried(f, p)
             /\ Onward(e, 0, 0, t).heading = (m + turn) % 4 /\ Onward(e, 0, 0, t).at = t
  <2>1. e.position = Carried(f, p) /\ e.heading = (m + turn) % 4
    BY DEF Carries
  <2> HIDE DEF m, turn
  <2>2. (e.heading + 0) % 4 = (m + turn) % 4 /\ (m + turn) % 4 \in Heading
    <3>1. (((m + turn) % 4) + 0) % 4 = (m + turn) % 4
      BY <1>3, TurnAround
    <3>2. (m + turn) % 4 \in Heading
      BY <1>3 DEF Heading
    <3>. QED
      BY <2>1, <3>1, <3>2
  <2>3. Along((e.heading + 0) % 4) \in Position
    BY <2>2, VectorTypes
  <2>4. Shifted(e.position, Times(0, Along((e.heading + 0) % 4))) = e.position
    BY <1>3, <2>1, <2>3, NothingMore
  <2>. QED
    BY <2>1, <2>2, <2>4 DEF Onward
<1> HIDE DEF m, turn
<1>5. ASSUME NEW o \in es
      PROVE  o.position = Carried(f, p) /\ o.heading = (m + turn) % 4 /\ o.at = t
  <2>1. PICK e \in s.estimate : o = Onward(e, 0, 0, t)
    BY DEF es
  <2>. QED
    BY <1>4, <2>1
<1>. QED
  BY <1>2, <1>5 DEF Carries, m, turn, q

\* From b and a on, with G to go: where both move along u, a less by c.
LEMMA MovesApart ==
    ASSUME NEW A \in Position, NEW B \in Position, NEW G \in Position, NEW u \in Position,
           NEW v \in Int, NEW w \in Int, NEW c \in Int, v = w + c
    PROVE  Shifted(Shifted(A, Times(v, u)), Shifted(G, Times(-1, Shifted(B, Times(w, u)))))
             = Shifted(Shifted(A, Shifted(G, Times(-1, B))), Times(c, u))
<1> DEFINE v1 == v * u[1]
           v2 == v * u[2]
           w1 == w * u[1]
           w2 == w * u[2]
           c1 == c * u[1]
           c2 == c * u[2]
<1>1. /\ A[1] \in Int /\ A[2] \in Int /\ B[1] \in Int /\ B[2] \in Int
      /\ G[1] \in Int /\ G[2] \in Int /\ u[1] \in Int /\ u[2] \in Int
  BY DEF Position
<1>2. /\ v1 \in Int /\ v2 \in Int /\ w1 \in Int /\ w2 \in Int /\ c1 \in Int /\ c2 \in Int
      /\ v1 = w1 + c1 /\ v2 = w2 + c2
  BY <1>1
<1> HIDE DEF v1, v2, w1, w2, c1, c2
<1>3. /\ (A[1] + v1) + (G[1] + (-1) * (B[1] + w1)) = (A[1] + (G[1] + (-1) * B[1])) + c1
      /\ (A[2] + v2) + (G[2] + (-1) * (B[2] + w2)) = (A[2] + (G[2] + (-1) * B[2])) + c2
  BY <1>1, <1>2
<1>. QED
  BY <1>3 DEF Shifted, Times, v1, v2, w1, w2, c1, c2

\* Where the robot is at a tick.
PositionAt(r, t) == IF InTransit(r)
                    THEN PointOn(NodePosition(r.node), Legs(r), Driven(r, t))
                    ELSE NodePosition(r.node)

\* Where an update at t of the robot r has come after its first i legs: the
\* points of the tick before, with the first i legs as they are at t.
Underway(f, g, n, i) == Shifted(g[i], Shifted(f[n], Times(-1, f[i])))

\* How far an update goes on leg i.
Going(r, i, t) == IF Crossed(r, i, t) THEN Covered(r, i, t) ELSE 0

\* A robot on a traversal is somewhere on its polyline.
LEMMA UnderwayIs ==
    ASSUME NEW t \in Nat, NEW r, Updatable(r, t), InTransit(r), NEW p \in Position,
           NEW f, WayTo(f, p, Legs(r), Driven(r, r.odometry_at)),
           NEW g, WayTo(g, p, Legs(r), Driven(r, t))
    PROVE  LET n == Len(Legs(r))
           IN  /\ \A i \in 0..n : Underway(f, g, n, i) \in Position
               /\ Underway(f, g, n, 0) = f[n] /\ Underway(f, g, n, n) = g[n]
               /\ \A i \in 1..n :
                    Underway(f, g, n, i) =
                      Shifted(Underway(f, g, n, i - 1),
                              Times(Going(r, i, t), Along(Legs(r)[i].heading)))
<1> DEFINE legs == Legs(r)
           n == Len(legs)
           a == Driven(r, r.odometry_at)
           b == Driven(r, t)
<1>1. /\ legs \in Seq(RoadLeg) /\ n \in Nat /\ a \in Nat /\ b \in Nat /\ a <= b
      /\ Travels(r) /\ r.departed_at <= r.odometry_at /\ r.odometry_at <= t
  BY CrossedIs DEF Updatable
<1>2. /\ f \in [0..n -> Position] /\ f[0] = p /\ g \in [0..n -> Position] /\ g[0] = p
      /\ \A k \in 1..n :
           /\ f[k] = Shifted(f[k - 1], Times(Within(legs, k, a), Along(legs[k].heading)))
           /\ g[k] = Shifted(g[k - 1], Times(Within(legs, k, b), Along(legs[k].heading)))
  BY DEF WayTo
<1>3. \A k \in 1..n : /\ k - 1 \in 0..n /\ k \in 0..n
                      /\ Within(legs, k, a) \in Int /\ Within(legs, k, b) \in Int
                      /\ Along(legs[k].heading) \in Position
                      /\ Going(r, k, t) \in Int
                      /\ Within(legs, k, b) = Within(legs, k, a) + Going(r, k, t)
  <2> TAKE k \in 1..n
  <2>1. Within(legs, k, a) \in Nat /\ Within(legs, k, b) \in Nat /\ legs[k].heading \in Heading
    <3> HIDE DEF legs, a, b
    <3>1. a \in Int /\ b \in Int /\ legs \in Seq(RoadLeg) /\ k \in 1..Len(legs)
      BY <1>1
    <3>. QED
      BY <3>1, WithinIs
  <2>2. Covered(r, k, t) \in Nat
    BY <1>1, CoveredIs
  <2>3. /\ Crossed(r, k, t) => Within(legs, k, b) = Within(legs, k, a) + Covered(r, k, t)
        /\ ~Crossed(r, k, t) => Within(legs, k, b) = Within(legs, k, a)
    BY LegCovered
  <2>4. Along(legs[k].heading) \in Position
    BY <2>1, VectorTypes
  <2>5. k - 1 \in 0..n /\ k \in 0..n
    BY <1>1
  <2> HIDE DEF legs, a, b
  <2>. QED
    BY <2>1, <2>2, <2>3, <2>4, <2>5 DEF Going
<1> HIDE DEF legs, n, a, b
<1>4. 0 \in 0..n /\ n \in 0..n
  BY <1>1
<1>5. \A i \in 0..n : Underway(f, g, n, i) \in Position
  BY <1>2, <1>4, VectorTypes DEF Underway
<1>6. Underway(f, g, n, 0) = f[n]
  <2>1. p = <<p[1], p[2]>> /\ f[n] \in Position
    BY <1>2, <1>4 DEF Position
  <2> DEFINE q == f[n]
  <2>2. Underway(f, g, n, 0) = Shifted(p, Shifted(q, Times(-1, p)))
    BY <1>2 DEF Underway
  <2> HIDE DEF q
  <2>3. Shifted(p, Shifted(q, Times(-1, p))) = q
    <3>1. /\ q = <<q[1], q[2]>> /\ q[1] \in Int /\ q[2] \in Int
          /\ p[1] \in Int /\ p[2] \in Int
      BY <2>1 DEF Position, q
    <3>2. p[1] + (q[1] + (-1) * p[1]) = q[1] /\ p[2] + (q[2] + (-1) * p[2]) = q[2]
      BY <3>1
    <3>. QED
      BY <3>1, <3>2 DEF Shifted, Times
  <2>. QED
    BY <2>2, <2>3 DEF q
<1>7. Underway(f, g, n, n) = g[n]
  <2>1. f[n] \in Position /\ g[n] \in Position
    BY <1>2, <1>4
  <2>2. Shifted(f[n], Times(-1, f[n])) = <<0, 0>> /\ Shifted(g[n], <<0, 0>>) = g[n]
    BY <2>1, NothingMore
  <2>. QED
    BY <2>2 DEF Underway
<1>8. ASSUME NEW i \in 1..n
      PROVE  Underway(f, g, n, i) =
               Shifted(Underway(f, g, n, i - 1),
                       Times(Going(r, i, t), Along(legs[i].heading)))
  <2> DEFINE A == g[i - 1]
             B == f[i - 1]
             G == f[n]
             u == Along(legs[i].heading)
             v == Within(legs, i, b)
             w == Within(legs, i, a)
             c == Going(r, i, t)
  <2>1. /\ A \in Position /\ B \in Position /\ G \in Position /\ u \in Position
        /\ v \in Int /\ w \in Int /\ c \in Int /\ v = w + c
    BY <1>2, <1>3, <1>4
  <2>2. g[i] = Shifted(A, Times(v, u)) /\ f[i] = Shifted(B, Times(w, u))
    BY <1>2
  <2>3. Underway(f, g, n, i) =
          Shifted(Shifted(A, Times(v, u)), Shifted(G, Times(-1, Shifted(B, Times(w, u)))))
    BY <2>2 DEF Underway
  <2>4. Underway(f, g, n, i - 1) = Shifted(A, Shifted(G, Times(-1, B)))
    BY DEF Underway
  <2> HIDE DEF A, B, G, u, v, w, c
  <2>5. Underway(f, g, n, i) = Shifted(Underway(f, g, n, i - 1), Times(c, u))
    BY <2>1, <2>3, <2>4, MovesApart
  <2>. QED
    BY <2>5 DEF c, u
<1>. QED
  BY <1>5, <1>6, <1>7, <1>8 DEF n, legs

\* An update carries the belief along the way.
LEMMA UpdateCarries ==
    ASSUME scenario.dead_reckoning, NEW t \in Nat, NEW r, Updatable(r, t),
           r.node \in 0..Len(Itinerary), NEW f \in Fix,
           Carries(r, f, PositionAt(r, r.odometry_at))
    PROVE  LET q == AdvanceLocalization(r, t)
           IN  Carries(q, f, PositionAt(r, t)) /\ \A e \in q.estimate : e.at = t
<1> DEFINE q == AdvanceLocalization(r, t)
           n == Considered(r)
           origin == NodePosition(r.node)
<1>1. PICK s : /\ Updates(s, r, t)
               /\ q = [Propagate(s[n], 0, 0, t) EXCEPT !.odometry_at = t]
  BY AdvanceIs
<1>2. origin \in Position /\ n \in Nat /\ r \in RobotType /\ Travels(r)
  BY NodePositions, ConsideredIs DEF Updatable, Travels
<1>3. /\ s \in [0..n -> RobotType] /\ s[0] = r
      /\ \A i \in 1..n : s[i] = OverLeg(r, s[i - 1], i, t)
  BY <1>1 DEF Updates
<1>4. n \in 0..n /\ s[n] \in RobotType
  BY <1>2, <1>3
<1>5. Carries(s[n], f, PositionAt(r, t)) /\ PositionAt(r, t) \in Position
  <2>1. CASE ~InTransit(r)
    <3>1. n = 0 /\ PositionAt(r, t) = origin /\ PositionAt(r, r.odometry_at) = origin
      BY <2>1 DEF Considered, PositionAt
    <3>. QED
      BY <1>2, <1>3, <3>1
  <2>2. CASE InTransit(r)
    <3> DEFINE legs == Legs(r)
               a == Driven(r, r.odometry_at)
               b == Driven(r, t)
    <3>1. legs \in Seq(RoadLeg) /\ a \in Int /\ b \in Int /\ n = Len(legs)
      <4>1. legs \in Seq(RoadLeg) /\ a \in Nat /\ b \in Nat
        BY <2>2, CrossedIs
      <4>2. n = Len(legs)
        BY <2>2 DEF Considered
      <4> HIDE DEF legs, a, b, n
      <4>. QED
        BY <4>1, <4>2
    <3>2. PICK v : WayTo(v, origin, legs, a)
      <4> HIDE DEF legs, a, origin
      <4>. QED
        BY <1>2, <3>1, PointIsReached
    <3>3. PICK w : WayTo(w, origin, legs, b)
      <4> HIDE DEF legs, b, origin
      <4>. QED
        BY <1>2, <3>1, PointIsReached
    <3>4. v[n] = PositionAt(r, r.odometry_at) /\ w[n] = PositionAt(r, t)
      BY <2>2, <3>1, <3>2, <3>3 DEF WayTo, PositionAt
    <3> DEFINE P(i) == Underway(v, w, n, i)
               T == {i \in Nat : i <= n => Carries(s[i], f, P(i))}
    <3>5. /\ \A i \in 0..n : P(i) \in Position
          /\ P(0) = v[n] /\ P(n) = w[n]
          /\ \A i \in 1..n :
               P(i) = Shifted(P(i - 1), Times(Going(r, i, t), Along(legs[i].heading)))
      <4>1. /\ \A i \in 0..Len(Legs(r)) : Underway(v, w, Len(Legs(r)), i) \in Position
            /\ Underway(v, w, Len(Legs(r)), 0) = v[Len(Legs(r))]
            /\ Underway(v, w, Len(Legs(r)), Len(Legs(r))) = w[Len(Legs(r))]
            /\ \A i \in 1..Len(Legs(r)) :
                 Underway(v, w, Len(Legs(r)), i) =
                   Shifted(Underway(v, w, Len(Legs(r)), i - 1),
                           Times(Going(r, i, t), Along(Legs(r)[i].heading)))
        <5> HIDE DEF origin, n
        <5>. QED
          BY <1>2, <2>2, <3>2, <3>3, UnderwayIs
      <4> HIDE DEF n
      <4>. QED
        BY <3>1, <4>1
    <3> HIDE DEF P
    <3>6. 0 \in T
      BY <1>3, <3>4, <3>5
    <3>7. ASSUME NEW k \in Nat, k \in T PROVE k + 1 \in T
      <4>1. SUFFICES ASSUME k + 1 <= n PROVE Carries(s[k + 1], f, P(k + 1))
        OBVIOUS
      <4>2. /\ k + 1 \in 1..n /\ (k + 1) - 1 = k /\ k \in 0..n /\ Carries(s[k], f, P(k))
        BY <1>2, <3>7, <4>1
      <4> DEFINE j == k + 1
      <4>3. j \in 1..n /\ s[j] = OverLeg(r, s[k], j, t) /\ s[k] \in RobotType /\ P(k) \in Position
        BY <1>3, <3>5, <4>2
      <4>4. P(j) = Shifted(P(k), Times(Going(r, j, t), Along(legs[j].heading)))
        BY <3>5, <4>2
      <4> HIDE DEF j
      <4>5. Carries(OverLeg(r, s[k], j, t), f,
                    Shifted(P(k), Times(Going(r, j, t), Along(Legs(r)[j].heading))))
        BY <4>2, <4>3, LegCarries DEF Going
      <4>6. Carries(s[j], f, P(j))
        BY <4>3, <4>4, <4>5
      <4>. QED
        BY <4>6 DEF j
    <3> HIDE DEF T
    <3>8. Nat \subseteq T
      BY <3>6, <3>7, Ind
    <3>9. Carries(s[n], f, P(n))
      BY <1>2, <3>8 DEF T
    <3>. QED
      BY <1>4, <3>4, <3>5, <3>9
  <2>. QED
    BY <2>1, <2>2
<1> HIDE DEF q, n, origin
<1>6. Carries(q, f, PositionAt(r, t)) /\ \A e \in q.estimate : e.at = t
  <2> DEFINE last == s[n]
             p == PositionAt(r, t)
  <2>1. last \in RobotType /\ p \in Position /\ Carries(last, f, p)
    BY <1>4, <1>5
  <2>2. q = Elapsed(last, t)
    BY <1>1 DEF Elapsed
  <2> HIDE DEF last, p
  <2>3. Carries(q, f, p) /\ \A e \in q.estimate : e.at = t
    BY <2>1, <2>2, TimeCarries
  <2>. QED
    BY <2>3 DEF p
<1>. QED
  BY <1>6 DEF q

\* The way the robot faces at a tick, if it faced so before its traversal.
FacingAt(r, heading, t) == TruthPose(r, heading, t).heading

\* What an update makes of the heading of motion: that of the last leg crossed.
LEMMA LegTurns ==
    ASSUME NEW t \in Nat, NEW r, Updatable(r, t), NEW i \in 1..Considered(r),
           NEW s \in RobotType
    PROVE  OverLeg(r, s, i, t).motion_heading =
             IF Crossed(r, i, t) THEN Legs(r)[i].heading ELSE s.motion_heading
<1>1. CASE ~Crossed(r, i, t)
  BY <1>1 DEF OverLeg
<1>2. CASE Crossed(r, i, t)
  <2> DEFINE h == Legs(r)[i].heading
             q == Propagate(s, Covered(r, i, t), h - s.motion_heading, t)
  <2>1. OverLeg(r, s, i, t) = [q EXCEPT !.motion_heading = h]
    BY <1>2 DEF OverLeg
  <2>2. "motion_heading" \in DOMAIN q
    BY DEF Propagate, RobotType
  <2> HIDE DEF q
  <2>. QED
    BY <1>2, <2>1, <2>2
<1>. QED
  BY <1>1, <1>2

\* An update after whose k-th leg none is crossed leaves the heading of motion
\* at that leg's, or as it was.
LEMMA UpdateHeads ==
    ASSUME scenario.dead_reckoning, NEW t \in Nat, NEW r, Updatable(r, t),
           NEW k \in 0..Considered(r), \A j \in (k + 1)..Considered(r) : ~Crossed(r, j, t)
    PROVE  LET h == AdvanceLocalization(r, t).motion_heading
           IN  /\ k = 0 => h = r.motion_heading
               /\ k > 0 /\ Crossed(r, k, t) => h = Legs(r)[k].heading
<1> DEFINE q == AdvanceLocalization(r, t)
           n == Considered(r)
<1>1. PICK s : /\ Updates(s, r, t)
               /\ q = [Propagate(s[n], 0, 0, t) EXCEPT !.odometry_at = t]
  BY AdvanceIs
<1>2. n \in Nat /\ r \in RobotType
  BY ConsideredIs DEF Updatable, Travels
<1>3. /\ s \in [0..n -> RobotType] /\ s[0] = r
      /\ \A i \in 1..n : s[i] = OverLeg(r, s[i - 1], i, t)
  BY <1>1 DEF Updates
<1>4. \A i \in 1..n : /\ i - 1 \in 0..n /\ s[i - 1] \in RobotType
                      /\ s[i].motion_heading = IF Crossed(r, i, t) THEN Legs(r)[i].heading
                                               ELSE s[i - 1].motion_heading
  <2> TAKE i \in 1..n
  <2>1. i - 1 \in 0..n /\ s[i] = OverLeg(r, s[i - 1], i, t)
    BY <1>2, <1>3
  <2>2. s[i - 1] \in RobotType
    BY <1>3, <2>1
  <2>. QED
    BY <2>1, <2>2, LegTurns
<1>5. q.motion_heading = s[n].motion_heading
  <2> DEFINE last == s[n]
             z == Propagate(last, 0, 0, t)
  <2>1. q = [z EXCEPT !.odometry_at = t] /\ last \in RobotType
    BY <1>1, <1>2, <1>3
  <2>2. z.motion_heading = last.motion_heading
    <3> HIDE DEF last
    <3>. QED
      BY <2>1 DEF Propagate, RobotType
  <2> HIDE DEF z, q
  <2>. QED
    BY <2>1, <2>2
<1> HIDE DEF q, n
<1> DEFINE T == {d \in Nat : k + d <= n => s[k + d].motion_heading = s[k].motion_heading}
<1>6. 0 \in T
  BY <1>2 DEF n
<1>7. ASSUME NEW d \in Nat, d \in T PROVE d + 1 \in T
  <2>1. SUFFICES ASSUME k + (d + 1) <= n
                 PROVE  s[k + (d + 1)].motion_heading = s[k].motion_heading
    OBVIOUS
  <2> DEFINE i == k + (d + 1)
  <2>2. i \in 1..n /\ i \in (k + 1)..n /\ i - 1 = k + d /\ k + d <= n
    BY <1>2, <2>1 DEF n
  <2>3. ~Crossed(r, i, t)
    BY <2>2 DEF n
  <2>4. s[k + d].motion_heading = s[k].motion_heading
    BY <1>7, <2>2
  <2> HIDE DEF i
  <2>5. s[i].motion_heading = s[k].motion_heading
    BY <1>4, <2>2, <2>3, <2>4
  <2>. QED
    BY <2>5 DEF i
<1> HIDE DEF T
<1>8. Nat \subseteq T
  BY <1>6, <1>7, Ind
<1>9. n - k \in Nat /\ k + (n - k) = n
  BY <1>2 DEF n
<1>10. n - k \in T
  BY <1>8, <1>9
<1>11. s[n].motion_heading = s[k].motion_heading
  BY <1>2, <1>9, <1>10 DEF T
<1>12. CASE k = 0
  BY <1>3, <1>5, <1>11, <1>12 DEF q
<1>13. CASE k > 0 /\ Crossed(r, k, t)
  <2>1. k \in 1..n
    BY <1>13 DEF n
  <2>2. s[k].motion_heading = Legs(r)[k].heading
    BY <1>4, <1>13, <2>1
  <2>. QED
    BY <1>5, <1>11, <1>13, <2>2 DEF q
<1>. QED
  BY <1>12, <1>13 DEF q

(* An update turns the robot the way it faces at its tick -- if it was     *)
(* turned so at the last update, or was on its way and not at the end.     *)
LEMMA UpdateTurns ==
    ASSUME NoRepeatedEnd, scenario.dead_reckoning, NEW t \in Nat, NEW r, Updatable(r, t),
           NEW heading,
           \/ r.motion_heading = FacingAt(r, heading, r.odometry_at)
           \/ InTransit(r) /\ Driven(r, r.odometry_at) < Length(Legs(r))
    PROVE  AdvanceLocalization(r, t).motion_heading = FacingAt(r, heading, t)
<1> DEFINE h == AdvanceLocalization(r, t).motion_heading
           n == Considered(r)
           legs == Legs(r)
           a == Driven(r, r.odometry_at)
           b == Driven(r, t)
<1>1. Travels(r) /\ n \in Nat
  BY ConsideredIs DEF Updatable
<1>2. ASSUME \A j \in 1..n : ~Crossed(r, j, t) PROVE h = r.motion_heading
  <2>1. 0 \in 0..n /\ 0 + 1 = 1
    BY <1>1
  <2>. QED
    BY <1>2, <2>1, UpdateHeads
<1>3. CASE ~InTransit(r)
  <2>1. n = 0 /\ r.motion_heading = heading
    BY <1>3 DEF Considered, FacingAt, TruthPose
  <2>2. h = r.motion_heading
    BY <1>2, <2>1
  <2>. QED
    BY <1>3, <2>1, <2>2 DEF FacingAt, TruthPose
<1>4. CASE InTransit(r)
  <2>1. /\ Length(legs) \in Nat /\ n \in Nat /\ n = Len(legs) /\ a \in Nat /\ b \in Nat /\ a <= b
        /\ \A i \in 1..n : /\ legs[i].length \in Nat
                           /\ Reach(legs, i) \in Nat /\ Reach(legs, i - 1) \in Nat
                           /\ Reach(legs, i) = Reach(legs, i - 1) + legs[i].length
                           /\ Reach(legs, i) <= Length(legs)
    <3>1. n = Len(legs)
      BY <1>4 DEF Considered
    <3> HIDE DEF n
    <3>. QED
      BY <1>1, <1>4, <3>1, CrossedIs
  <2>2. \A i : Crossed(r, i, t) <=>
                 legs[i].length > 0 /\ b >= Reach(legs, i - 1) /\ a < Reach(legs, i)
    BY DEF Crossed
  <2>3. \A tick : FacingAt(r, heading, tick) =
                    IF Length(legs) > 0 THEN legs[LegAt(legs, Driven(r, tick))].heading
                    ELSE heading
    BY <1>4 DEF FacingAt, TruthPose
  <2>4. r.node + 1 \in 1..Len(Itinerary) /\ legs = Itinerary[r.node + 1].legs
    BY <1>1, <1>4 DEF Travels, Legs
  <2>5. CASE a < Length(legs)
    <3> DEFINE i == LegAt(legs, b)
    <3>1. /\ i \in 1..n /\ Crossed(r, i, t)
          /\ \A j \in (i + 1)..n : ~Crossed(r, j, t)
      <4>1. /\ i \in 1..Len(Legs(r)) /\ Crossed(r, i, t)
            /\ \A j \in (i + 1)..Len(Legs(r)) : ~Crossed(r, j, t)
        BY <1>4, <2>5, LegUnderWay
      <4> HIDE DEF i, n
      <4>. QED
        BY <2>1, <4>1
    <3> HIDE DEF i
    <3>2. i \in 0..n /\ i > 0
      BY <2>1, <3>1
    <3>3. h = legs[i].heading
      BY <3>1, <3>2, UpdateHeads
    <3>4. Length(legs) > 0
      BY <2>1, <2>5
    <3>. QED
      BY <2>3, <3>3, <3>4 DEF i
  <2>6. CASE ~(a < Length(legs))
    <3>1. r.motion_heading = FacingAt(r, heading, r.odometry_at)
      BY <2>6
    <3>2. Length(legs) <= a /\ Length(legs) <= b
      BY <2>1, <2>6
    <3>3. ASSUME NEW j \in 1..n PROVE ~Crossed(r, j, t)
      <4> DEFINE y == Reach(legs, j)
                 l == Length(legs)
      <4>1. y \in Nat /\ l \in Nat /\ y <= l /\ l <= a /\ a \in Nat
        BY <2>1, <3>2
      <4>2. Crossed(r, j, t) => a < y
        BY <2>2
      <4> HIDE DEF y, l, a
      <4>. QED
        BY <4>1, <4>2
    <3>4. h = r.motion_heading
      BY <1>2, <3>3
    <3>5. Length(legs) > 0 => LegAt(legs, a) = LegAt(legs, b)
      <4> HIDE DEF a, b
      <4>1. a \in Nat /\ b \in Nat
        BY <2>1
      <4>. QED
        BY <2>4, <3>2, <4>1, LastIsDriven
    <3>6. FacingAt(r, heading, r.odometry_at) = FacingAt(r, heading, t)
      BY <2>3, <3>5
    <3>. QED
      BY <3>1, <3>4, <3>6
  <2>. QED
    BY <2>5, <2>6
<1>. QED
  BY <1>3, <1>4 DEF h

\* A point no way along the legs is where they begin.
LEMMA PointAtStart ==
    ASSUME NEW p \in Position, NEW legs \in Seq(RoadLeg)
    PROVE  PointOn(p, legs, 0) = p
<1>1. PICK f : WayTo(f, p, legs, 0)
  <2>1. 0 \in Int
    OBVIOUS
  <2>. QED
    BY <2>1, PointIsReached
<1> DEFINE n == Len(legs)
           T == {k \in Nat : k <= n => f[k] = p}
<1>2. /\ n \in Nat /\ f[0] = p /\ PointOn(p, legs, 0) = f[n]
      /\ \A k \in 1..n :
           f[k] = Shifted(f[k - 1], Times(Within(legs, k, 0), Along(legs[k].heading)))
  BY <1>1 DEF WayTo
<1>3. \A k \in 1..n : Within(legs, k, 0) = 0 /\ Along(legs[k].heading) \in Position
  <2> TAKE k \in 1..n
  <2>1. k - 1 \in 0..n /\ Reach(legs, k - 1) \in Nat /\ 0 \in Int /\ legs[k] \in RoadLeg
    BY <1>2, ReachSums
  <2>2. legs[k].length \in Nat /\ legs[k].heading \in Heading
    BY <2>1 DEF RoadLeg
  <2> DEFINE x == Reach(legs, k - 1)
             l == legs[k].length
  <2>3. Within(legs, k, 0) = IF 0 - x < 0 THEN 0 ELSE IF 0 - x > l THEN l ELSE 0 - x
    BY DEF Within
  <2>4. x \in Nat /\ l \in Nat
    BY <2>1, <2>2
  <2> HIDE DEF x, l
  <2>. QED
    BY <2>2, <2>3, <2>4, VectorTypes
<1>4. 0 \in T
  BY <1>2
<1>5. ASSUME NEW k \in Nat, k \in T PROVE k + 1 \in T
  <2>1. SUFFICES ASSUME k + 1 <= n PROVE f[k + 1] = p
    OBVIOUS
  <2>2. k + 1 \in 1..n /\ (k + 1) - 1 = k /\ f[k] = p
    BY <1>2, <1>5, <2>1
  <2>3. f[k + 1] = Shifted(p, Times(0, Along(legs[k + 1].heading)))
    BY <1>2, <1>3, <2>2
  <2>4. Along(legs[k + 1].heading) \in Position
    BY <1>3, <2>2
  <2>. QED
    BY <2>3, <2>4, NothingMore
<1> HIDE DEF T
<1>6. Nat \subseteq T
  BY <1>4, <1>5, Ind
<1>. QED
  BY <1>2, <1>6 DEF T

(* What dead reckoning has to do with the truth: the robot r is turned the *)
(* way it faced at its last update, and believes to be where the fixes F   *)
(* -- the last one -- carried it by then.                                  *)
Rigid(r, heading, F) ==
    scenario.dead_reckoning =>
        /\ r.motion_heading = FacingAt(r, heading, r.odometry_at)
        /\ \A f \in F : /\ Carries(r, f, PositionAt(r, r.odometry_at))
                        /\ \A e \in r.estimate : e.at = r.odometry_at

\* Position and heading are those of the traversal, whatever is believed.
LEMMA SameWay ==
    ASSUME NEW r, NEW q, q.node = r.node, q.departed_at = r.departed_at,
           q.arrival = r.arrival
    PROVE  \A heading, t : /\ PositionAt(q, t) = PositionAt(r, t)
                           /\ FacingAt(q, heading, t) = FacingAt(r, heading, t)
<1>1. /\ InTransit(q) = InTransit(r) /\ Legs(q) = Legs(r)
      /\ \A t : Driven(q, t) = Driven(r, t)
  BY DEF InTransit, Legs, Driven
<1>. QED
  BY <1>1 DEF PositionAt, FacingAt, TruthPose

\* A robot in order may be updated.
LEMMA InOrderUpdatable ==
    ASSUME scenario.dead_reckoning, NEW now0 \in Nat, NEW r, RobotOK(r, now0),
           NEW t \in Nat, now0 <= t
    PROVE  Updatable(r, t) /\ r.node \in 0..Len(Itinerary)
<1>1. RobotOK(r, t)
  BY RobotLater
<1>. QED
  BY <1>1 DEF RobotOK, Updatable

\* An update keeps belief and truth together.
LEMMA UpdateRigid ==
    ASSUME NoRepeatedEnd, scenario \in Scenarios, NEW now0 \in Nat, NEW r,
           RobotOK(r, now0), NEW t \in Nat, now0 <= t, NEW heading, NEW F,
           F \subseteq Fix,
           scenario.dead_reckoning =>
             /\ \/ r.motion_heading = FacingAt(r, heading, r.odometry_at)
                \/ InTransit(r) /\ Driven(r, r.odometry_at) < Length(Legs(r))
             /\ \A f \in F : Carries(r, f, PositionAt(r, r.odometry_at))
    PROVE  Rigid(AdvanceLocalization(r, t), heading, F)
<1> DEFINE q == AdvanceLocalization(r, t)
<1> SUFFICES ASSUME scenario.dead_reckoning PROVE Rigid(q, heading, F)
  BY DEF Rigid
<1>1. Updatable(r, t) /\ r.node \in 0..Len(Itinerary)
  BY InOrderUpdatable
<1>2. /\ q.node = r.node /\ q.departed_at = r.departed_at /\ q.arrival = r.arrival
      /\ q.odometry_at = t
  BY UpdateKeeps
<1>3. q.motion_heading = FacingAt(r, heading, t)
  BY <1>1, UpdateTurns
<1>4. ASSUME NEW f \in F
      PROVE  Carries(q, f, PositionAt(r, t)) /\ \A e \in q.estimate : e.at = t
  <2>1. f \in Fix /\ Carries(r, f, PositionAt(r, r.odometry_at))
    BY <1>4
  <2>. QED
    BY <1>1, <2>1, UpdateCarries
<1> HIDE DEF q
<1>5. PositionAt(q, t) = PositionAt(r, t) /\ FacingAt(q, heading, t) = FacingAt(r, heading, t)
  BY <1>2, SameWay
<1>. QED
  BY <1>2, <1>3, <1>4, <1>5 DEF Rigid

\* At its arrival the robot is at the next node.
LEMMA ArrivalIs ==
    ASSUME NEW r, Travels(r), InTransit(r)
    PROVE  PositionAt(r, r.arrival) = NodePosition(r.node + 1)
<1>1. r.node + 1 \in 1..Len(Itinerary) /\ (r.node + 1) - 1 = r.node
  BY Fields DEF Travels
<1>2. NodePosition(r.node + 1) =
        PointOn(NodePosition((r.node + 1) - 1), Itinerary[r.node + 1].legs,
                Length(Itinerary[r.node + 1].legs))
  BY <1>1, NodePositions
<1>3. Driven(r, r.arrival) = Length(Legs(r)) /\ Legs(r) = Itinerary[r.node + 1].legs
  BY DrivenIs DEF Legs
<1>. QED
  BY <1>1, <1>2, <1>3 DEF PositionAt

\* Completing a traversal keeps belief and truth together.
LEMMA CompletedRigid ==
    ASSUME NoRepeatedEnd, scenario \in Scenarios, NEW now0 \in Nat, NEW r,
           RobotOK(r, now0), InTransit(r), now0 <= r.arrival, NEW heading, NEW F,
           F \subseteq Fix, Rigid(r, heading, F)
    PROVE  Rigid(Completed(r), FacingAt(r, heading, r.arrival), F)
<1> DEFINE t == r.arrival
           q == AdvanceLocalization(r, t)
           p == Completed(r)
<1> SUFFICES ASSUME scenario.dead_reckoning PROVE Rigid(p, FacingAt(r, heading, t), F)
  BY DEF Rigid
<1>1. t \in Nat /\ r.node \in Nat
  BY Fields DEF RobotOK, Travels
<1>2. Rigid(q, heading, F)
  BY <1>1, UpdateRigid DEF Rigid
<1>3. /\ RobotOK(q, t)
      /\ q.node = r.node /\ q.departed_at = r.departed_at /\ q.arrival = r.arrival
      /\ q.odometry_at = t
  BY <1>1, UpdateKeeps
<1>4. p = [q EXCEPT !.node = @ + 1, !.departed_at = 1, !.arrival = 0]
  BY DEF Completed
<1> HIDE DEF q, p
<1>5. q \in RobotType
  BY <1>3 DEF RobotOK, Travels
<1>6. /\ p.node = r.node + 1 /\ p.departed_at = 1 /\ p.arrival = 0
      /\ p.estimate = q.estimate /\ p.odometry_at = t
      /\ p.motion_heading = q.motion_heading
  BY <1>3, <1>4, <1>5 DEF RobotType
<1>7. ~InTransit(p)
  BY <1>6 DEF InTransit
<1>8. PositionAt(q, t) = PositionAt(r, t) /\ FacingAt(q, heading, t) = FacingAt(r, heading, t)
  BY <1>3, SameWay
<1>9. PositionAt(p, t) = PositionAt(r, t)
  <2>1. PositionAt(p, t) = NodePosition(r.node + 1)
    BY <1>6, <1>7 DEF PositionAt
  <2>2. Travels(r)
    BY DEF RobotOK
  <2>. QED
    BY <2>1, <2>2, ArrivalIs
<1> HIDE DEF t
<1>10. \A h : FacingAt(p, h, t) = h
  BY <1>7 DEF FacingAt, TruthPose
<1>11. /\ q.motion_heading = FacingAt(q, heading, t)
       /\ \A f \in F : /\ Carries(q, f, PositionAt(q, t))
                       /\ \A e \in q.estimate : e.at = t
  BY <1>2, <1>3 DEF Rigid
<1>12. \A f \in F : Carries(p, f, PositionAt(p, t))
  BY <1>6, <1>8, <1>9, <1>11 DEF Carries
<1>. QED
  BY <1>6, <1>8, <1>10, <1>11, <1>12 DEF Rigid

\* So does a departure: the second update finds the robot at the first point.
LEMMA BegunRigid ==
    ASSUME NoRepeatedEnd, scenario \in Scenarios, NEW now0 \in Nat, NEW r,
           RobotOK(r, now0), ~InTransit(r), r.node < Len(Itinerary),
           NEW t \in Nat, now0 <= t, NEW heading, NEW F, F \subseteq Fix,
           Rigid(r, heading, F)
    PROVE  Rigid(Begun(r, t), heading, F)
<1> DEFINE q == AdvanceLocalization(r, t)
           c == Itinerary[r.node + 1].ticks
           d == [q EXCEPT !.departed_at = t, !.arrival = t + c]
           p == AdvanceLocalization(d, t)
<1> SUFFICES ASSUME scenario.dead_reckoning PROVE Rigid(Begun(r, t), heading, F)
  BY DEF Rigid
<1>1. r.node \in Nat /\ r.node + 1 \in 1..Len(Itinerary) /\ r.node \in 0..Len(Itinerary)
  BY Fields DEF RobotOK, Travels
<1>2. c \in Nat \ {0}
  BY <1>1, Traversal
<1>3. /\ RobotOK(q, t) /\ q.node = r.node /\ q.departed_at = r.departed_at
      /\ q.arrival = r.arrival /\ q.odometry_at = t
  BY UpdateKeeps
<1>4. Rigid(q, heading, F)
  BY UpdateRigid DEF Rigid
<1>5. Begun(r, t) = p
  BY DEF Begun
<1> HIDE DEF q, p
<1>6. q \in RobotType
  BY <1>3 DEF RobotOK, Travels
<1>7. /\ d \in RobotType /\ d.node = r.node /\ d.departed_at = t /\ d.arrival = t + c
      /\ d.estimate = q.estimate /\ d.odometry_at = t
      /\ d.motion_heading = q.motion_heading
  <2>1. t + c \in Nat
    BY <1>2
  <2> HIDE DEF c
  <2>. QED
    BY <1>3, <1>6, <2>1 DEF RobotType
<1> HIDE DEF d
<1>8. InTransit(d)
  BY <1>2, <1>7 DEF InTransit
<1>9. RobotOK(d, t)
  BY <1>1, <1>3, <1>7, <1>8 DEF RobotOK, Travels
<1>10. Travels(d)
  BY <1>9 DEF RobotOK
<1>11. /\ Driven(d, t) = 0 /\ Legs(d) \in Seq(RoadLeg) /\ Length(Legs(d)) \in Nat
  BY <1>7, <1>8, <1>10, DrivenIs
<1>12. PositionAt(d, t) = NodePosition(r.node) /\ PositionAt(q, t) = NodePosition(r.node)
  <2>1. NodePosition(r.node) \in Position
    BY <1>1, NodePositions
  <2>2. PointOn(NodePosition(r.node), Legs(d), 0) = NodePosition(r.node)
    BY <1>11, <2>1, PointAtStart
  <2>3. ~InTransit(q)
    BY <1>3 DEF InTransit
  <2>. QED
    BY <1>3, <1>7, <1>8, <1>11, <2>2, <2>3 DEF PositionAt
<1>13. /\ q.motion_heading = heading
       /\ \A f \in F : Carries(q, f, PositionAt(q, t))
  <2>1. ~InTransit(q)
    BY <1>3 DEF InTransit
  <2>2. FacingAt(q, heading, t) = heading
    BY <2>1 DEF FacingAt, TruthPose
  <2>. QED
    BY <1>3, <1>4, <2>2 DEF Rigid
<1>14. \A f \in F : Carries(d, f, PositionAt(d, d.odometry_at))
  BY <1>7, <1>12, <1>13 DEF Carries
<1>15. \/ d.motion_heading = FacingAt(d, heading, d.odometry_at)
       \/ InTransit(d) /\ Driven(d, d.odometry_at) < Length(Legs(d))
  <2>1. CASE Length(Legs(d)) = 0
    BY <1>7, <1>13, <2>1 DEF FacingAt, TruthPose
  <2>2. CASE Length(Legs(d)) > 0
    BY <1>7, <1>8, <1>11, <2>2
  <2>. QED
    BY <1>11, <2>1, <2>2
<1>16. Rigid(p, heading, F)
  <2>1. t <= t
    OBVIOUS
  <2>. QED
    BY <1>9, <1>14, <1>15, <2>1, UpdateRigid DEF p
<1>. QED
  BY <1>5, <1>16

RigidInv == Rigid(robot, rest_heading, atFix)

\* The invariant of the next state, by its parts.
LEMMA NextRigid ==
    ASSUME NEW r, NEW heading, NEW F, Rigid(r, heading, F),
           robot' = r, rest_heading' = heading, atFix' = F, scenario' = scenario
    PROVE  RigidInv'
BY DEF RigidInv, Rigid

\* A robot that is at a node believes what it should there.
LEMMA AtNodeRigid ==
    ASSUME NoRepeatedEnd, TypeInv, CourseInv, RigidInv, Pop("advance")
    PROVE  Rigid(AtNode(Due).robot, AtNode(Due).heading, atFix)
<1>1. CASE ~InTransit(robot)
  BY <1>1 DEF AtNode, RigidInv
<1>2. CASE InTransit(robot)
  <2>1. /\ Due = robot.arrival /\ Due \in Nat /\ now \in Nat /\ now <= Due
        /\ RobotOK(robot, now) /\ scenario \in Scenarios /\ atFix \subseteq Fix
    BY <1>2, PoppedIs, QueueIs DEF TypeInv, CourseInv, Fix
  <2>2. AtNode(Due) = [robot |-> Completed(robot),
                       heading |-> FacingAt(robot, rest_heading, Due)]
    BY <1>2 DEF AtNode, FacingAt
  <2>3. Rigid(Completed(robot), FacingAt(robot, rest_heading, robot.arrival), atFix)
    BY <1>2, <2>1, CompletedRigid DEF RigidInv
  <2>. QED
    BY <2>1, <2>2, <2>3
<1>. QED
  BY <1>1, <1>2

\* Where a robot believes it is that has just got a fix.
LEMMA FreshFix ==
    ASSUME NEW f \in Fix
    PROVE  /\ f.believed.position = Carried(f, f.true.position)
           /\ f.believed.heading = (f.true.heading + Turn(f)) % 4
<1> DEFINE b == f.believed.heading
           m == f.true.heading
           p == f.true.position
           q == f.believed.position
<1>1. b \in Heading /\ m \in Heading /\ p \in Position /\ q \in Position
  BY DEF Fix, Pose
<1>2. Turn(f) \in Heading
  BY <1>1, CarriedMoves
<1>3. (m + ((b - m) % 4)) % 4 = b
  BY <1>1, TurnAround DEF Heading
<1>4. Carried(f, p) = Shifted(q, Rotated(Turn(f), Shifted(p, Times(-1, p))))
  BY DEF Carried
<1>5. Shifted(p, Times(-1, p)) = <<0, 0>> /\ Shifted(q, <<0, 0>>) = q
  BY <1>1, NothingMore
<1>6. Rotated(Turn(f), <<0, 0>>) = <<0, 0>>
  <2> DEFINE o == <<0, 0>>
             turn == Turn(f)
  <2>1. o \in Position /\ o[1] = 0 /\ o[2] = 0 /\ -o[1] = 0 /\ -o[2] = 0
    <3>1. \A x \in Int : x + x = x => -x = x
      OBVIOUS
    <3>2. o \in Position /\ o[1] = 0 /\ o[2] = 0
      BY DEF Position
    <3>3. o[1] \in Int /\ o[2] \in Int
      OBVIOUS
    <3>4. o[1] + o[1] = o[1] /\ o[2] + o[2] = o[2]
      OBVIOUS
    <3> HIDE DEF o
    <3>5. -o[1] = o[1] /\ -o[2] = o[2]
      BY <3>1, <3>3, <3>4
    <3>. QED
      BY <3>2, <3>5
  <2>2. turn = 0 \/ turn = 1 \/ turn = 2 \/ turn = 3
    BY <1>2 DEF Heading
  <2> HIDE DEF turn, o
  <2>3. Rotated(turn, o) = <<0, 0>>
    BY <1>2, <2>1, <2>2, RotatedIs DEF turn
  <2>. QED
    BY <2>3 DEF turn, o
<1>. QED
  BY <1>3, <1>4, <1>5, <1>6 DEF Turn

\* A sample keeps belief and truth together, and a fix puts them so.
LEMMA SampleRigid ==
    ASSUME NoRepeatedEnd, TypeInv, CourseInv, RigidInv, NEW fix, SampleGnss(fix)
    PROVE  RigidInv'
<1> DEFINE r == AdvanceLocalization(robot, Due)
           truth == TruthPose(robot, rest_heading, Due)
<1>1. /\ RobotOK(r, Due) /\ r.node = robot.node /\ r.departed_at = robot.departed_at
      /\ r.arrival = robot.arrival /\ rest_heading' = rest_heading /\ truth \in Pose
      /\ NoFix(r) \/ \E e \in Pose : e.at = Due /\ Fixed(r, e, truth)
  BY SampleIs
<1>2. /\ Due \in Nat /\ now \in Nat /\ now <= Due /\ RobotOK(robot, now)
      /\ scenario \in Scenarios /\ atFix \subseteq Fix
  BY QueueIs DEF TypeInv, CourseInv, Fix
<1>3. Rigid(r, rest_heading, atFix)
  BY <1>2, UpdateRigid DEF RigidInv, Rigid
<1>4. scenario' = scenario
  BY DEF SampleGnss, Pop
<1>5. scenario.dead_reckoning => r.odometry_at = Due
  BY <1>2, UpdateKeeps
<1>6. /\ PositionAt(r, Due) = truth.position
      /\ FacingAt(r, rest_heading, Due) = truth.heading
  <2>1. /\ PositionAt(robot, Due) = truth.position
        /\ FacingAt(robot, rest_heading, Due) = truth.heading
    BY DEF PositionAt, FacingAt, TruthPose
  <2> HIDE DEF r, truth
  <2>. QED
    BY <1>1, <2>1, SameWay
<1> HIDE DEF r, truth
<1>7. r \in RobotType
  BY <1>1 DEF RobotOK, Travels
<1>8. CASE NoFix(r)
  <2> DEFINE p == [r EXCEPT !.missed = @ + 1]
  <2>1. robot' = p /\ atFix' = atFix
    BY <1>8 DEF NoFix
  <2>2. /\ p.node = r.node /\ p.departed_at = r.departed_at /\ p.arrival = r.arrival
        /\ p.estimate = r.estimate /\ p.odometry_at = r.odometry_at
        /\ p.motion_heading = r.motion_heading
    BY <1>7 DEF RobotType
  <2> HIDE DEF p
  <2>3. \A h, t : PositionAt(p, t) = PositionAt(r, t) /\ FacingAt(p, h, t) = FacingAt(r, h, t)
    BY <2>2, SameWay
  <2>4. Rigid(p, rest_heading, atFix)
    BY <1>3, <2>2, <2>3 DEF Rigid, Carries
  <2>. QED
    BY <1>1, <1>4, <2>1, <2>4, NextRigid
<1>9. CASE \E e \in Pose : e.at = Due /\ Fixed(r, e, truth)
  <2>1. PICK e \in Pose : e.at = Due /\ Fixed(r, e, truth)
    BY <1>9
  <2> DEFINE p == [r EXCEPT !.estimate = {e}, !.last_fix_at = {Due},
                            !.dead_reckoned = FALSE, !.missed = 0]
             f == [believed |-> e, true |-> truth]
             F == {f}
  <2>2. robot' = p /\ atFix' = F
    BY <2>1 DEF Fixed
  <2>3. /\ p.node = r.node /\ p.departed_at = r.departed_at /\ p.arrival = r.arrival
        /\ p.estimate = {e} /\ p.odometry_at = r.odometry_at
        /\ p.motion_heading = r.motion_heading
    BY <1>7 DEF RobotType
  <2>4. f \in Fix /\ f.believed = e /\ f.true = truth
    BY <1>1 DEF Fix
  <2> HIDE DEF p, f
  <2>5. \A h, t : PositionAt(p, t) = PositionAt(r, t) /\ FacingAt(p, h, t) = FacingAt(r, h, t)
    BY <2>3, SameWay
  <2>6. e.position = Carried(f, truth.position) /\ e.heading = (truth.heading + Turn(f)) % 4
    BY <2>4, FreshFix
  <2>7. ASSUME scenario.dead_reckoning
        PROVE  /\ p.odometry_at = Due /\ p.motion_heading = FacingAt(p, rest_heading, Due)
               /\ p.motion_heading = truth.heading /\ PositionAt(p, Due) = truth.position
    BY <1>3, <1>5, <1>6, <2>3, <2>5, <2>7 DEF Rigid
  <2>8. ASSUME scenario.dead_reckoning
        PROVE  /\ Carries(p, f, PositionAt(p, p.odometry_at))
               /\ \A x \in p.estimate : x.at = p.odometry_at
    <3>1. Carries(p, f, PositionAt(p, Due))
      BY <2>3, <2>6, <2>7, <2>8 DEF Carries
    <3>. QED
      BY <2>1, <2>3, <2>7, <2>8, <3>1
  <2>9. Rigid(p, rest_heading, F)
    BY <2>7, <2>8 DEF Rigid
  <2> HIDE DEF F
  <2>. QED
    BY <1>1, <1>4, <2>2, <2>9, NextRigid
<1>. QED
  BY <1>1, <1>8, <1>9

(* Dead reckoning carries the error of the last fix along and adds none    *)
(* (ADR-019, odometry.cpp:68-103), however the legs, arrivals, waits and   *)
(* departures fell between its updates, if no polyline ends in a repeated  *)
(* point.  The invariant adds that the heading of motion is the true one   *)
(* of the last update, at a node too.                                      *)
THEOREM BeliefStaysRigid ==
    ASSUME NoRepeatedEnd PROVE Spec => []BeliefIsRigid
<1>1. Init => RigidInv
  <2> SUFFICES ASSUME Init PROVE RigidInv
    OBVIOUS
  <2>1. /\ robot = Fresh /\ rest_heading = 0 /\ atFix = {}
        /\ robot.motion_heading = 0 /\ robot.departed_at = 1 /\ robot.arrival = 0
    BY DEF Init, Fresh
  <2>2. ~InTransit(robot)
    BY <2>1 DEF InTransit
  <2>. QED
    BY <2>1, <2>2 DEF RigidInv, Rigid, FacingAt, TruthPose
<1>2. TypeInv /\ CourseInv /\ RigidInv /\ [Next]_vars => RigidInv'
  <2> SUFFICES ASSUME TypeInv, CourseInv, RigidInv, [Next]_vars PROVE RigidInv'
    OBVIOUS
  <2> DEFINE s == AtNode(Due)
  <2>1. CASE Depart
    <3>1. /\ Pop("advance") /\ s.robot.node < Len(Itinerary) /\ atFix' = atFix
          /\ robot' = Begun(s.robot, Due) /\ rest_heading' = s.heading
          /\ scenario' = scenario
      BY <2>1 DEF Depart, Due, Pop
    <3>2. /\ RobotOK(s.robot, Due) /\ ~InTransit(s.robot) /\ Due \in Nat
          /\ scenario \in Scenarios /\ Due <= Due /\ atFix \subseteq Fix
      BY <3>1, AtNodeIs, QueueIs DEF TypeInv, Fix
    <3>3. Rigid(s.robot, s.heading, atFix)
      BY <3>1, AtNodeRigid
    <3> HIDE DEF s
    <3>4. Rigid(Begun(s.robot, Due), s.heading, atFix)
      BY <3>1, <3>2, <3>3, BegunRigid
    <3>. QED
      BY <3>1, <3>4, NextRigid
  <2>2. CASE Park \/ EndChain
    <3>1. /\ Pop("advance") /\ robot' = s.robot /\ rest_heading' = s.heading
          /\ atFix' = atFix /\ scenario' = scenario
      BY <2>2 DEF Park, EndChain, Due, Pop
    <3>2. Rigid(s.robot, s.heading, atFix)
      BY <3>1, AtNodeRigid
    <3>. QED
      BY <3>1, <3>2, NextRigid
  <2>3. CASE \E fix \in Measurements(model, TruthPose(robot, rest_heading, Head(queue).at)) :
               SampleGnss(fix)
    BY <2>3, SampleRigid
  <2>4. CASE SetGnssModel
    BY <2>4 DEF SetGnssModel, Pop, RigidInv, Rigid
  <2>5. CASE \/ Return
             \/ \E horizon \in Horizons : RunUntil(horizon)
             \/ \E m \in Injections, at \in UNION {0..horizon : horizon \in Horizons} :
                  Inject(m, at)
             \/ UNCHANGED vars
    BY <2>5, CallerKeeps DEF RigidInv, Rigid
  <2>. QED
    BY <2>1, <2>2, <2>3, <2>4, <2>5 DEF Next, HandleEvent
<1>3. TypeInv /\ CourseInv /\ RigidInv => BeliefIsRigid
  <2> SUFFICES ASSUME RigidInv, scenario.dead_reckoning,
                      NEW e \in robot.estimate, NEW f \in atFix, e.at = now
               PROVE  LET truth == TruthPose(robot, rest_heading, now)
                          turn  == (f.believed.heading - f.true.heading) % 4
                          moved == Shifted(truth.position, Times(-1, f.true.position))
                      IN  /\ e.heading = (truth.heading + turn) % 4
                          /\ e.position = Shifted(f.believed.position,
                                                  Rotated(turn, moved))
    BY DEF BeliefIsRigid
  <2>1. /\ robot.motion_heading = FacingAt(robot, rest_heading, now)
        /\ e.position = Carried(f, PositionAt(robot, now))
        /\ e.heading = (robot.motion_heading + Turn(f)) % 4
    BY DEF RigidInv, Rigid, Carries
  <2>2. TruthPose(robot, rest_heading, now).position = PositionAt(robot, now)
    BY DEF TruthPose, PositionAt
  <2>. QED
    BY <2>1, <2>2 DEF FacingAt, Carried, Turn
<1>. QED
  BY <1>1, <1>2, <1>3, CourseHolds, PTL DEF Spec

-----------------------------------------------------------------------------
(* Which model rules.                                                      *)

\* The switches of q due by t.
DueIn(q, t) == {i \in 1..Len(q) : q[i].kind = "switch" /\ q[i].at <= t}

\* The last of them sets the model x, or there is none and x is m.
Foreseen(q, m, t, x) ==
    \/ DueIn(q, t) = {} /\ x = m
    \/ \E k \in DueIn(q, t) : (\A i \in DueIn(q, t) : i <= k) /\ x = q[k].model

\* A switch never stands behind a sample of its tick.
SwitchesFirst(q) ==
    \A i, j \in 1..Len(q) :
        i < j /\ q[i].kind = "sample" /\ q[j].kind = "switch" => q[i].at < q[j].at

\* What is first in a queue, and what is behind it.
LEMMA TailIs ==
    ASSUME NEW q \in Seq(Event), q # <<>>
    PROVE  /\ Len(q) \in Nat /\ Len(q) >= 1 /\ Head(q) = q[1] /\ q[1] \in Event
           /\ Tail(q) \in Seq(Event) /\ Len(Tail(q)) = Len(q) - 1
           /\ \A i \in 1..Len(Tail(q)) : Tail(q)[i] = q[i + 1]
OBVIOUS

\* Popping the first event leaves what is foreseen from its tick on.
LEMMA TailForeseen ==
    ASSUME NEW q \in Seq(Event), q # <<>>, NEW m, NEW x, NEW t \in Nat,
           Foreseen(q, m, t, x)
    PROVE  /\ Head(q).kind = "switch" /\ Head(q).at <= t =>
                Foreseen(Tail(q), Head(q).model, t, x)
           /\ Head(q).kind # "switch" => Foreseen(Tail(q), m, t, x)
<1> DEFINE rest == Tail(q)
           n == Len(q)
           D == DueIn(q, t)
           E == DueIn(rest, t)
<1>1. /\ n \in Nat /\ n >= 1 /\ Head(q) = q[1] /\ Len(rest) = n - 1
      /\ \A i \in 1..(n - 1) : rest[i] = q[i + 1]
  BY TailIs
<1>2. \A i : i \in D <=> i \in 1..n /\ q[i].kind = "switch" /\ q[i].at <= t
  BY DEF DueIn
<1>3. \A i : i \in E <=> i \in 1..(n - 1) /\ rest[i].kind = "switch" /\ rest[i].at <= t
  BY <1>1 DEF DueIn
<1> HIDE DEF rest, n, D, E
<1>4. \A i \in E : i + 1 \in D /\ rest[i] = q[i + 1]
  BY <1>1, <1>2, <1>3
<1>5. \A i \in D : i = 1 \/ (i - 1 \in E /\ rest[i - 1] = q[i])
  <2> TAKE i \in D
  <2>1. i \in 1..n /\ (i # 1 => i - 1 \in 1..(n - 1) /\ (i - 1) + 1 = i)
    BY <1>1, <1>2
  <2>. QED
    BY <1>1, <1>2, <1>3, <2>1
<1>6. D \subseteq Nat /\ E \subseteq Nat
  BY <1>1, <1>2, <1>3
<1>7. ASSUME NEW k \in D, \A i \in D : i <= k, k # 1, x = q[k].model, NEW o
      PROVE  Foreseen(rest, o, t, x)
  <2>1. k - 1 \in E /\ rest[k - 1] = q[k]
    BY <1>5, <1>7
  <2>2. \A i \in E : i <= k - 1
    BY <1>4, <1>6, <1>7
  <2>. QED
    BY <1>7, <2>1, <2>2 DEF Foreseen, E
<1>8. CASE D = {}
  <2>1. E = {} /\ x = m
    BY <1>4, <1>8 DEF Foreseen, D
  <2>2. ~(Head(q).kind = "switch" /\ Head(q).at <= t)
    BY <1>1, <1>2, <1>8
  <2>. QED
    BY <2>1, <2>2 DEF Foreseen, E, rest
<1>9. CASE \E k \in D : (\A i \in D : i <= k) /\ x = q[k].model
  <2>1. PICK k \in D : (\A i \in D : i <= k) /\ x = q[k].model
    BY <1>9
  <2>2. CASE k # 1
    <3>1. \A o : Foreseen(rest, o, t, x)
      BY <1>7, <2>1, <2>2
    <3>. QED
      BY <3>1 DEF rest
  <2>3. CASE k = 1
    <3>1. Head(q).kind = "switch" /\ x = Head(q).model
      BY <1>1, <1>2, <2>1, <2>3
    <3>2. E = {}
      <4>1. SUFFICES ASSUME NEW i \in E PROVE FALSE
        OBVIOUS
      <4>2. i + 1 <= 1 /\ i \in 1..(n - 1)
        BY <1>3, <1>4, <2>1, <2>3
      <4>. QED
        BY <1>1, <4>2
    <3>. QED
      BY <3>1, <3>2 DEF Foreseen, E, rest
  <2>. QED
    BY <2>2, <2>3
<1>. QED
  BY <1>8, <1>9 DEF Foreseen, D

\* So does popping leave switches before samples.
LEMMA TailSwitchesFirst ==
    ASSUME NEW q \in Seq(Event), q # <<>>, SwitchesFirst(q)
    PROVE  SwitchesFirst(Tail(q))
<1> DEFINE rest == Tail(q)
           n == Len(q)
<1>1. /\ n \in Nat /\ n >= 1 /\ Len(rest) = n - 1
      /\ \A i \in 1..(n - 1) : rest[i] = q[i + 1]
  BY TailIs
<1> HIDE DEF rest, n
<1>2. \A i \in 1..(n - 1) : i + 1 \in 1..n
  BY <1>1
<1>3. \A i, j \in 1..(n - 1) : i < j => i + 1 < j + 1
  BY <1>1
<1>. QED
  BY <1>1, <1>2, <1>3 DEF SwitchesFirst, n, rest

\* A sample that is first is taken with the model foreseen for its tick.
LEMMA SampleForeseen ==
    ASSUME NEW q \in Seq(Event), q # <<>>, SwitchesFirst(q), Head(q).kind = "sample",
           NEW m, NEW x, Foreseen(q, m, Head(q).at, x)
    PROVE  x = m
<1> DEFINE t == Head(q).at
           n == Len(q)
<1>1. n \in Nat /\ n >= 1 /\ Head(q) = q[1]
  BY TailIs
<1>2. \A i \in 1..n : q[i].at \in Nat
  BY EventTicks
<1>3. DueIn(q, t) = {}
  <2>1. SUFFICES ASSUME NEW i \in DueIn(q, t) PROVE FALSE
    OBVIOUS
  <2>2. i \in 1..n /\ q[i].kind = "switch" /\ q[i].at <= t
    BY DEF DueIn
  <2>3. i # 1
    BY <1>1, <2>2
  <2>4. 1 \in 1..n /\ 1 < i
    BY <1>1, <2>2, <2>3
  <2>5. t < q[i].at
    BY <1>1, <2>2, <2>4 DEF SwitchesFirst
  <2>. QED
    BY <1>1, <1>2, <2>2, <2>4, <2>5
<1>. QED
  BY <1>3 DEF Foreseen

\* An event that is no switch changes nothing of what is foreseen.
LEMMA PushForeseen ==
    ASSUME NEW q \in Seq(Event), NEW p, NEW e \in Event, NEW place,
           Inserted(q, p, e, place), e.kind # "switch",
           NEW m, NEW x, NEW t, Foreseen(q, m, t, x)
    PROVE  Foreseen(p, m, t, x)
<1> DEFINE D == DueIn(q, t)
           E == DueIn(p, t)
<1>1. Len(q) \in Nat /\ Len(p) = Len(q) + 1 /\ place \in 1..Len(p) /\ p[place] = e
  BY NewIs
<1>2. \A i : i \in D <=> (i \in 1..Len(q) /\ q[i].kind = "switch" /\ q[i].at <= t)
  BY DEF DueIn
<1>3. \A i : i \in E <=> (i \in 1..Len(p) /\ p[i].kind = "switch" /\ p[i].at <= t)
  BY DEF DueIn
<1> HIDE DEF D, E
<1>4. ASSUME NEW i \in D PROVE Moved(i, place) \in E /\ p[Moved(i, place)] = q[i]
  <2>1. i \in 1..Len(q)
    BY <1>2
  <2>2. Moved(i, place) \in 1..Len(p) /\ p[Moved(i, place)] = q[i]
    BY <2>1, MovedIs
  <2>. QED
    BY <1>2, <1>3, <2>2
<1>5. ASSUME NEW j \in E PROVE \E i \in D : j = Moved(i, place)
  <2>1. j \in 1..Len(p) /\ j # place
    BY <1>1, <1>3
  <2>2. PICK i \in 1..Len(q) : j = Moved(i, place)
    BY <2>1, MovedFrom
  <2>3. p[j] = q[i]
    BY <2>2, MovedIs
  <2>4. i \in D
    BY <1>2, <1>3, <2>3
  <2>. QED
    BY <2>2, <2>4
<1>7. CASE D = {}
  BY <1>5, <1>7 DEF Foreseen, D, E
<1>8. CASE \E k \in D : (\A i \in D : i <= k) /\ x = q[k].model
  <2>1. PICK k \in D : (\A i \in D : i <= k) /\ x = q[k].model
    BY <1>8
  <2>2. Moved(k, place) \in E /\ x = p[Moved(k, place)].model
    BY <1>4, <2>1
  <2>3. ASSUME NEW j \in E PROVE j <= Moved(k, place)
    <3>1. PICK i \in D : j = Moved(i, place)
      BY <1>5
    <3>2. i \in Nat /\ k \in Nat /\ place \in Nat /\ i <= k
      BY <1>1, <1>2, <2>1
    <3>. QED
      BY <3>1, <3>2, MovedInOrder
  <2>. QED
    BY <2>2, <2>3 DEF Foreseen, E
<1>. QED
  BY <1>7, <1>8 DEF Foreseen, D

\* Nor does it come between a switch and a sample of its tick.
LEMMA PushSwitchesFirst ==
    ASSUME NEW q \in Seq(Event), NEW p, NEW e \in Event, NEW place,
           Inserted(q, p, e, place), e.kind # "switch", SwitchesFirst(q)
    PROVE  SwitchesFirst(p)
<1>1. Len(q) \in Nat /\ Len(p) = Len(q) + 1 /\ place \in 1..Len(p) /\ p[place] = e
  BY NewIs
<1>2. SUFFICES ASSUME NEW i \in 1..Len(p), NEW j \in 1..Len(p), i < j,
                      p[i].kind = "sample", p[j].kind = "switch"
               PROVE  p[i].at < p[j].at
  BY DEF SwitchesFirst
<1>3. PICK b \in 1..Len(q) : j = Moved(b, place)
  BY <1>1, <1>2, MovedFrom
<1>4. p[j] = q[b] /\ (~(b < place) => e.at < q[b].at)
  BY <1>3, MovedIs
<1>5. CASE i = place
  <2>1. ~(b < place)
    BY <1>1, <1>2, <1>3, <1>5, MovedInOrder
  <2>. QED
    BY <1>1, <1>4, <1>5, <2>1
<1>6. CASE i # place
  <2>1. PICK a \in 1..Len(q) : i = Moved(a, place)
    BY <1>6, MovedFrom
  <2>2. a < b
    BY <1>1, <1>2, <1>3, <2>1, MovedInOrder
  <2>3. p[i] = q[a]
    BY <2>1, MovedIs
  <2>. QED
    BY <1>2, <1>4, <2>2, <2>3 DEF SwitchesFirst
<1>. QED
  BY <1>5, <1>6

(* What the first k events scheduled, in the order in which they are, say  *)
(* of tick t: the last of the switches due, of its tick the last scheduled.*)
DueOf(es, k, t) == {j \in 1..k : es[j].kind = "switch" /\ es[j].at <= t}

Latest(es, S, j) ==
    /\ j \in S
    /\ \A i \in S : es[i].at < es[j].at \/ (es[i].at = es[j].at /\ i <= j)

\* The agenda q foresees of tick t what they say.
AsScheduled(q, es, k, t) ==
    \/ DueIn(q, t) = {} /\ DueOf(es, k, t) = {}
    \/ \E i \in DueIn(q, t), j \in DueOf(es, k, t) :
          /\ \A h \in DueIn(q, t) : h <= i
          /\ Latest(es, DueOf(es, k, t), j)
          /\ q[i] = es[j]

\* It still does when the next of them is pushed.
LEMMA ScheduleNext ==
    ASSUME NEW es \in Seq(Event), NEW k \in 1..Len(es), NEW q \in Seq(Event), NEW t \in Nat,
           AsScheduled(q, es, k - 1, t),
           NEW e \in Event, e = es[k], NEW p, NEW place, Inserted(q, p, e, place)
    PROVE  AsScheduled(p, es, k, t)
<1> DEFINE n == Len(q)
           D == DueIn(q, t)
           E == DueIn(p, t)
           A == DueOf(es, k - 1, t)
           B == DueOf(es, k, t)
<1>1. /\ n \in Nat /\ place \in 1..(n + 1) /\ Len(p) = n + 1 /\ p[place] = e
      /\ \A j \in 1..(n + 1) : j = place \/ \E i \in 1..n : j = Moved(i, place)
  <2>1. Len(q) \in Nat /\ Len(p) = Len(q) + 1 /\ place \in 1..Len(p) /\ p[place] = e
    BY NewIs
  <2>2. \A j \in 1..Len(p) : j = place \/ \E i \in 1..Len(q) : j = Moved(i, place)
    BY MovedFrom
  <2>. QED
    BY <2>1, <2>2
<1>0. \A i \in 1..n : /\ Moved(i, place) \in 1..(n + 1)
                      /\ p[Moved(i, place)] = q[i]
                      /\ (i < place => q[i].at <= e.at)
                      /\ (~(i < place) => e.at < q[i].at)
  <2>1. MovedOver(q, p, e, place)
    BY AllMoved
  <2>. QED
    BY <1>1, <2>1 DEF MovedOver
<1>2. /\ e \in Event /\ e.at \in Nat /\ k \in Nat /\ \A i \in 1..n : q[i].at \in Nat
      /\ \A i \in 1..k : es[i].at \in Nat
  BY EventTicks
<1>3. \A i : i \in D <=> (i \in 1..n /\ q[i].kind = "switch" /\ q[i].at <= t)
  BY DEF DueIn
<1>4. \A i : i \in E <=> (i \in 1..(n + 1) /\ p[i].kind = "switch" /\ p[i].at <= t)
  BY <1>1 DEF DueIn
<1>5. /\ \A j : j \in A <=> (j \in 1..(k - 1) /\ es[j].kind = "switch" /\ es[j].at <= t)
      /\ \A j : j \in B <=> (j \in 1..k /\ es[j].kind = "switch" /\ es[j].at <= t)
  BY DEF DueOf
<1>6. (e.kind = "switch" /\ e.at <= t) <=> k \in B
  BY <1>2, <1>5
<1>7. AsScheduled(p, es, k, t) <=>
        \/ E = {} /\ B = {}
        \/ \E i \in E, j \in B : (\A h \in E : h <= i) /\ Latest(es, B, j) /\ p[i] = es[j]
  BY DEF AsScheduled
<1>8. \/ D = {} /\ A = {}
      \/ \E i \in D, j \in A : (\A h \in D : h <= i) /\ Latest(es, A, j) /\ q[i] = es[j]
  BY DEF AsScheduled
<1> HIDE DEF n, D, E, A, B
<1>9. /\ \A i \in D : Moved(i, place) \in E /\ p[Moved(i, place)] = q[i] /\ i \in 1..n
      /\ \A i, h \in D : h <= i => Moved(h, place) <= Moved(i, place)
  <2>1. ASSUME NEW i \in D
        PROVE  Moved(i, place) \in E /\ p[Moved(i, place)] = q[i] /\ i \in 1..n
    <3>1. i \in 1..n /\ Moved(i, place) \in 1..(n + 1) /\ p[Moved(i, place)] = q[i]
      BY <1>0, <1>3
    <3>. QED
      BY <1>3, <1>4, <3>1
  <2>2. place \in Nat /\ \A i \in D : i \in Nat
    BY <1>1, <1>3
  <2>. QED
    BY <2>1, <2>2, MovedInOrder
<1>10. \A h \in E : \/ h = place /\ e.kind = "switch" /\ e.at <= t
                    \/ \E i \in D : h = Moved(i, place)
  <2> TAKE h \in E
  <2>1. CASE h = place
    BY <1>1, <1>4, <2>1
  <2>2. CASE h # place
    <3>1. PICK i \in 1..n : h = Moved(i, place)
      BY <1>1, <1>4, <2>2
    <3>2. p[h] = q[i]
      BY <1>0, <3>1
    <3>3. i \in D
      BY <1>3, <1>4, <3>2
    <3>. QED
      BY <3>1, <3>3
  <2>. QED
    BY <2>1, <2>2
<1>11. (\A j \in B : j = k \/ j \in A) /\ A \subseteq B /\ k \notin A
  <2>1. \A j \in 1..k : j = k \/ j \in 1..(k - 1)
    BY <1>2
  <2>2. \A j \in 1..(k - 1) : j \in 1..k /\ j # k
    BY <1>2
  <2>. QED
    BY <1>5, <2>1, <2>2
<1>12. CASE k \notin B
  <2>1. B = A
    BY <1>11, <1>12
  <2>2. \A h \in E : \E i \in D : h = Moved(i, place)
    BY <1>6, <1>10, <1>12
  <2>3. CASE D = {} /\ A = {}
    BY <1>7, <2>1, <2>2, <2>3
  <2>4. CASE \E i \in D, j \in A : (\A h \in D : h <= i) /\ Latest(es, A, j) /\ q[i] = es[j]
    <3>1. PICK i \in D, j \in A : (\A h \in D : h <= i) /\ Latest(es, A, j) /\ q[i] = es[j]
      BY <2>4
    <3>2. /\ Moved(i, place) \in E /\ p[Moved(i, place)] = es[j] /\ j \in B /\ Latest(es, B, j)
          /\ \A h \in E : h <= Moved(i, place)
      BY <1>9, <2>1, <2>2, <3>1
    <3>. QED
      BY <1>7, <3>2
  <2>. QED
    BY <1>8, <2>3, <2>4
<1>13. CASE k \in B
  <2>1. place \in E /\ e.kind = "switch" /\ e.at <= t
    BY <1>1, <1>4, <1>6, <1>13
  <2>2. ASSUME \A h \in D : h < place,
               \A j \in A : es[j].at <= e.at
        PROVE  AsScheduled(p, es, k, t)
    <3>1. \A h \in E : h <= place
      <4> TAKE h \in E
      <4>1. CASE h = place
        BY <1>1, <4>1
      <4>2. CASE \E i \in D : h = Moved(i, place)
        <5>1. PICK i \in D : h = Moved(i, place)
          BY <4>2
        <5>2. i < place /\ h = i /\ i \in Nat /\ place \in Nat
          BY <1>1, <1>9, <2>2, <5>1 DEF Moved
        <5>. QED
          BY <5>2
      <4>. QED
        BY <1>10, <4>1, <4>2
    <3>2. Latest(es, B, k)
      <4>1. ASSUME NEW j \in B
            PROVE  es[j].at < es[k].at \/ (es[j].at = es[k].at /\ j <= k)
        <5>1. es[j].at <= es[k].at
          BY <1>2, <1>11, <2>2
        <5>2. j <= k /\ es[j].at \in Nat /\ es[k].at \in Nat
          BY <1>2, <1>5
        <5>. QED
          BY <5>1, <5>2
      <4>. QED
        BY <1>13, <4>1 DEF Latest
    <3>. QED
      BY <1>1, <1>7, <1>13, <2>1, <3>1, <3>2
  <2>3. CASE D = {} /\ A = {}
    BY <2>2, <2>3
  <2>4. CASE \E i \in D, j \in A : (\A h \in D : h <= i) /\ Latest(es, A, j) /\ q[i] = es[j]
    <3>1. PICK i \in D, j \in A : (\A h \in D : h <= i) /\ Latest(es, A, j) /\ q[i] = es[j]
      BY <2>4
    <3>2. /\ i \in 1..n /\ q[i].at \in Nat /\ e.at \in Nat
          /\ \A h \in D : h \in Nat
          /\ \A b \in A : es[b].at \in Nat /\ b \in Nat /\ b <= k - 1
      BY <1>2, <1>3, <1>5, <1>11, <3>1
    <3>3. CASE q[i].at <= e.at
      <4>1. i < place /\ place \in Nat
        BY <1>0, <1>1, <3>2, <3>3
      <4>2. \A h \in D : h < place
        BY <3>1, <3>2, <4>1
      <4>3. \A b \in A : es[b].at <= e.at
        <5> TAKE b \in A
        <5>1. es[b].at <= es[j].at /\ es[j].at <= e.at
          BY <3>1, <3>2, <3>3 DEF Latest
        <5>. QED
          BY <3>1, <3>2, <5>1
      <4>. QED
        BY <2>2, <4>2, <4>3
    <3>4. CASE ~(q[i].at <= e.at)
      <4>1. /\ Moved(i, place) \in E /\ p[Moved(i, place)] = es[j] /\ j \in B
            /\ Moved(i, place) = i + 1 /\ place <= i
        <5>1. ~(i < place)
          BY <1>0, <3>2, <3>4
        <5>2. i \in Nat /\ place \in Nat
          BY <1>1, <3>2
        <5>3. Moved(i, place) = i + 1 /\ place <= i
          BY <5>1, <5>2, MovedInOrder
        <5>. QED
          BY <1>9, <1>11, <3>1, <5>3
      <4>2. \A h \in E : h <= Moved(i, place)
        <5> TAKE h \in E
        <5>1. CASE h = place
          BY <1>1, <3>2, <4>1, <5>1
        <5>2. CASE \E a \in D : h = Moved(a, place)
          BY <1>9, <3>1, <5>2
        <5>. QED
          BY <1>10, <5>1, <5>2
      <4>3. e.at < es[j].at
        BY <3>1, <3>2, <3>4
      <4>4. Latest(es, B, j)
        BY <1>11, <3>1, <4>1, <4>3 DEF Latest
      <4>. QED
        BY <1>7, <3>1, <4>1, <4>2, <4>4
    <3>. QED
      BY <3>3, <3>4
  <2>. QED
    BY <1>8, <2>3, <2>4
<1>. QED
  BY <1>12, <1>13

\* Of kind k, and only one of three.
LEMMA KindIs == \A k : \A e \in Kind(k) : e \in Event /\ e.kind = k
BY DEF Kind

\* The fields of a switch.
LEMMA SwitchIs ==
    ASSUME NEW m, NEW at
    PROVE  /\ Switch(m, at).kind = "switch" /\ Switch(m, at).at = at
           /\ Switch(m, at).model = m
BY DEF Switch

(* Of a run's agenda as begin() leaves it: it foresees what the events     *)
(* scheduled say, and no switch is behind a sample of its tick, if the     *)
(* only sample is scheduled last.                                          *)
LEMMA FirstForeseen ==
    ASSUME NEW es \in Seq(Event), Len(es) >= 1,
           es[Len(es)].kind = "sample",
           \A i \in 1..(Len(es) - 1) : es[i].kind # "sample"
    PROVE  /\ SwitchesFirst(EnqueueAll(<<>>, es))
           /\ \A t \in Nat : AsScheduled(EnqueueAll(<<>>, es), es, Len(es), t)
<1> DEFINE n == Len(es)
           NoSample(p) == \A i \in 1..Len(p) : p[i].kind # "sample"
           Has(p, k) == /\ InOrder(p) /\ SwitchesFirst(p)
                        /\ \A t \in Nat : AsScheduled(p, es, k, t)
                        /\ k # n => NoSample(p)
           K == [k \in 0..n |-> {p \in Seq(Event) : Has(p, k)}]
           none == <<>>
<1>1. n \in Nat /\ n >= 1 /\ \A i \in 1..n : es[i] \in Event
  OBVIOUS
<1>2. none \in Seq(Event) /\ Has(none, 0)
  <2>1. none \in Seq(Event) /\ DOMAIN none = {} /\ 1..Len(none) = {} /\ 1..0 = {}
    OBVIOUS
  <2> HIDE DEF none
  <2>2. InOrder(none)
    BY <2>1 DEF InOrder
  <2>3. SwitchesFirst(none) /\ NoSample(none)
    BY <2>1 DEF SwitchesFirst
  <2>4. ASSUME NEW t \in Nat PROVE AsScheduled(none, es, 0, t)
    <3>1. DueIn(none, t) = {} /\ DueOf(es, 0, t) = {}
      BY <2>1 DEF DueIn, DueOf
    <3>. QED
      BY <3>1 DEF AsScheduled
  <2>. QED
    BY <2>1, <2>2, <2>3, <2>4
<1>3. ASSUME NEW k \in 1..n, NEW p \in Seq(Event), Has(p, k - 1)
      PROVE  Enqueue(p, es[k]) \in Seq(Event) /\ Has(Enqueue(p, es[k]), k)
  <2> DEFINE e == es[k]
             after == Enqueue(p, e)
  <2>1. e \in Event /\ InOrder(p) /\ SwitchesFirst(p) /\ NoSample(p)
    <3>1. k - 1 # n
      BY <1>1
    <3>. QED
      BY <1>1, <1>3, <3>1
  <2>2. after \in Seq(Event) /\ InOrder(after)
    BY <2>1, EnqueueGrows
  <2>3. PICK place : Inserted(p, after, e, place)
    <3>1. \A s \in Event : s.at \in Int
      BY EventTicks
    <3>. QED
      BY <2>1, <3>1, EnqueueInserts
  <2>4. ASSUME NEW t \in Nat PROVE AsScheduled(after, es, k, t)
    <3>1. AsScheduled(p, es, k - 1, t) /\ e = es[k]
      BY <1>3
    <3> HIDE DEF e, after, Has, NoSample
    <3>. QED
      BY <1>3, <2>1, <2>3, <3>1, ScheduleNext DEF n
  <2>5. ASSUME k # n PROVE NoSample(after)
    <3>1. e.kind # "sample"
      <4>1. k \in 1..(Len(es) - 1)
        BY <1>1, <2>5
      <4>. QED
        BY <4>1
    <3>2. SUFFICES ASSUME NEW j \in 1..Len(after) PROVE after[j].kind # "sample"
      OBVIOUS
    <3> HIDE DEF e, after
    <3>3. CASE j = place
      BY <2>1, <2>3, <3>1, <3>3, NewIs
    <3>4. CASE j # place
      <4>1. PICK i \in 1..Len(p) : j = Moved(i, place)
        BY <2>1, <2>3, <3>4, MovedFrom
      <4>2. after[j] = p[i]
        <5>1. MovedOver(p, after, e, place)
          BY <2>1, <2>3, AllMoved
        <5>. QED
          BY <4>1, <5>1 DEF MovedOver
      <4>. QED
        BY <2>1, <4>2
    <3>. QED
      BY <3>3, <3>4
  <2>6. SwitchesFirst(after)
    <3>1. CASE k # n
      BY <2>5, <3>1 DEF SwitchesFirst
    <3>2. CASE k = n
      <4>1. e.kind # "switch"
        BY <3>2
      <4> HIDE DEF e, after
      <4>. QED
        BY <2>1, <2>3, <4>1, PushSwitchesFirst
    <3>. QED
      BY <3>1, <3>2
  <2>. QED
    BY <2>2, <2>4, <2>5, <2>6
<1> HIDE DEF Has
<1>4. K \in [0..n -> SUBSET Seq(Event)]
  OBVIOUS
<1>5. \A k \in 0..n : K[k] = {p \in Seq(Event) : Has(p, k)}
  OBVIOUS
<1> HIDE DEF K
<1>6. none \in K[0]
  <2>1. 0 \in 0..n
    BY <1>1
  <2>2. K[0] = {p \in Seq(Event) : Has(p, 0)}
    BY <1>5, <2>1
  <2>. QED
    BY <1>2, <2>2
<1>7. \A k \in 1..n : \A p \in K[k - 1] : Enqueue(p, es[k]) \in K[k]
  BY <1>1, <1>3, <1>5
<1> HIDE DEF none
<1>8. EnqueueAll(none, es) \in K[Len(es)]
  BY <1>2, <1>4, <1>6, <1>7, EnqueueAllByStep
<1> DEFINE q == EnqueueAll(none, es)
<1>9. q \in Seq(Event) /\ Has(q, n)
  BY <1>1, <1>5, <1>8
<1> HIDE DEF q
<1>. QED
  BY <1>9 DEF Has, q, none

\* The model a script sets by tick t, m before its first switch.
Ruling(s, m, t) ==
    LET due  == {j \in DOMAIN s : s[j][1] <= t}
        last == CHOOSE j \in due : \A k \in due :
                  \/ s[k][1] < s[j][1]
                  \/ s[k][1] = s[j][1] /\ k <= j
    IN  IF due = {} THEN m ELSE s[last][2]

\* It is what an agenda foresees that holds the script.
LEMMA ForeseesRuling ==
    ASSUME NEW s \in Seq(Nat \X Models), NEW q, NEW m, NEW t \in Nat,
           AsScheduled(q, Script(s), Len(s) + 2, t)
    PROVE  Foreseen(q, m, t, Ruling(s, m, t))
<1> DEFINE es == Script(s)
           n == Len(s)
           B == DueOf(es, n + 2, t)
           due == {j \in DOMAIN s : s[j][1] <= t}
           IsLast(j) == \A k \in due : \/ s[k][1] < s[j][1]
                                       \/ s[k][1] = s[j][1] /\ k <= j
           last == CHOOSE j \in due : IsLast(j)
<1>1. /\ n \in Nat /\ DOMAIN s = 1..n
      /\ \A i \in 1..n : s[i][1] \in Nat /\ s[i][2] \in Models
  OBVIOUS
<1>2. /\ es[1].kind = "advance" /\ es[n + 2].kind = "sample"
      /\ \A i \in 2..(n + 1) : es[i] = Switch(s[i - 1][2], s[i - 1][1])
  BY ScriptIs, KindIs
<1>3. \A i \in 2..(n + 1) : /\ es[i].kind = "switch" /\ es[i].at = s[i - 1][1]
                            /\ es[i].model = s[i - 1][2]
  <2> HIDE DEF es, n
  <2> TAKE i \in 2..(n + 1)
  <2>1. es[i] = Switch(s[i - 1][2], s[i - 1][1])
    BY <1>2
  <2>. QED
    BY <2>1, SwitchIs
<1>4. \A j : j \in B <=> (j \in 1..(n + 2) /\ es[j].kind = "switch" /\ es[j].at <= t)
  BY DEF DueOf
<1>5. \A j : j \in due <=> (j \in 1..n /\ s[j][1] <= t)
  BY <1>1
<1>6. Ruling(s, m, t) = IF due = {} THEN m ELSE s[last][2]
  BY DEF Ruling
<1> HIDE DEF es, n, B, due
<1>7. ASSUME NEW j \in due PROVE j + 1 \in B
  <2>1. j \in 1..n /\ s[j][1] <= t
    BY <1>5
  <2>2. j + 1 \in 2..(n + 1) /\ (j + 1) - 1 = j /\ j + 1 \in 1..(n + 2)
    BY <1>1, <2>1
  <2>3. es[j + 1].kind = "switch" /\ es[j + 1].at = s[(j + 1) - 1][1]
    BY <1>3, <2>2
  <2>. QED
    BY <1>4, <2>1, <2>2, <2>3
<1>8. ASSUME NEW j \in B
      PROVE  j \in 2..(n + 1) /\ j - 1 \in due
  <2>1. j \in 1..(n + 2) /\ j # 1 /\ j # n + 2
    BY <1>2, <1>4
  <2>2. j \in 2..(n + 1) /\ j - 1 \in 1..n
    BY <1>1, <2>1
  <2>. QED
    BY <1>3, <1>4, <1>5, <2>2
<1>9. CASE DueIn(q, t) = {} /\ B = {}
  <2>1. due = {}
    BY <1>7, <1>9
  <2>. QED
    BY <1>6, <1>9, <2>1 DEF Foreseen
<1>10. CASE \E i \in DueIn(q, t), j \in B :
               (\A h \in DueIn(q, t) : h <= i) /\ Latest(es, B, j) /\ q[i] = es[j]
  <2>1. PICK i \in DueIn(q, t), j \in B :
               (\A h \in DueIn(q, t) : h <= i) /\ Latest(es, B, j) /\ q[i] = es[j]
    BY <1>10
  <2> DEFINE l == j - 1
  <2>2. /\ l \in due /\ l \in 1..n /\ q[i].model = s[l][2] /\ es[j].at = s[l][1]
        /\ j \in Nat
    BY <1>1, <1>3, <1>5, <1>8, <2>1
  <2>3. IsLast(l)
    <3> TAKE k \in due
    <3>1. k + 1 \in B /\ k \in 1..n
      BY <1>5, <1>7
    <3>2. es[k + 1].at = s[k][1]
      <4>1. k + 1 \in 2..(n + 1) /\ (k + 1) - 1 = k
        BY <1>1, <3>1
      <4>. QED
        BY <1>3, <4>1
    <3>3. s[k][1] < s[l][1] \/ (s[k][1] = s[l][1] /\ k + 1 <= j)
      BY <2>1, <2>2, <3>1, <3>2 DEF Latest
    <3>4. k + 1 <= j => k <= l
      BY <1>1, <2>2, <3>1
    <3>. QED
      BY <3>3, <3>4
  <2>4. \A k \in due : k \in Nat /\ s[k][1] \in Nat
    BY <1>1, <1>5
  <2>5. ASSUME NEW k \in due, IsLast(k) PROVE k = l
    <3>1. s[k][1] < s[l][1] \/ (s[k][1] = s[l][1] /\ k <= l)
      BY <2>3
    <3>2. s[l][1] < s[k][1] \/ (s[l][1] = s[k][1] /\ l <= k)
      BY <2>2, <2>5
    <3>3. k \in Nat /\ l \in Nat /\ s[k][1] \in Nat /\ s[l][1] \in Nat
      BY <2>2, <2>4
    <3> HIDE DEF l
    <3>. QED
      BY <3>1, <3>2, <3>3
  <2>6. last \in due /\ IsLast(last)
    BY <2>2, <2>3
  <2> HIDE DEF last, IsLast, l
  <2>7. last = l /\ due # {}
    BY <2>2, <2>5, <2>6
  <2>. QED
    BY <1>6, <2>1, <2>2, <2>7 DEF Foreseen
<1>. QED
  BY <1>9, <1>10 DEF AsScheduled, B, es, n

(* While nothing is injected, the agenda with the model in force foresees  *)
(* of every tick to come the model the script sets, no switch is behind a  *)
(* sample of its tick, and every sample was taken with that model.         *)
SwitchesInv(q, m, ss, tick) ==
    /\ SwitchesFirst(q)
    /\ \A t \in Nat : t >= tick =>
         Foreseen(q, m, t, Ruling(scenario.switches, scenario.initial_model, t))
    /\ \A i \in 1..Len(ss) :
         ss[i].model = Ruling(scenario.switches, scenario.initial_model, ss[i].at)

SwitchInv == injected = 0 => SwitchesInv(queue, model, samples, now)

\* What begin() leaves is so.
LEMMA InitSwitches == Init => SwitchInv
<1> SUFFICES ASSUME Init PROVE SwitchInv
  OBVIOUS
<1> DEFINE s == scenario.switches
           es == Script(s)
           n == Len(s)
           q == EnqueueAll(<<>>, es)
<1>1. scenario \in Scenarios /\ s \in Seq(Nat \X Models)
  BY ScenarioAssumption DEF Init
<1>2. queue = q /\ model = scenario.initial_model /\ samples = <<>> /\ now = 0
  BY DEF Init, Agendas, Script
<1>3. /\ es \in Seq(Event) /\ n \in Nat /\ Len(es) = n + 2
      /\ es[1] \in Kind("advance") /\ es[n + 2] \in Kind("sample")
      /\ \A i \in 2..(n + 1) : es[i] \in Kind("switch")
  BY <1>1, ScriptIs
<1> HIDE DEF es, n
<1>4. /\ Len(es) >= 1 /\ es[Len(es)].kind = "sample"
      /\ \A i \in 1..(Len(es) - 1) : es[i].kind # "sample"
  <2>1. es[n + 2].kind = "sample" /\ Len(es) >= 1
    BY <1>3, KindIs
  <2>2. ASSUME NEW i \in 1..(Len(es) - 1) PROVE es[i].kind # "sample"
    <3>1. i = 1 \/ i \in 2..(n + 1)
      BY <1>3
    <3>2. es[i] \in Kind("advance") \/ es[i] \in Kind("switch")
      BY <1>3, <3>1
    <3>3. es[i].kind = "advance" \/ es[i].kind = "switch"
      BY <3>2, KindIs
    <3>. QED
      BY <3>3
  <2>. QED
    BY <1>3, <2>1, <2>2
<1>5. SwitchesFirst(q) /\ \A t \in Nat : AsScheduled(q, es, Len(es), t)
  BY <1>3, <1>4, FirstForeseen
<1> HIDE DEF q
<1>6. ASSUME NEW t \in Nat
      PROVE  Foreseen(q, scenario.initial_model, t, Ruling(s, scenario.initial_model, t))
  <2>1. AsScheduled(q, Script(s), Len(s) + 2, t)
    BY <1>3, <1>5 DEF es, n
  <2> HIDE DEF s
  <2>. QED
    BY <1>1, <2>1, ForeseesRuling
<1>7. 1..Len(samples) = {}
  BY <1>2
<1>. QED
  BY <1>2, <1>5, <1>6, <1>7 DEF SwitchInv, SwitchesInv

\* Time passes, and nothing else: less is foreseen.
LEMMA LaterSwitches ==
    ASSUME NEW q, NEW m, NEW ss, NEW tick \in Nat, NEW after \in Nat, tick <= after,
           SwitchesInv(q, m, ss, tick)
    PROVE  SwitchesInv(q, m, ss, after)
<1>1. \A t \in Nat : t >= after => t >= tick
  OBVIOUS
<1>. QED
  BY <1>1 DEF SwitchesInv

\* What is handled is popped: a switch sets the model, no other does.
LEMMA PoppedSwitches ==
    ASSUME NEW q \in Seq(Event), q # <<>>, NEW m, NEW ss,
           SwitchesInv(q, m, ss, Head(q).at)
    PROVE  /\ Head(q).kind = "switch" =>
                SwitchesInv(Tail(q), Head(q).model, ss, Head(q).at)
           /\ Head(q).kind # "switch" =>
                SwitchesInv(Tail(q), m, ss, Head(q).at)
<1> DEFINE x(t) == Ruling(scenario.switches, scenario.initial_model, t)
<1>1. SwitchesFirst(Tail(q))
  BY TailSwitchesFirst DEF SwitchesInv
<1>2. ASSUME NEW t \in Nat, t >= Head(q).at
      PROVE  /\ Head(q).kind = "switch" => Foreseen(Tail(q), Head(q).model, t, x(t))
             /\ Head(q).kind # "switch" => Foreseen(Tail(q), m, t, x(t))
  <2>1. Foreseen(q, m, t, x(t))
    BY <1>2 DEF SwitchesInv
  <2>2. Head(q).at <= t
    <3>1. Head(q).at \in Nat
      BY TailIs, EventTicks
    <3>. QED
      BY <1>2, <3>1
  <2> HIDE DEF x
  <2>. QED
    BY <2>1, <2>2, TailForeseen
<1>. QED
  BY <1>1, <1>2 DEF SwitchesInv

\* What is scheduled next is no switch.
LEMMA PushedSwitches ==
    ASSUME NEW q \in Seq(Event), InOrder(q), NEW e \in Event, e.kind # "switch",
           NEW m, NEW ss, NEW tick, SwitchesInv(q, m, ss, tick)
    PROVE  SwitchesInv(Enqueue(q, e), m, ss, tick)
<1> DEFINE p == Enqueue(q, e)
           x(t) == Ruling(scenario.switches, scenario.initial_model, t)
<1>1. PICK place : Inserted(q, p, e, place)
  <2>1. \A s \in Event : s.at \in Int
    BY EventTicks
  <2>. QED
    BY <2>1, EnqueueInserts
<1> HIDE DEF p
<1>2. SwitchesFirst(p)
  BY <1>1, PushSwitchesFirst DEF SwitchesInv
<1>3. ASSUME NEW t \in Nat, t >= tick PROVE Foreseen(p, m, t, x(t))
  <2>1. Foreseen(q, m, t, x(t))
    BY <1>3 DEF SwitchesInv
  <2> HIDE DEF x
  <2>. QED
    BY <1>1, <2>1, PushForeseen
<1>. QED
  BY <1>2, <1>3 DEF SwitchesInv, p

\* Every step keeps it.
LEMMA StepSwitches ==
    ASSUME TypeInv, CourseInv, SwitchInv, [Next]_vars
    PROVE  SwitchInv'
<1>1. /\ queue \in Seq(Event) /\ queue # <<>> /\ now \in Nat /\ Due \in Nat /\ now <= Due
      /\ Head(queue).at = Due /\ injected \in Nat
  BY QueueIs DEF TypeInv, CourseInv, QueueOK, Due
<1>2. SUFFICES ASSUME injected' = 0 PROVE SwitchesInv(queue, model, samples, now)'
  BY DEF SwitchInv
<1>3. ASSUME injected = 0, NEW k, Pop(k)
      PROVE  /\ SwitchesInv(queue, model, samples, Due)
             /\ now' = Due /\ scenario' = scenario
             /\ Head(queue).kind = k
             /\ Tail(queue) \in Seq(Event) /\ InOrder(Tail(queue))
  <2>1. SwitchesInv(queue, model, samples, now)
    BY <1>3 DEF SwitchInv
  <2>2. SwitchesInv(queue, model, samples, Due)
    BY <1>1, <2>1, LaterSwitches
  <2>3. now' = Due /\ scenario' = scenario /\ QueueOK(Tail(queue), Due)
    BY <1>3, PoppedIs
  <2>4. Head(queue).kind = k
    BY <1>3 DEF Pop
  <2>. QED
    BY <2>2, <2>3, <2>4 DEF QueueOK
<1>4. CASE SetGnssModel
  <2>1. /\ Pop("switch") /\ model' = Head(queue).model /\ queue' = Tail(queue)
        /\ samples' = samples /\ injected' = injected
    BY <1>4 DEF SetGnssModel, Pop
  <2>2. SwitchesInv(Tail(queue), Head(queue).model, samples, Due)
    <3>1. Head(queue).kind = "switch" /\ SwitchesInv(queue, model, samples, Due)
      BY <1>2, <1>3, <2>1
    <3>. QED
      BY <1>1, <3>1, PoppedSwitches
  <2>3. now' = Due /\ scenario' = scenario
    BY <1>2, <1>3, <2>1
  <2>. QED
    BY <2>1, <2>2, <2>3 DEF SwitchesInv
<1>5. CASE Depart \/ Park \/ EndChain
  <2>1. Pop("advance") /\ model' = model /\ samples' = samples /\ injected' = injected
    BY <1>5 DEF Depart, Park, EndChain, Pop
  <2>2. queue' = Tail(queue) \/ Pushes("advance")
    BY <1>5, DepartKeeps, StayKeeps
  <2>3. /\ Head(queue).kind = "advance" /\ now' = Due /\ scenario' = scenario
        /\ SwitchesInv(queue, model, samples, Due)
        /\ Tail(queue) \in Seq(Event) /\ InOrder(Tail(queue))
    BY <1>2, <1>3, <2>1
  <2>4. SwitchesInv(Tail(queue), model, samples, Due)
    BY <1>1, <2>3, PoppedSwitches
  <2>5. SwitchesInv(queue', model, samples, Due)
    <3>1. CASE queue' = Tail(queue)
      BY <2>4, <3>1
    <3>2. CASE Pushes("advance")
      <4>1. PICK e \in Kind("advance") : queue' = Enqueue(Tail(queue), e)
        BY <3>2 DEF Pushes
      <4>2. e \in Event /\ e.kind # "switch"
        BY KindIs
      <4>. QED
        BY <2>3, <2>4, <4>1, <4>2, PushedSwitches
    <3>. QED
      BY <2>2, <3>1, <3>2
  <2>. QED
    BY <2>1, <2>3, <2>5 DEF SwitchesInv
<1>6. CASE \E fix \in Measurements(model, TruthPose(robot, rest_heading, Head(queue).at)) :
             SampleGnss(fix)
  <2>1. PICK fix : SampleGnss(fix)
    BY <1>6
  <2>2. /\ Pop("sample") /\ model' = model /\ injected' = injected
        /\ samples' = Append(samples, Report(Due, AdvanceLocalization(robot, Due), fix))
    BY <2>1 DEF SampleGnss, Pop, Due
  <2>3. /\ Head(queue).kind = "sample" /\ now' = Due /\ scenario' = scenario
        /\ SwitchesInv(queue, model, samples, Due)
        /\ Tail(queue) \in Seq(Event) /\ InOrder(Tail(queue))
    BY <1>2, <1>3, <2>2
  <2>4. SwitchesInv(Tail(queue), model, samples, Due)
    BY <1>1, <2>3, PoppedSwitches
  <2>5. SwitchesInv(queue', model, samples, Due)
    <3>1. Pushes("sample")
      BY <2>1, SampleKeeps
    <3>2. PICK e \in Kind("sample") : queue' = Enqueue(Tail(queue), e)
      BY <3>1 DEF Pushes
    <3>3. e \in Event /\ e.kind # "switch"
      BY KindIs
    <3>. QED
      BY <2>3, <2>4, <3>2, <3>3, PushedSwitches
  <2> DEFINE x == Ruling(scenario.switches, scenario.initial_model, Due)
             ss == samples'
  <2>6. model = x
    <3>1. Foreseen(queue, model, Due, x) /\ SwitchesFirst(queue)
      BY <1>1, <2>3 DEF SwitchesInv
    <3> HIDE DEF x
    <3>. QED
      BY <1>1, <2>3, <3>1, SampleForeseen
  <2>7. /\ Len(samples) \in Nat /\ Len(ss) = Len(samples) + 1
        /\ \A i \in 1..Len(samples) : ss[i] = samples[i]
        /\ ss[Len(samples) + 1].model = model /\ ss[Len(samples) + 1].at = Due
    BY <2>2 DEF TypeInv, Report
  <2> HIDE DEF ss, x
  <2>8. ASSUME NEW i \in 1..Len(ss)
        PROVE  ss[i].model = Ruling(scenario.switches, scenario.initial_model, ss[i].at)
    <3>1. CASE i \in 1..Len(samples)
      BY <2>3, <2>7, <3>1 DEF SwitchesInv
    <3>2. CASE i \notin 1..Len(samples)
      <4>1. i = Len(samples) + 1
        BY <2>7, <3>2
      <4>. QED
        BY <2>6, <2>7, <4>1 DEF x
    <3>. QED
      BY <3>1, <3>2
  <2>9. SwitchesInv(queue', model, ss, Due)
    BY <2>5, <2>8 DEF SwitchesInv
  <2>. QED
    BY <2>2, <2>3, <2>9 DEF SwitchesInv, ss
<1>7. CASE \/ Return
           \/ \E horizon \in Horizons : RunUntil(horizon)
           \/ \E m \in Injections, at \in UNION {0..horizon : horizon \in Horizons} :
                Inject(m, at)
           \/ UNCHANGED vars
  <2>1. \A m, at : ~Inject(m, at)
    BY <1>1, <1>2 DEF Inject
  <2>2. /\ queue' = queue /\ injected' = injected /\ UNCHANGED <<scenario, model, samples>>
        /\ now' = now \/ (running /\ now' = until)
    BY <1>7, <2>1 DEF Return, RunUntil, vars
  <2>3. now' \in Nat /\ now <= now'
    BY <2>2 DEF TypeInv, CourseInv
  <2>4. SwitchesInv(queue, model, samples, now)
    BY <1>2, <2>2 DEF SwitchInv
  <2> DEFINE after == now'
  <2>5. SwitchesInv(queue, model, samples, after)
    <3> HIDE DEF after
    <3>1. after \in Nat /\ now <= after
      BY <2>3 DEF after
    <3>. QED
      BY <1>1, <2>4, <3>1, LaterSwitches
  <2>. QED
    BY <2>2, <2>5 DEF SwitchesInv
<1>. QED
  BY <1>4, <1>5, <1>6, <1>7 DEF Next, HandleEvent

(* Whatever the scenario's switches, if nothing is injected the model of a *)
(* sample is that of the last switch loaded for its tick or an earlier     *)
(* one: begin() schedules the script before the first sample, and ties in  *)
(* the queue are broken by the order of scheduling                         *)
(* (scenario_runner.cpp:602-627, event_queue.cpp:8-20).                    *)
THEOREM LoadedSwitchesRule == Spec => []LoadedSwitchesComeFirst
<1>1. Init => TypeInv /\ CourseInv /\ SwitchInv
  BY InitKeeps, InitSwitches
<1>2. TypeInv /\ CourseInv /\ SwitchInv /\ [Next]_vars =>
        TypeInv' /\ CourseInv' /\ SwitchInv'
  BY StepIs, StepSwitches
<1>3. TypeInv /\ SwitchInv => LoadedSwitchesComeFirst
  <2> SUFFICES ASSUME TypeInv, SwitchInv PROVE LoadedSwitchesComeFirst
    OBVIOUS
  <2>1. DOMAIN samples = 1..Len(samples)
    BY DEF TypeInv
  <2>2. injected = 0 => \A i \in DOMAIN samples :
          samples[i].model =
            Ruling(scenario.switches, scenario.initial_model, samples[i].at)
    BY <2>1 DEF SwitchInv, SwitchesInv
  <2>. QED
    BY <2>2 DEF LoadedSwitchesComeFirst, Ruling
<1>. QED
  BY <1>1, <1>2, <1>3, PTL DEF Spec
=============================================================================
