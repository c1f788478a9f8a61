-------------------------- MODULE OsmImportProofs ---------------------------
(***************************************************************************)
(* What import() comes to is a matter of what is in the extract.  Expected *)
(* says it in one formula, of the set of the eligible ways and of the      *)
(* locations of their nodes, with no order and no step in it; Importing,   *)
(* the inductive invariant, says how far each stage has come towards it.   *)
(*                                                                         *)
(* From that: the map is the same whatever the order of the file           *)
(* (ImportsAreOrderFree), and the builders, asked last, accept it          *)
(* (BuildersAcceptImports), so that planner and robots get the graphs      *)
(* they assume.                                                            *)
(*                                                                         *)
(* The second half is about distances (ImportedRoutesAreRoads).  The       *)
(* shortest ones are the largest function that no hop undercuts and that   *)
(* obeys the triangle inequality (AreShortest), so that two of them are    *)
(* compared by making such a function of either: of the roads' by naming   *)
(* nodes by their ids (NoShortcut), of the edges' by extending it to the   *)
(* nodes between the cuts (Reach, NoneLost).                               *)
(***************************************************************************)
EXTENDS OsmImport, OperatorLemmas

\* A graph as the builder stores it.
IsBuilt(G) ==
    /\ G.ends \in Seq(G.nodes \X G.nodes)
    /\ G.cost \in Seq(Nat \ {0})
    /\ G.direction \in Seq(Direction)
    /\ Len(G.cost) = Len(G.ends)
    /\ Len(G.direction) = Len(G.ends)
    /\ IsGraph(G)

\* Append adds at the end and nowhere else.
LEMMA Appended ==
    ASSUME NEW S, NEW s \in Seq(S), NEW x \in S
    PROVE  /\ Append(s, x)[Len(s) + 1] = x
           /\ \A i \in 1..Len(s) : Append(s, x)[i] = s[i]
OBVIOUS

\* Graph::Builder as it begins: nodes and no edge.
LEMMA EmptyGraphIsBuilt == ASSUME NEW n \in Nat PROVE IsBuilt(EmptyGraph(n))
<1> DEFINE G == EmptyGraph(n)
           none == <<>>
<1>1. IsFiniteSet(G.nodes) /\ G.nodes \subseteq Nat
  <2>1. 0 \in Int /\ n - 1 \in Int
    OBVIOUS
  <2>2. IsFiniteSet(0..(n - 1)) /\ 0..(n - 1) \subseteq Nat
    BY <2>1, FS_Interval
  <2>. QED
    BY <2>2 DEF EmptyGraph
<1>2. G.ends = none /\ G.cost = none /\ G.direction = none
  BY DEF EmptyGraph
<1>3. DOMAIN none = {} /\ Len(none) = 0 /\ \A S : none \in Seq(S) /\ none \in [{} -> S]
  OBVIOUS
<1> HIDE DEF G, none
<1>4. EdgeIds(G) = {}
  BY <1>2, <1>3 DEF EdgeIds
<1>5. IsGraph(G)
  BY <1>1, <1>2, <1>3, <1>4 DEF IsGraph
<1>. QED
  BY <1>2, <1>3, <1>5 DEF IsBuilt, G

(* Graph::Builder::connect: an edge that is accepted leaves a graph.       *)
LEMMA ConnectKeepsGraphs ==
    ASSUME NEW G, IsBuilt(G), NEW a, NEW b, NEW cost,
           NEW direction \in Direction, ConnectAccepts(G, a, b, cost)
    PROVE  IsBuilt(Connected(G, a, b, cost, direction))
<1> DEFINE H == Connected(G, a, b, cost, direction)
           last == Len(G.ends) + 1
<1>1. /\ H.nodes = G.nodes
      /\ H.ends = Append(G.ends, <<a, b>>)
      /\ H.cost = Append(G.cost, cost)
      /\ H.direction = Append(G.direction, direction)
  BY DEF Connected
<1>2. /\ <<a, b>> \in G.nodes \X G.nodes /\ a # b /\ cost \in Nat \ {0}
      /\ \A e \in EdgeIds(G) : Ends(G, e) # {a, b}
  BY DEF ConnectAccepts
<1> HIDE DEF H
<1>3. /\ H.ends \in Seq(H.nodes \X H.nodes)
      /\ H.cost \in Seq(Nat \ {0})
      /\ H.direction \in Seq(Direction)
      /\ Len(H.cost) = Len(H.ends)
      /\ Len(H.direction) = Len(H.ends)
  BY <1>1, <1>2 DEF IsBuilt
<1>4. /\ EdgeIds(H) = EdgeIds(G) \cup {last}
      /\ last \notin EdgeIds(G)
      /\ H.ends[last] = <<a, b>> /\ H.cost[last] = cost
      /\ H.direction[last] = direction
      /\ \A e \in EdgeIds(G) : /\ H.ends[e] = G.ends[e]
                               /\ H.cost[e] = G.cost[e]
                               /\ H.direction[e] = G.direction[e]
  <2>1. /\ Len(G.ends) \in Nat
        /\ Len(G.cost) = Len(G.ends) /\ Len(G.direction) = Len(G.ends)
        /\ G.ends \in Seq(G.nodes \X G.nodes)
        /\ G.cost \in Seq(Nat \ {0}) /\ G.direction \in Seq(Direction)
    BY DEF IsBuilt
  <2>2. EdgeIds(H) = EdgeIds(G) \cup {last} /\ last \notin EdgeIds(G)
    BY <1>1, <2>1 DEF EdgeIds
  <2>3. EdgeIds(G) = 1..Len(G.ends)
    BY <2>1 DEF EdgeIds
  <2>4. /\ H.ends[last] = <<a, b>>
        /\ \A e \in EdgeIds(G) : H.ends[e] = G.ends[e]
    BY <1>1, <1>2, <2>1, <2>3, Appended
  <2>5. /\ H.cost[last] = cost
        /\ \A e \in EdgeIds(G) : H.cost[e] = G.cost[e]
    BY <1>1, <1>2, <2>1, <2>3, Appended
  <2>6. /\ H.direction[last] = direction
        /\ \A e \in EdgeIds(G) : H.direction[e] = G.direction[e]
    BY <1>1, <2>1, <2>3, Appended
  <2>. QED
    BY <2>2, <2>4, <2>5, <2>6
<1>5. /\ IsFiniteSet(H.nodes) /\ H.nodes \subseteq Nat
      /\ H.cost \in [EdgeIds(H) -> Nat \ {0}] /\ H.direction \in [EdgeIds(H) -> Direction]
      /\ \A e \in EdgeIds(H) : H.ends[e][1] # H.ends[e][2]
  <2>1. IsFiniteSet(G.nodes) /\ G.nodes \subseteq Nat
        /\ \A e \in EdgeIds(G) : G.ends[e][1] # G.ends[e][2]
    BY DEF IsBuilt, IsGraph
  <2>2. H.ends[last][1] # H.ends[last][2] /\ H.nodes = G.nodes
    BY <1>1, <1>2, <1>4
  <2>3. H.cost \in [EdgeIds(H) -> Nat \ {0}] /\ H.direction \in [EdgeIds(H) -> Direction]
    <3>1. EdgeIds(H) = 1..Len(H.ends)
      BY <1>3 DEF EdgeIds
    <3>2. H.cost \in [1..Len(H.cost) -> Nat \ {0}]
          /\ H.direction \in [1..Len(H.direction) -> Direction]
      BY <1>3
    <3>. QED
      BY <1>3, <3>1, <3>2
  <2>. QED
    BY <1>4, <2>1, <2>2, <2>3
<1>6. \A e, f \in EdgeIds(H) : Ends(H, e) = Ends(H, f) => e = f
  <2>1. Ends(H, last) = {a, b} /\ \A e \in EdgeIds(G) : Ends(H, e) = Ends(G, e)
    BY <1>4 DEF Ends
  <2>2. \A e, f \in EdgeIds(G) : Ends(G, e) = Ends(G, f) => e = f
    BY DEF IsBuilt, IsGraph
  <2>. QED
    BY <1>2, <1>4, <2>1, <2>2
<1>7. IsGraph(H)
  BY <1>3, <1>5, <1>6 DEF IsGraph
<1>8. IsBuilt(H)
  BY <1>3, <1>7 DEF IsBuilt
<1>. QED
  BY <1>8 DEF H

\* Whatever a way's policy, its edges have a direction.
LEMMA DirectionsOnly == \A policy : DirectionOf(policy) \in Direction
BY DEF DirectionOf, Direction

-----------------------------------------------------------------------------
(* Lengths.                                                                *)

\* The points of a line, located.
Line == {points \in Seq(Int \X Int) : Len(points) >= 1}

\* Between two points on a line.
StepAt(points, i) == Abs(points[i + 1][1] - points[i][1])
                     + Abs(points[i + 1][2] - points[i][2])

\* An absolute value is not negative.
LEMMA AbsIsNatural == ASSUME NEW n \in Int PROVE Abs(n) \in Nat
<1>1. CASE n < 0
  <2>1. -n \in Nat
    BY <1>1
  <2>. QED
    BY <1>1, <2>1 DEF Abs
<1>2. CASE n >= 0
  BY <1>2 DEF Abs
<1>. QED
  BY <1>1, <1>2

(* polyline_length_meters, of points and up to each of them: a sum over    *)
(* the steps.                                                              *)
SumsSteps(points, upto) ==
    /\ LengthOf(points) = upto[Len(points) - 1] /\ upto[0] = 0
    /\ \A i \in 0..(Len(points) - 1) : upto[i] \in Nat
    /\ \A i \in 1..(Len(points) - 1) : upto[i] = upto[i - 1] + StepAt(points, i)
    /\ \A i \in 1..(Len(points) - 1) : StepAt(points, i) \in Nat

\* Along every line the lengths up to its points exist, and the last is its length.
LEMMA LengthsSumSteps ==
    ASSUME NEW points \in Line PROVE \E upto : SumsSteps(points, upto)
<1> DEFINE n == Len(points) - 1
           step == [i \in 1..n |-> [x \in Nat |-> x + StepAt(points, i)]]
<1>1. n \in Nat /\ n + 1 = Len(points) /\ points \in Seq(Int \X Int)
  BY DEF Line
<1>2. ASSUME NEW i \in 1..n PROVE StepAt(points, i) \in Nat
  <2>1. i \in 1..Len(points) /\ i + 1 \in 1..Len(points)
    BY <1>1
  <2>2. points[i] \in Int \X Int /\ points[i + 1] \in Int \X Int
    BY <1>1, <2>1
  <2>3. points[i + 1][1] - points[i][1] \in Int /\ points[i + 1][2] - points[i][2] \in Int
    BY <2>2
  <2>4. /\ Abs(points[i + 1][1] - points[i][1]) \in Nat
        /\ Abs(points[i + 1][2] - points[i][2]) \in Nat
    BY <2>3, AbsIsNatural
  <2>. QED
    BY <2>4 DEF StepAt
<1> HIDE DEF n
<1>3. PICK f : Recurs(f, n, Nat, 0, step)
  <2>1. \A i \in 1..n, x \in Nat : x + StepAt(points, i) \in Nat
    BY <1>2
  <2>2. step \in [1..n -> [Nat -> Nat]]
    BY <2>1
  <2> DEFINE D == Nat
  <2>3. 0 \in D /\ step \in [1..n -> [D -> D]]
    BY <2>2
  <2> HIDE DEF step, D
  <2>4. \E f : Recurs(f, n, D, 0, step)
    BY <1>1, <2>3, Recursion
  <2>. QED
    BY <2>4 DEF D
<1>4. /\ f \in [0..n -> Nat] /\ f[0] = 0
      /\ \A i \in 1..n : f[i] = f[i - 1] + StepAt(points, i)
  <2>1. f \in [0..n -> Nat] /\ f[0] = 0
    BY <1>3 DEF Recurs
  <2>2. ASSUME NEW i \in 1..n PROVE f[i] = f[i - 1] + StepAt(points, i)
    <3>1. f[i] = step[i][f[i - 1]]
      BY <1>3 DEF Recurs
    <3>2. i - 1 \in 0..n /\ f[i - 1] \in Nat
      BY <1>1, <2>1
    <3>. QED
      BY <3>1, <3>2
  <2>. QED
    BY <2>1, <2>2
<1> DEFINE Sum(u) == u = [i \in 0..(Len(points) - 1) |->
                            IF i = 0 THEN 0
                            ELSE u[i - 1] + (Abs(points[i + 1][1] - points[i][1])
                                             + Abs(points[i + 1][2] - points[i][2]))]
           upto == CHOOSE u : Sum(u)
<1>5. LengthOf(points) = upto[Len(points) - 1]
  BY DEF LengthOf
<1> HIDE DEF step
<1>6. Sum(f)
  <2>1. \A i \in 0..n : i # 0 => f[i] = f[i - 1] + StepAt(points, i)
    BY <1>1, <1>4
  <2>. QED
    BY <1>4, <2>1 DEF StepAt, n
<1>7. Sum(upto)
  BY <1>6
<1> HIDE DEF upto
<1>8. /\ upto[0] = 0
      /\ \A i \in 1..n : upto[i] = upto[i - 1] + StepAt(points, i)
  <2>1. upto = [i \in 0..n |-> IF i = 0 THEN 0 ELSE upto[i - 1] + StepAt(points, i)]
    BY <1>7 DEF StepAt, n
  <2>2. 0 \in 0..n /\ \A i \in 1..n : i \in 0..n /\ i # 0
    BY <1>1
  <2>. QED
    BY <2>1, <2>2
<1> DEFINE T == {i \in Nat : i <= n => upto[i] \in Nat}
<1>9. 0 \in T
  BY <1>8
<1>10. ASSUME NEW i \in Nat, i \in T PROVE i + 1 \in T
  <2>1. SUFFICES ASSUME i + 1 <= n PROVE upto[i + 1] \in Nat
    OBVIOUS
  <2>2. i + 1 \in 1..n /\ (i + 1) - 1 = i /\ upto[i] \in Nat
    BY <1>1, <1>10, <2>1
  <2>3. upto[i + 1] = upto[i] + StepAt(points, i + 1)
    BY <1>8, <2>2
  <2>. QED
    BY <1>2, <2>2, <2>3
<1> HIDE DEF T
<1>11. \A i \in 0..n : upto[i] \in Nat
  <2>1. Nat \subseteq T
    BY <1>9, <1>10, Ind
  <2>. QED
    BY <1>1, <2>1 DEF T
<1>12. SumsSteps(points, upto)
  BY <1>2, <1>5, <1>8, <1>11 DEF SumsSteps, n
<1>. QED
  BY <1>12

\* So it is a number, never below 0.
LEMMA LengthsAreNatural == ASSUME NEW points \in Line PROVE LengthOf(points) \in Nat
<1>1. PICK upto : SumsSteps(points, upto)
  BY LengthsSumSteps
<1>2. Len(points) - 1 \in 0..(Len(points) - 1)
  BY DEF Line
<1>. QED
  BY <1>1, <1>2 DEF SumsSteps

-----------------------------------------------------------------------------
(* The topology.                                                           *)

\* The ways that are cut: a finite set, told apart by their ids.
AreWays(W) ==
    /\ W \in SUBSET Way /\ IsFiniteSet(W)
    /\ \A way \in W : Len(way.refs) >= 2
    /\ \A v, w \in W : v.id = w.id => v = w

\* A way's places, and its ends among them.
LEMMA WayPlaces ==
    ASSUME NEW W, AreWays(W), NEW way \in W
    PROVE  /\ way.refs \in Seq(Int) /\ Len(way.refs) \in Nat
           /\ DOMAIN way.refs = 1..Len(way.refs)
           /\ 1 \in DOMAIN way.refs /\ Len(way.refs) \in DOMAIN way.refs
           /\ 1 < Len(way.refs) /\ way.id \in Int
<1>1. way \in Way /\ Len(way.refs) >= 2
  BY DEF AreWays
<1>2. way.refs \in Seq(Int) /\ way.id \in Int
  BY <1>1 DEF Way
<1>. QED
  BY <1>1, <1>2

\* The nodes that are kept are finitely many, and have their NodeIds apart.
LEMMA RetainedNodes ==
    ASSUME NEW W, AreWays(W)
    PROVE  /\ Retained(W) \subseteq References(W) /\ References(W) \subseteq Int
           /\ IsFiniteSet(Retained(W)) /\ Cardinality(Retained(W)) \in Nat
           /\ SmallerNumber(Retained(W))
<1> DEFINE refs == [way \in W |-> ToSet(way.refs)]
<1>1. IsFiniteSet(W) /\ \A way \in W : IsFiniteSet(refs[way]) /\ refs[way] \subseteq Int
  BY WayPlaces, ElementsAreFinite DEF AreWays
<1>2. References(W) = UNION {refs[way] : way \in DOMAIN refs}
  BY DEF References
<1>3. DOMAIN refs = W
  OBVIOUS
<1> HIDE DEF refs
<1> DEFINE parts == {refs[way] : way \in DOMAIN refs}
<1>4. IsFiniteSet(parts)
  BY <1>1, <1>3, ValuesAreFinite
<1>5. \A A \in parts : IsFiniteSet(A) /\ A \subseteq Int
  BY <1>1, <1>3
<1> HIDE DEF parts
<1>6. IsFiniteSet(UNION parts)
  BY <1>4, <1>5, FS_UNION
<1>7. IsFiniteSet(References(W)) /\ References(W) \subseteq Int
  BY <1>2, <1>5, <1>6 DEF parts
<1>8. Retained(W) \subseteq References(W)
  BY DEF Retained
<1> DEFINE N == Retained(W)
<1>9. IsFiniteSet(N) /\ Cardinality(N) \in Nat /\ N \in SUBSET Int
  BY <1>7, <1>8, FS_Subset, FS_CardinalityType
<1> HIDE DEF N
<1>10. SmallerNumber(N)
  BY <1>9, IntegersAreNumbered
<1>. QED
  BY <1>7, <1>8, <1>9, <1>10 DEF N

\* NodeIds are the numbers from 0 to the number of nodes, less one.
LEMMA NodeIds ==
    ASSUME NEW W, AreWays(W)
    PROVE  /\ \A n \in Retained(W) : NodeId(W, n) \in 0..(Cardinality(Retained(W)) - 1)
           /\ \A m, n \in Retained(W) : NodeId(W, m) = NodeId(W, n) => m = n
<1>1. SmallerNumber(Retained(W))
  BY RetainedNodes
<1>2. \A n : NodeId(W, n) = Smaller(Retained(W), n)
  BY DEF NodeId, Smaller
<1>. QED
  BY <1>1, <1>2 DEF SmallerNumber

\* The cuts of a way: finitely many places, both ends among them, numbered
\* in their order.
LEMMA WayCuts ==
    ASSUME NEW W, AreWays(W), NEW way \in W
    PROVE  /\ Cuts(W, way) \subseteq DOMAIN way.refs /\ Cuts(W, way) \subseteq Nat
           /\ IsFiniteSet(Cuts(W, way)) /\ Cuts(W, way) \in SUBSET Int
           /\ SmallerNumber(Cuts(W, way))
           /\ 1 \in Cuts(W, way) /\ Len(way.refs) \in Cuts(W, way)
           /\ \A i \in Cuts(W, way) : way.refs[i] \in Retained(W)
<1> DEFINE C == Cuts(W, way)
           n == Len(way.refs)
<1>1. /\ way.refs \in Seq(Int) /\ n \in Nat /\ DOMAIN way.refs = 1..n
      /\ 1 \in DOMAIN way.refs /\ n \in DOMAIN way.refs
  BY WayPlaces
<1>2. C \subseteq DOMAIN way.refs /\ \A i \in C : IsRetained(W, way.refs[i])
  BY DEF Cuts
<1>3. way.refs[1] = Head(way.refs) /\ way.refs[n] = Last(way.refs)
  BY <1>1 DEF Last
<1>4. 1 \in C /\ n \in C
  BY <1>1, <1>3 DEF Cuts, IsRetained
<1>5. \A i \in C : way.refs[i] \in Retained(W)
  BY <1>2 DEF Retained, References, ToSet
<1>6. IsFiniteSet(1..n)
  <2>1. 1 \in Int /\ n \in Int
    BY <1>1
  <2>. QED
    BY <2>1, FS_Interval
<1>7. IsFiniteSet(C) /\ C \in SUBSET Int /\ C \subseteq Nat
  BY <1>1, <1>2, <1>6, FS_Subset
<1> HIDE DEF C
<1>8. SmallerNumber(C)
  BY <1>7, IntegersAreNumbered
<1>. QED
  BY <1>2, <1>4, <1>5, <1>7, <1>8 DEF C

\* A span runs from a cut to a later one.
LEMMA SpanEnds ==
    ASSUME NEW W, AreWays(W), NEW way \in W, NEW p \in Spans(W, way)
    PROVE  /\ p = <<p[1], p[2]>> /\ p[1] < p[2]
           /\ p[1] \in Cuts(W, way) /\ p[2] \in Cuts(W, way)
           /\ p[1] \in Nat /\ p[2] \in Nat
           /\ p[1] \in 1..Len(way.refs) /\ p[2] \in 1..Len(way.refs)
           /\ \A i \in Cuts(W, way) : i <= p[1] \/ p[2] <= i
<1>1. p \in Cuts(W, way) \X Cuts(W, way) /\ p[1] < p[2]
      /\ \A i \in Cuts(W, way) : i <= p[1] \/ p[2] <= i
  BY DEF Spans
<1>2. Cuts(W, way) \subseteq Nat /\ Cuts(W, way) \subseteq 1..Len(way.refs)
  BY WayCuts, WayPlaces
<1>. QED
  BY <1>1, <1>2

\* Two spans of a way that begin at the same place are the same.
LEMMA SpansApart ==
    ASSUME NEW W, AreWays(W), NEW way \in W,
           NEW p \in Spans(W, way), NEW q \in Spans(W, way), p[1] = q[1]
    PROVE  p = q
<1>1. /\ p = <<p[1], p[2]>> /\ p[1] < p[2] /\ p[2] \in Cuts(W, way)
      /\ p[1] \in Nat /\ p[2] \in Nat
      /\ \A i \in Cuts(W, way) : i <= p[1] \/ p[2] <= i
  BY SpanEnds
<1>2. /\ q = <<q[1], q[2]>> /\ q[1] < q[2] /\ q[2] \in Cuts(W, way)
      /\ q[1] \in Nat /\ q[2] \in Nat
      /\ \A i \in Cuts(W, way) : i <= q[1] \/ q[2] <= i
  BY SpanEnds
<1>3. p[2] <= q[2] /\ q[2] <= p[2]
  BY <1>1, <1>2
<1>. QED
  BY <1>1, <1>2, <1>3

\* The names of pieces.
LEMMA PieceNames ==
    ASSUME NEW W, AreWays(W), NEW at, NEW way \in W, NEW p \in Spans(W, way)
    PROVE  /\ Piece(W, at, way, p).way_id = way.id
           /\ Piece(W, at, way, p).segment_index = Smaller(Cuts(W, way), p[1])
           /\ way.id \in Int /\ Smaller(Cuts(W, way), p[1]) \in Nat
<1>1. p[1] \in Cuts(W, way)
  BY SpanEnds
<1>2. SmallerNumber(Cuts(W, way)) /\ IsFiniteSet(Cuts(W, way))
  BY WayCuts
<1>3. Cardinality(Cuts(W, way)) \in Nat
  BY <1>2, FS_CardinalityType
<1>4. Smaller(Cuts(W, way), p[1]) \in 0..(Cardinality(Cuts(W, way)) - 1)
  BY <1>1, <1>2 DEF SmallerNumber
<1>. QED
  BY <1>3, <1>4, WayPlaces DEF Piece, Smaller

\* A piece is one of some way.
LEMMA PieceOf ==
    ASSUME NEW W, NEW at, NEW s \in Pieces(W, at)
    PROVE  \E way \in W : \E p \in Spans(W, way) : s = Piece(W, at, way, p)
BY DEF Pieces

\* No two pieces have the same name.
LEMMA NamesApart ==
    ASSUME NEW W, AreWays(W), NEW at, NEW s \in Pieces(W, at), NEW t \in Pieces(W, at),
           s.way_id = t.way_id, s.segment_index = t.segment_index
    PROVE  s = t
<1>1. PICK v \in W : \E p \in Spans(W, v) : s = Piece(W, at, v, p)
  BY PieceOf
<1>2. PICK p \in Spans(W, v) : s = Piece(W, at, v, p)
  BY <1>1
<1>3. PICK w \in W : \E q \in Spans(W, w) : t = Piece(W, at, w, q)
  BY PieceOf
<1>4. PICK q \in Spans(W, w) : t = Piece(W, at, w, q)
  BY <1>3
<1>5. s.way_id = v.id /\ s.segment_index = Smaller(Cuts(W, v), p[1])
  BY <1>2, PieceNames
<1>6. t.way_id = w.id /\ t.segment_index = Smaller(Cuts(W, w), q[1])
  BY <1>4, PieceNames
<1>7. v = w
  BY <1>5, <1>6 DEF AreWays
<1>8. p[1] \in Cuts(W, v) /\ q[1] \in Cuts(W, v)
  BY <1>7, SpanEnds
<1>9. SmallerNumber(Cuts(W, v))
  BY WayCuts
<1>10. p[1] = q[1]
  BY <1>5, <1>6, <1>7, <1>8, <1>9 DEF SmallerNumber
<1>11. p = q
  BY <1>7, <1>10, SpansApart
<1>. QED
  BY <1>2, <1>4, <1>7, <1>11

\* The ways have finitely many pieces.
LEMMA PiecesAreFinite ==
    ASSUME NEW W, AreWays(W), NEW at
    PROVE  IsFiniteSet(Pieces(W, at)) /\ Cardinality(Pieces(W, at)) \in Nat
<1> DEFINE of == [way \in W |-> {Piece(W, at, way, p) : p \in Spans(W, way)}]
           parts == {of[way] : way \in DOMAIN of}
<1>1. ASSUME NEW way \in W PROVE IsFiniteSet(of[way])
  <2> DEFINE C == Cuts(W, way)
             f == [p \in Spans(W, way) |-> Piece(W, at, way, p)]
             T == {f[p] : p \in DOMAIN f}
  <2>1. IsFiniteSet(C)
    BY WayCuts
  <2> HIDE DEF C
  <2>2. IsFiniteSet(C \X C)
    BY <2>1, FS_Product
  <2>3. Spans(W, way) \subseteq C \X C
    BY DEF Spans, C
  <2>4. IsFiniteSet(Spans(W, way))
    BY <2>2, <2>3, FS_Subset
  <2>5. DOMAIN f = Spans(W, way)
    OBVIOUS
  <2>6. of[way] = T
    OBVIOUS
  <2> HIDE DEF f, of
  <2>7. IsFiniteSet(T)
    BY <2>4, <2>5, ValuesAreFinite
  <2>. QED
    BY <2>6, <2>7
<1>2. Pieces(W, at) = UNION parts
  BY DEF Pieces
<1>3. DOMAIN of = W /\ IsFiniteSet(W)
  BY DEF AreWays
<1> HIDE DEF of
<1>4. IsFiniteSet(parts)
  BY <1>3, ValuesAreFinite
<1>5. \A A \in parts : IsFiniteSet(A)
  BY <1>1, <1>3
<1> HIDE DEF parts
<1>6. IsFiniteSet(UNION parts)
  BY <1>4, <1>5, FS_UNION
<1>. QED
  BY <1>2, <1>6, FS_CardinalityType

\* S is a sequence of the members of P, each once, in the order of edges.
Sorts(S, P) ==
    /\ S \in Seq(P) /\ Len(S) = Cardinality(P)
    /\ \A s \in P : \E k \in DOMAIN S : S[k] = s
    /\ \A j, k \in DOMAIN S : j < k => Precedes(S[j], S[k])

(* std::sort by way and segment: the order is total, as no two pieces have *)
(* the same name, and so sorting them is placing each at its rank.         *)
LEMMA EdgeOrderSorts ==
    ASSUME NEW W, AreWays(W), NEW at
    PROVE  Sorts(EdgeOrder(Pieces(W, at)), Pieces(W, at))
<1> DEFINE P == Pieces(W, at)
           n == Cardinality(P)
           R == {x \in P \X P : Precedes(x[1], x[2])}
           S == EdgeOrder(P)
<1>1. \A s \in P : s.way_id \in Int /\ s.segment_index \in Int
  <2> SUFFICES ASSUME NEW s \in P PROVE s.way_id \in Int /\ s.segment_index \in Int
    OBVIOUS
  <2>1. PICK way \in W : \E p \in Spans(W, way) : s = Piece(W, at, way, p)
    BY PieceOf
  <2>2. PICK p \in Spans(W, way) : s = Piece(W, at, way, p)
    BY <2>1
  <2>. QED
    BY <2>2, PieceNames
<1>2. \A s, t \in P : s.way_id = t.way_id /\ s.segment_index = t.segment_index => s = t
  BY NamesApart
<1>3. IsFiniteSet(P) /\ n \in Nat
  BY PiecesAreFinite
<1> HIDE DEF P
<1>4. \A s, t \in P : <<s, t>> \in R <=> Precedes(s, t)
  OBVIOUS
<1> HIDE DEF R
<1>5. Orders(R, P)
  <2>1. \A x \in P : ~Precedes(x, x)
    BY <1>1 DEF Precedes
  <2>2. \A x, y, z \in P : Precedes(x, y) /\ Precedes(y, z) => Precedes(x, z)
    BY <1>1 DEF Precedes
  <2>3. \A x, y \in P : x # y => Precedes(x, y) \/ Precedes(y, x)
    BY <1>1, <1>2 DEF Precedes
  <2>. QED
    BY <1>4, <2>1, <2>2, <2>3 DEF Orders
<1>6. RanksNumber(R, P)
  BY <1>3, <1>5, RanksAreNumbers
<1>7. ASSUME NEW s \in P
      PROVE  Cardinality({t \in P : Precedes(t, s)}) = Rank(R, P, s)
  <2>1. {t \in P : Precedes(t, s)} = {t \in P : <<t, s>> \in R}
    BY <1>4
  <2>. QED
    BY <2>1 DEF Rank
<1>8. S = [k \in 1..n |-> CHOOSE s \in P : Cardinality({t \in P : Precedes(t, s)}) = k - 1]
  BY DEF EdgeOrder
<1>9. ASSUME NEW k \in 1..n
      PROVE  S[k] \in P /\ Rank(R, P, S[k]) = k - 1
  <2>1. k - 1 \in 0..(n - 1)
    BY <1>3
  <2>2. \E s \in P : Rank(R, P, s) = k - 1
    BY <1>6, <2>1 DEF RanksNumber
  <2>3. \E s \in P : Cardinality({t \in P : Precedes(t, s)}) = k - 1
    BY <1>7, <2>2
  <2>4. S[k] = CHOOSE s \in P : Cardinality({t \in P : Precedes(t, s)}) = k - 1
    BY <1>8
  <2>5. S[k] \in P /\ Cardinality({t \in P : Precedes(t, S[k])}) = k - 1
    BY <2>3, <2>4
  <2>. QED
    BY <1>7, <2>5
<1> HIDE DEF n
<1>10. S \in [1..n -> P]
  BY <1>8, <1>9
<1>11. S \in Seq(P) /\ Len(S) = n /\ DOMAIN S = 1..n
  <2> HIDE DEF S
  <2>1. S \in Seq(P) /\ Len(S) = n
    BY <1>3, <1>10, FunctionIsSequence
  <2>. QED
    BY <1>10, <2>1
<1> HIDE DEF S
<1>12. ASSUME NEW s \in P PROVE \E k \in DOMAIN S : S[k] = s
  <2> DEFINE r == Rank(R, P, s)
  <2>1. r \in 0..(n - 1)
    BY <1>6 DEF RanksNumber, n
  <2>2. r + 1 \in 1..n /\ (r + 1) - 1 = r
    BY <1>3, <2>1 DEF n
  <2>3. S[r + 1] \in P /\ Rank(R, P, S[r + 1]) = r
    BY <1>9, <2>2
  <2>4. S[r + 1] = s
    BY <1>6, <2>3 DEF RanksNumber
  <2>. QED
    BY <1>11, <2>2, <2>4
<1>13. ASSUME NEW j \in DOMAIN S, NEW k \in DOMAIN S, j < k
       PROVE  Precedes(S[j], S[k])
  <2>1. /\ S[j] \in P /\ Rank(R, P, S[j]) = j - 1
        /\ S[k] \in P /\ Rank(R, P, S[k]) = k - 1
        /\ j \in Int /\ k \in Int
    BY <1>9, <1>11
  <2>2. S[j] # S[k] /\ ~(Rank(R, P, S[k]) < Rank(R, P, S[j]))
    BY <1>13, <2>1
  <2>3. <<S[j], S[k]>> \in R
    BY <1>5, <1>6, <2>1, <2>2 DEF Orders, RanksNumber
  <2>. QED
    BY <1>4, <2>1, <2>3
<1>14. Sorts(S, P)
  BY <1>11, <1>12, <1>13 DEF Sorts, n
<1>. QED
  BY <1>14 DEF S, P

\* Where the nodes are that the ways refer to.
AreLocations(W, at) == at \in [References(W) -> Int \X Int]

(* What a segment brings to the builders: the ids of two nodes that are    *)
(* kept, and the line between them, of two points at least, which begins   *)
(* where the first node is and ends where the second is.                   *)
IsSegment(W, at, s) ==
    /\ s.points \in Line /\ Len(s.points) >= 2
    /\ s.from \in 0..(Cardinality(Retained(W)) - 1)
    /\ s.to \in 0..(Cardinality(Retained(W)) - 1)
    /\ \E a, b \in Retained(W) :
         /\ NodeId(W, a) = s.from /\ Head(s.points) = at[a]
         /\ NodeId(W, b) = s.to /\ Last(s.points) = at[b]

\* A way's nodes have locations between two of its places.
LocatedAlong(at, way, i, j) == \A k \in i..j : at[way.refs[k]] \in Int \X Int

\* Points from one of its places to another.
RunsBetween(at, way, i, j, points) ==
    /\ points \in Seq(Int \X Int) /\ Len(points) = j - i + 1
    /\ Head(points) = at[way.refs[i]] /\ Last(points) = at[way.refs[j]]

\* The points between two places of a way.
LEMMA PointsAre ==
    ASSUME NEW at, NEW way, NEW i \in Nat, NEW j \in Nat, i < j,
           LocatedAlong(at, way, i, j)
    PROVE  RunsBetween(at, way, i, j, Points(at, way, i, j))
<1> DEFINE D == Int \X Int
           f == Points(at, way, i, j)
           n == j - i + 1
<1>1. n \in Nat /\ 1 \in 1..n /\ n \in 1..n /\ i + 1 - 1 = i /\ i + n - 1 = j
      /\ \A k \in 1..n : i + k - 1 \in i..j
  OBVIOUS
<1>2. f = [k \in 1..n |-> at[way.refs[i + k - 1]]]
  BY DEF Points
<1>3. \A k \in i..j : at[way.refs[k]] \in D
  BY DEF LocatedAlong
<1> HIDE DEF D, n, f
<1>4. f \in [1..n -> D]
  BY <1>1, <1>2, <1>3
<1>5. f \in Seq(D) /\ Len(f) = n
  BY <1>1, <1>4, FunctionIsSequence
<1>6. Head(f) = f[1] /\ Last(f) = f[n]
  BY <1>1, <1>5 DEF Last
<1>7. f[1] = at[way.refs[i]] /\ f[n] = at[way.refs[j]]
  BY <1>1, <1>2
<1>. QED
  BY <1>5, <1>6, <1>7 DEF D, f, n, RunsBetween

\* The pieces of located ways are such segments.
LEMMA PiecesAreSegments ==
    ASSUME NEW W, AreWays(W), NEW at, AreLocations(W, at), NEW s \in Pieces(W, at)
    PROVE  IsSegment(W, at, s)
<1>1. PICK way \in W : \E p \in Spans(W, way) : s = Piece(W, at, way, p)
  BY PieceOf
<1>2. PICK p \in Spans(W, way) : s = Piece(W, at, way, p)
  BY <1>1
<1> DEFINE i == p[1]
           j == p[2]
           a == way.refs[i]
           b == way.refs[j]
<1>3. /\ i \in Nat /\ j \in Nat /\ i < j
      /\ i \in Cuts(W, way) /\ j \in Cuts(W, way)
      /\ i \in 1..Len(way.refs) /\ j \in 1..Len(way.refs)
  BY SpanEnds
<1>4. a \in Retained(W) /\ b \in Retained(W)
  BY <1>3, WayCuts
<1>5. s.from = NodeId(W, a) /\ s.to = NodeId(W, b) /\ s.points = Points(at, way, i, j)
  BY <1>2 DEF Piece
<1>6. LocatedAlong(at, way, i, j)
  <2> SUFFICES ASSUME NEW k \in i..j PROVE at[way.refs[k]] \in Int \X Int
    BY DEF LocatedAlong
  <2>1. k \in DOMAIN way.refs
    BY <1>3, WayPlaces
  <2>2. way.refs[k] \in References(W)
    BY <2>1 DEF References, ToSet
  <2>. QED
    BY <2>2 DEF AreLocations
<1> HIDE DEF i, j
<1>7. /\ Points(at, way, i, j) \in Seq(Int \X Int)
      /\ Len(Points(at, way, i, j)) = j - i + 1
      /\ Head(Points(at, way, i, j)) = at[a]
      /\ Last(Points(at, way, i, j)) = at[b]
  <2>1. i < j /\ i \in Nat /\ j \in Nat
    BY <1>3
  <2>2. RunsBetween(at, way, i, j, Points(at, way, i, j))
    BY <2>1, <1>6, PointsAre
  <2>. QED
    BY <2>2 DEF RunsBetween
<1> HIDE DEF a, b
<1>8. j - i + 1 >= 2
  BY <1>3
<1>9. s.points \in Line /\ Len(s.points) >= 2
  BY <1>5, <1>7, <1>8 DEF Line
<1>10. /\ s.from \in 0..(Cardinality(Retained(W)) - 1)
       /\ s.to \in 0..(Cardinality(Retained(W)) - 1)
  BY <1>4, <1>5, NodeIds
<1>11. \E x, y \in Retained(W) :
         /\ NodeId(W, x) = s.from /\ Head(s.points) = at[x]
         /\ NodeId(W, y) = s.to /\ Last(s.points) = at[y]
  BY <1>4, <1>5, <1>7
<1>. QED
  BY <1>9, <1>10, <1>11 DEF IsSegment

-----------------------------------------------------------------------------
(* The graph.                                                              *)

\* The graph of the first k segments, on n nodes.
GraphOf(S, k, n) ==
    [nodes |-> 0..(n - 1),
     ends |-> [i \in 1..k |-> <<S[i].from, S[i].to>>],
     cost |-> [i \in 1..k |-> LengthOf(S[i].points)],
     direction |-> [i \in 1..k |-> DirectionOf(S[i].direction)]]

\* A sequence given by its elements, and one more.
LEMMA AppendedFunction ==
    ASSUME NEW k \in Nat, NEW g
    PROVE  Append([i \in 1..k |-> g[i]], g[k + 1]) = [i \in 1..(k + 1) |-> g[i]]
OBVIOUS

\* The graph without a segment is the builder's first.
LEMMA GraphOfNone == ASSUME NEW S, NEW n PROVE GraphOf(S, 0, n) = EmptyGraph(n)
<1>1. 1..0 = {}
  OBVIOUS
<1>2. \A g : g = [i \in {} |-> <<S[i].from, S[i].to>>] => g = <<>>
  OBVIOUS
<1>3. \A g : g = [i \in {} |-> LengthOf(S[i].points)] => g = <<>>
  OBVIOUS
<1>4. \A g : g = [i \in {} |-> DirectionOf(S[i].direction)] => g = <<>>
  OBVIOUS
<1>. QED
  BY <1>1, <1>2, <1>3, <1>4 DEF GraphOf, EmptyGraph

\* With the next segment connected, it is that of one more.
LEMMA GraphOfNext ==
    ASSUME NEW S, NEW k \in Nat, NEW n
    PROVE  Connected(GraphOf(S, k, n), S[k + 1].from, S[k + 1].to,
                     LengthOf(S[k + 1].points), DirectionOf(S[k + 1].direction))
             = GraphOf(S, k + 1, n)
<1> DEFINE m == k + 1
           ends == [i \in 1..m |-> <<S[i].from, S[i].to>>]
           cost == [i \in 1..m |-> LengthOf(S[i].points)]
           direction == [i \in 1..m |-> DirectionOf(S[i].direction)]
<1>1. m \in 1..m /\ 1..k \subseteq 1..m
  OBVIOUS
<1>2. /\ ends[m] = <<S[m].from, S[m].to>>
      /\ [i \in 1..k |-> <<S[i].from, S[i].to>>] = [i \in 1..k |-> ends[i]]
      /\ [i \in 1..m |-> ends[i]] = ends
  BY <1>1
<1>3. /\ cost[m] = LengthOf(S[m].points)
      /\ [i \in 1..k |-> LengthOf(S[i].points)] = [i \in 1..k |-> cost[i]]
      /\ [i \in 1..m |-> cost[i]] = cost
  BY <1>1
<1>4. /\ direction[m] = DirectionOf(S[m].direction)
      /\ [i \in 1..k |-> DirectionOf(S[i].direction)] = [i \in 1..k |-> direction[i]]
      /\ [i \in 1..m |-> direction[i]] = direction
  BY <1>1
<1>5. GraphOf(S, m, n) = [nodes |-> 0..(n - 1), ends |-> ends, cost |-> cost,
                          direction |-> direction]
  BY DEF GraphOf
<1> HIDE DEF ends, cost, direction
<1>6. /\ Append([i \in 1..k |-> ends[i]], ends[m]) = ends
      /\ Append([i \in 1..k |-> cost[i]], cost[m]) = cost
      /\ Append([i \in 1..k |-> direction[i]], direction[m]) = direction
  BY <1>2, <1>3, <1>4, AppendedFunction
<1>. QED
  BY <1>2, <1>3, <1>4, <1>5, <1>6 DEF GraphOf, Connected

-----------------------------------------------------------------------------
(* What an import must come to, from what is in the file: the set of its   *)
(* eligible ways and the locations of its nodes, in no order.              *)

IsFile(f) ==
    /\ f.ways \in Seq(Way) /\ f.nodes \in Seq(Node)
    /\ \A i, j \in DOMAIN f.ways : f.ways[i].id = f.ways[j].id => i = j
    /\ \A i, j \in DOMAIN f.nodes : f.nodes[i].id = f.nodes[j].id => i = j

\* The eligible ones of the first k ways.
EligibleIn(f, k) == {way \in {f.ways[i] : i \in 1..k} : IsEligible(way)}

EligibleOf(f) == {way \in ToSet(f.ways) : IsEligible(way)}

AreDirected(W) == \A way \in W : HasDirection(way)

ReferencesOf(f) == References(EligibleOf(f))

NodeIdsOf(f) == {node.id : node \in ToSet(f.nodes)}

\* Those of the needed nodes that are among the first k.
FoundIn(f, k) == {n \in ReferencesOf(f) : \E i \in 1..k : f.nodes[i].id = n}

LocationIn(f, n) == (CHOOSE node \in ToSet(f.nodes) : node.id = n).location

LocationsOf(f, N) == [n \in N |-> LocationIn(f, n)]

AreLocated(f, N) == \A n \in N : LocationIn(f, n) # Nowhere

\* What the topology asks of the k-th segment of S.
Joined(s) == {s.from, s.to}

IsNew(S, k) == \A j \in 1..(k - 1) : Joined(S[j]) # Joined(S[k])

IsSound(S, k) ==
    S[k].from # S[k].to /\ LengthOf(S[k].points) > 0 /\ IsNew(S, k)

Failed(kind, named) == [kind |-> kind, named |-> named]

\* What import() throws for a segment that is not sound.
Fault(S, k, o) ==
    \/ S[k].from = S[k].to /\ o = Failed("closed", Name(S[k]))
    \/ /\ S[k].from # S[k].to /\ LengthOf(S[k].points) <= 0
       /\ o = Failed("length", Name(S[k]))
    \/ /\ S[k].from # S[k].to /\ LengthOf(S[k].points) > 0
       /\ \E j \in 1..(k - 1) :
            /\ Joined(S[j]) = Joined(S[k])
            /\ o = Failed("pair", <<Name(S[j]), Name(S[k])>>)

GeometryFor(W, at, S, G) ==
    Geometry(Cardinality(G.nodes), Len(G.ends),
             [v \in G.nodes |-> at[CHOOSE n \in Retained(W) : NodeId(W, n) = v]],
             [e \in EdgeIds(G) |-> S[e].points])

FullGraph(W, S) == GraphOf(S, Len(S), Cardinality(Retained(W)))

MapOf(W, at, S) == Built(FullGraph(W, S), GeometryFor(W, at, S, FullGraph(W, S)))

\* The first segment that is not sound decides, or all become a map.
Topology(W, at, S, o) ==
    \/ \E k \in 1..Len(S) : (\A j \in 1..(k - 1) : IsSound(S, j)) /\ Fault(S, k, o)
    \/ (\A k \in 1..Len(S) : IsSound(S, k)) /\ o = MapOf(W, at, S)

Expected(f, o) ==
    LET W  == EligibleOf(f)
        N  == ReferencesOf(f)
        at == LocationsOf(f, N)
    IN  \/ ~AreDirected(W) /\ \E id : o = Failed("way", id)
        \/ /\ AreDirected(W) /\ ~AreLocated(f, N \cap NodeIdsOf(f))
           /\ \E id : o = Failed("node", id)
        \/ /\ AreDirected(W) /\ AreLocated(f, N \cap NodeIdsOf(f))
           /\ ~(N \subseteq NodeIdsOf(f))
           /\ \E id : o = Failed("missing", id)
        \/ /\ AreDirected(W) /\ AreLocated(f, N) /\ N \subseteq NodeIdsOf(f)
           /\ Topology(W, at, EdgeOrder(Pieces(W, at)), o)

-----------------------------------------------------------------------------
(* The invariant: how far each stage has come.                             *)

ReadingWays ==
    /\ position <= Len(file.ways) + 1
    /\ Ways = EligibleIn(file, position - 1) /\ AreDirected(Ways)
    /\ coordinates = LocationsOf(file, {})

ReadingNodes ==
    LET found == FoundIn(file, position - 1)
    IN  /\ position <= Len(file.nodes) + 1
        /\ Ways = EligibleOf(file) /\ AreDirected(Ways)
        /\ wanted = References(Ways) \ found
        /\ coordinates = LocationsOf(file, found)
        /\ AreLocated(file, found)

\* The file is read, and its ways are cut.
IsCut ==
    /\ Ways = EligibleOf(file) /\ AreDirected(Ways)
    /\ References(Ways) \subseteq NodeIdsOf(file)
    /\ coordinates = LocationsOf(file, References(Ways))
    /\ AreLocated(file, References(Ways))
    /\ segments = EdgeOrder(Pieces(Ways, coordinates))

Connecting ==
    /\ position <= Len(segments) + 1 /\ IsCut
    /\ graph = GraphOf(segments, position - 1, Cardinality(Retained(Ways)))
    /\ \A k \in 1..(position - 1) : IsSound(segments, k)

\* A map's graph is a graph, and the one of what was cut.
Delivers(o) ==
    o.kind = "map" => /\ IsGraph(o.graph) /\ IsCut
                      /\ o = MapOf(Ways, coordinates, segments)

Importing ==
    /\ IsFile(file) /\ eligible \in Seq(Way) /\ position \in Nat \ {0}
    /\ IsBuilt(graph)
    /\ stage \in {"ways", "nodes", "edges", "done"}
    /\ stage # "done" => outcome = Pending
    /\ stage = "ways" => ReadingWays
    /\ stage = "nodes" => ReadingNodes
    /\ stage = "edges" => Connecting
    /\ stage = "done" => Expected(file, outcome) /\ Delivers(outcome)
    /\ earlier = Pending \/ Expected(file, earlier)

-----------------------------------------------------------------------------
(* What is in a file.                                                      *)

\* The parts of a file have their types, and the numbers of their places.
LEMMA FileParts ==
    ASSUME NEW f, IsFile(f)
    PROVE  /\ Len(f.ways) \in Nat /\ DOMAIN f.ways = 1..Len(f.ways)
           /\ Len(f.nodes) \in Nat /\ DOMAIN f.nodes = 1..Len(f.nodes)
           /\ \A i \in DOMAIN f.ways : f.ways[i] \in Way
           /\ \A i \in DOMAIN f.nodes : f.nodes[i] \in Node
BY DEF IsFile

\* The eligible ways are ways to be cut.
LEMMA EligibleAreWays == ASSUME NEW f, IsFile(f) PROVE AreWays(EligibleOf(f))
<1> DEFINE W == EligibleOf(f)
<1>1. f.ways \in Seq(Way)
  BY DEF IsFile
<1>2. IsFiniteSet(ToSet(f.ways)) /\ ToSet(f.ways) \subseteq Way
  BY <1>1, ElementsAreFinite
<1>3. W \subseteq ToSet(f.ways) /\ \A way \in W : IsEligible(way)
  BY DEF EligibleOf
<1>4. IsFiniteSet(W)
  BY <1>2, <1>3, FS_Subset
<1>5. \A v, w \in W : v.id = w.id => v = w
  <2> SUFFICES ASSUME NEW v \in W, NEW w \in W, v.id = w.id PROVE v = w
    OBVIOUS
  <2>1. PICK i \in DOMAIN f.ways : f.ways[i] = v
    BY <1>3 DEF ToSet
  <2>2. PICK j \in DOMAIN f.ways : f.ways[j] = w
    BY <1>3 DEF ToSet
  <2>. QED
    BY <2>1, <2>2 DEF IsFile
<1>. QED
  BY <1>2, <1>3, <1>4, <1>5 DEF AreWays, IsEligible

\* None of the ways is read at first, all of them at the end.
LEMMA AllWaysRead ==
    ASSUME NEW f, IsFile(f)
    PROVE  EligibleIn(f, 0) = {} /\ EligibleIn(f, Len(f.ways)) = EligibleOf(f)
<1>1. 1..0 = {}
  OBVIOUS
<1>2. ToSet(f.ways) = {f.ways[i] : i \in 1..Len(f.ways)}
  BY FileParts DEF ToSet
<1>. QED
  BY <1>1, <1>2 DEF EligibleIn, EligibleOf

\* One more way is read.
LEMMA OneMoreWay ==
    ASSUME NEW f, NEW k \in Nat \ {0}
    PROVE  EligibleIn(f, k) = EligibleIn(f, k - 1)
                                \cup {way \in {f.ways[k]} : IsEligible(way)}
<1>1. 1..k = (1..(k - 1)) \cup {k}
  OBVIOUS
<1>2. {f.ways[i] : i \in 1..k} = {f.ways[i] : i \in 1..(k - 1)} \cup {f.ways[k]}
  BY <1>1
<1>. QED
  BY <1>2 DEF EligibleIn

\* None of the nodes is found at first, at the end those that are there.
LEMMA AllNodesRead ==
    ASSUME NEW f, IsFile(f)
    PROVE  /\ FoundIn(f, 0) = {}
           /\ FoundIn(f, Len(f.nodes)) = ReferencesOf(f) \cap NodeIdsOf(f)
<1>1. 1..0 = {}
  OBVIOUS
<1>2. \A n : n \in NodeIdsOf(f) <=> \E i \in 1..Len(f.nodes) : f.nodes[i].id = n
  BY FileParts DEF NodeIdsOf, ToSet
<1>. QED
  BY <1>1, <1>2 DEF FoundIn

\* One more node is read.
LEMMA OneMoreNode ==
    ASSUME NEW f, NEW k \in Nat \ {0}
    PROVE  FoundIn(f, k) = FoundIn(f, k - 1) \cup ({f.nodes[k].id} \cap ReferencesOf(f))
<1>1. \A i : i \in 1..k <=> i \in 1..(k - 1) \/ i = k
  OBVIOUS
<1>2. \A n : (\E i \in 1..k : f.nodes[i].id = n)
               <=> ((\E i \in 1..(k - 1) : f.nodes[i].id = n) \/ f.nodes[k].id = n)
  BY <1>1
<1>. QED
  BY <1>2 DEF FoundIn

\* Ids tell nodes apart, so a node is where the file says it is.
LEMMA LocationOfNode ==
    ASSUME NEW f, IsFile(f), NEW k \in DOMAIN f.nodes
    PROVE  /\ LocationIn(f, f.nodes[k].id) = f.nodes[k].location
           /\ f.nodes[k].id \in NodeIdsOf(f)
<1> DEFINE node == f.nodes[k]
           other == CHOOSE other \in ToSet(f.nodes) : other.id = node.id
<1>1. node \in ToSet(f.nodes)
  BY DEF ToSet
<1>2. other \in ToSet(f.nodes) /\ other.id = node.id
  BY <1>1
<1>3. LocationIn(f, node.id) = other.location
  BY DEF LocationIn
<1> HIDE DEF other
<1>4. PICK i \in DOMAIN f.nodes : f.nodes[i] = other
  BY <1>2 DEF ToSet
<1>5. other = node
  BY <1>2, <1>4 DEF IsFile
<1>. QED
  BY <1>1, <1>3, <1>5 DEF NodeIdsOf

\* The locations that nodes have are points.
LEMMA LocationsArePoints ==
    ASSUME NEW f, IsFile(f), NEW N, N \subseteq NodeIdsOf(f), AreLocated(f, N)
    PROVE  LocationsOf(f, N) \in [N -> Int \X Int]
<1>1. ASSUME NEW n \in N PROVE LocationIn(f, n) \in Int \X Int
  <2>1. PICK node \in ToSet(f.nodes) : node.id = n
    BY DEF NodeIdsOf
  <2>2. PICK k \in DOMAIN f.nodes : f.nodes[k] = node
    BY <2>1 DEF ToSet
  <2>3. LocationIn(f, n) = node.location
    BY <2>1, <2>2, LocationOfNode
  <2>4. node.location \in (Int \X Int) \cup {Nowhere}
    BY <2>2, FileParts DEF Node
  <2>. QED
    BY <2>3, <2>4 DEF AreLocated
<1>. QED
  BY <1>1 DEF LocationsOf

\* Files with the same ways and nodes must come to the same.
LEMMA SameContents ==
    ASSUME NEW f, NEW g, ToSet(f.ways) = ToSet(g.ways), ToSet(f.nodes) = ToSet(g.nodes),
           NEW o, Expected(f, o)
    PROVE  Expected(g, o)
<1>1. EligibleOf(f) = EligibleOf(g)
  BY DEF EligibleOf
<1>2. ReferencesOf(f) = ReferencesOf(g)
  BY <1>1 DEF ReferencesOf
<1>3. NodeIdsOf(f) = NodeIdsOf(g)
  BY DEF NodeIdsOf
<1>4. \A n : LocationIn(f, n) = LocationIn(g, n)
  BY DEF LocationIn
<1>5. \A N : LocationsOf(f, N) = LocationsOf(g, N)
  BY <1>4 DEF LocationsOf
<1>6. \A N : AreLocated(f, N) = AreLocated(g, N)
  BY <1>4 DEF AreLocated
<1>. QED
  BY <1>1, <1>2, <1>3, <1>5, <1>6 DEF Expected

\* The segments to be connected: those of the ways, in order, with ends,
\* lines and lengths.
AreSegments(W, at, S) ==
    /\ S \in Seq(Pieces(W, at)) /\ Len(S) \in Nat
    /\ \A k \in 1..Len(S) : /\ IsSegment(W, at, S[k])
                            /\ LengthOf(S[k].points) \in Nat

\* The sorted pieces of located ways are.
LEMMA SortedSegments ==
    ASSUME NEW W, AreWays(W), NEW at, AreLocations(W, at)
    PROVE  AreSegments(W, at, EdgeOrder(Pieces(W, at)))
<1> DEFINE P == Pieces(W, at)
           S == EdgeOrder(P)
<1>1. Sorts(S, P)
  BY EdgeOrderSorts
<1>2. \A s \in P : IsSegment(W, at, s)
  BY PiecesAreSegments
<1> HIDE DEF S, P
<1>3. S \in Seq(P) /\ Len(S) \in Nat /\ \A k \in 1..Len(S) : S[k] \in P
  BY <1>1 DEF Sorts
<1>4. \A k \in 1..Len(S) : IsSegment(W, at, S[k])
  BY <1>2, <1>3
<1>5. \A k \in 1..Len(S) : LengthOf(S[k].points) \in Nat
  BY <1>4, LengthsAreNatural DEF IsSegment
<1>6. S \in Seq(Pieces(W, at))
  BY <1>3 DEF P
<1>7. AreSegments(W, at, S)
  BY <1>3, <1>4, <1>5, <1>6 DEF AreSegments
<1>. QED
  BY <1>7 DEF S, P

\* A segment that is refused is not sound.
LEMMA FaultsAreFaults ==
    ASSUME NEW S, NEW k, LengthOf(S[k].points) \in Nat, NEW o, Fault(S, k, o)
    PROVE  ~IsSound(S, k)
<1>1. CASE S[k].from = S[k].to
  BY <1>1 DEF IsSound
<1>2. CASE LengthOf(S[k].points) <= 0
  BY <1>2 DEF IsSound
<1>3. CASE \E j \in 1..(k - 1) : Joined(S[j]) = Joined(S[k])
  BY <1>3 DEF IsSound, IsNew
<1>. QED
  BY <1>1, <1>2, <1>3 DEF Fault

\* There is one reason for it, and one earlier segment in its place.
LEMMA OneFault ==
    ASSUME NEW S, NEW k \in Nat, LengthOf(S[k].points) \in Nat,
           \A j \in 1..(k - 1) : IsSound(S, j),
           NEW o, NEW p, Fault(S, k, o), Fault(S, k, p)
    PROVE  o = p
<1>1. CASE S[k].from = S[k].to \/ LengthOf(S[k].points) <= 0
  BY <1>1 DEF Fault
<1>2. CASE S[k].from # S[k].to /\ LengthOf(S[k].points) > 0
  <2>1. PICK i \in 1..(k - 1) : /\ Joined(S[i]) = Joined(S[k])
                                /\ o = Failed("pair", <<Name(S[i]), Name(S[k])>>)
    BY <1>2 DEF Fault
  <2>2. PICK j \in 1..(k - 1) : /\ Joined(S[j]) = Joined(S[k])
                                /\ p = Failed("pair", <<Name(S[j]), Name(S[k])>>)
    BY <1>2 DEF Fault
  <2>3. i = j
    <3>1. ~(i < j)
      <4>1. IsSound(S, j)
        OBVIOUS
      <4>2. i < j => i \in 1..(j - 1)
        OBVIOUS
      <4>. QED
        BY <2>1, <2>2, <4>1, <4>2 DEF IsSound, IsNew
    <3>2. ~(j < i)
      <4>1. IsSound(S, i)
        OBVIOUS
      <4>2. j < i => j \in 1..(i - 1)
        OBVIOUS
      <4>. QED
        BY <2>1, <2>2, <4>1, <4>2 DEF IsSound, IsNew
    <3>. QED
      BY <3>1, <3>2
  <2>. QED
    BY <2>1, <2>2, <2>3
<1>. QED
  BY <1>1, <1>2

\* Of the same ways and locations comes one result.
LEMMA OneTopology ==
    ASSUME NEW W, NEW at, NEW S, AreSegments(W, at, S),
           NEW o, NEW p, Topology(W, at, S, o), Topology(W, at, S, p)
    PROVE  o = p
<1>1. Len(S) \in Nat /\ \A k \in 1..Len(S) : LengthOf(S[k].points) \in Nat
  BY DEF AreSegments
<1>2. ASSUME NEW q, \A k \in 1..Len(S) : IsSound(S, k), Topology(W, at, S, q)
      PROVE  q = MapOf(W, at, S)
  BY <1>1, <1>2, FaultsAreFaults DEF Topology
<1>3. CASE \A k \in 1..Len(S) : IsSound(S, k)
  BY <1>2, <1>3
<1>4. CASE ~(\A k \in 1..Len(S) : IsSound(S, k))
  <2>1. PICK j \in 1..Len(S) : (\A i \in 1..(j - 1) : IsSound(S, i)) /\ Fault(S, j, o)
    BY <1>4 DEF Topology
  <2>2. PICK k \in 1..Len(S) : (\A i \in 1..(k - 1) : IsSound(S, i)) /\ Fault(S, k, p)
    BY <1>4 DEF Topology
  <2>3. ~IsSound(S, j) /\ ~IsSound(S, k)
    BY <1>1, <2>1, <2>2, FaultsAreFaults
  <2>4. j = k
    <3>1. j \in Nat /\ k \in Nat /\ 1 <= j /\ 1 <= k
      BY <1>1
    <3>2. ~(j < k) /\ ~(k < j)
      BY <2>1, <2>2, <2>3, <3>1
    <3>. QED
      BY <3>1, <3>2
  <2>5. j \in Nat /\ LengthOf(S[j].points) \in Nat
    BY <1>1
  <2>6. Fault(S, j, o) /\ Fault(S, j, p)
    BY <2>1, <2>2, <2>4
  <2>. QED
    BY <2>1, <2>5, <2>6, OneFault
<1>. QED
  BY <1>3, <1>4

\* Of the same file comes one verdict.
LEMMA OneVerdict ==
    ASSUME NEW f, IsFile(f), NEW o, NEW p, Expected(f, o), Expected(f, p)
    PROVE  Verdict(o) = Verdict(p)
<1> DEFINE W == EligibleOf(f)
           N == ReferencesOf(f)
           at == LocationsOf(f, N)
           S == EdgeOrder(Pieces(W, at))
           Of(kind, q) == \E id : q = Failed(kind, id)
<1>1. ASSUME NEW q, NEW kind \in {"way", "node", "missing"}, Of(kind, q)
      PROVE  Verdict(q) = Failed(kind, 0)
  BY <1>1 DEF Failed, Verdict
<1>2. CASE ~AreDirected(W)
  <2>1. Of("way", o) /\ Of("way", p)
    BY <1>2 DEF Expected
  <2>. QED
    BY <1>1, <2>1
<1>3. CASE AreDirected(W) /\ ~AreLocated(f, N \cap NodeIdsOf(f))
  <2>1. ~AreLocated(f, N)
    BY <1>3 DEF AreLocated
  <2>2. Of("node", o) /\ Of("node", p)
    BY <1>3, <2>1 DEF Expected
  <2>. QED
    BY <1>1, <2>2
<1>4. CASE /\ AreDirected(W) /\ AreLocated(f, N \cap NodeIdsOf(f))
           /\ ~(N \subseteq NodeIdsOf(f))
  <2>1. Of("missing", o) /\ Of("missing", p)
    BY <1>4 DEF Expected
  <2>. QED
    BY <1>1, <2>1
<1>5. CASE /\ AreDirected(W) /\ AreLocated(f, N \cap NodeIdsOf(f))
           /\ N \subseteq NodeIdsOf(f)
  <2>1. AreLocated(f, N) /\ Topology(W, at, S, o) /\ Topology(W, at, S, p)
    BY <1>5 DEF Expected
  <2>2. AreWays(W)
    BY EligibleAreWays
  <2>3. AreLocations(W, at)
    <3>1. at \in [N -> Int \X Int]
      BY <1>5, <2>1, LocationsArePoints
    <3>. QED
      BY <3>1 DEF AreLocations, ReferencesOf
  <2> HIDE DEF W, at
  <2>4. AreSegments(W, at, S)
    BY <2>2, <2>3, SortedSegments
  <2> HIDE DEF S
  <2>5. o = p
    BY <2>1, <2>4, OneTopology
  <2>. QED
    BY <2>5
<1>. QED
  BY <1>2, <1>3, <1>4, <1>5

-----------------------------------------------------------------------------
(* The steps, each from what the stages before it have established.        *)

\* What an appended sequence has in it.
LEMMA AppendedSet ==
    ASSUME NEW T, NEW s \in Seq(T), NEW x \in T
    PROVE  ToSet(Append(s, x)) = ToSet(s) \cup {x}
<1>1. /\ DOMAIN Append(s, x) = DOMAIN s \cup {Len(s) + 1}
      /\ Append(s, x)[Len(s) + 1] = x
      /\ \A i \in DOMAIN s : Append(s, x)[i] = s[i]
  OBVIOUS
<1>. QED
  BY <1>1 DEF ToSet

\* import() starts.
LEMMA ImportStarts == Init => Importing
<1> SUFFICES ASSUME Init PROVE Importing
  OBVIOUS
<1>1. IsFile(file)
  BY FilesAssumption DEF Init, IsFile
<1>2. IsBuilt(graph)
  BY EmptyGraphIsBuilt DEF Init
<1>3. ReadingWays
  <2>1. position = 1 /\ position - 1 = 0 /\ 1 <= Len(file.ways) + 1
    BY <1>1, FileParts DEF Init
  <2>2. Ways = {}
    BY DEF Init, Ways, ToSet
  <2>3. EligibleIn(file, 0) = {}
    BY <1>1, AllWaysRead
  <2>4. coordinates = LocationsOf(file, {})
    <3>1. coordinates = <<>>
      BY DEF Init
    <3>. QED
      BY <3>1 DEF LocationsOf
  <2>. QED
    BY <2>1, <2>2, <2>3, <2>4 DEF ReadingWays, AreDirected
<1>. QED
  BY <1>1, <1>2, <1>3 DEF Init, Importing

\* WayCollector::way.
LEMMA ReadWayStep == ASSUME Importing, ReadWay PROVE Importing'
<1> DEFINE way == file.ways[position]
<1>1. /\ IsFile(file) /\ eligible \in Seq(Way) /\ position \in Nat \ {0}
      /\ IsBuilt(graph) /\ stage = "ways" /\ outcome = Pending /\ ReadingWays
      /\ (earlier = Pending \/ Expected(file, earlier))
  BY DEF Importing, ReadWay
<1>2. /\ position <= Len(file.ways) /\ position' = position + 1
      /\ UNCHANGED <<file, wanted, coordinates, segments, graph, earlier>>
  BY DEF ReadWay
<1>3. way \in Way /\ way \in ToSet(file.ways) /\ Len(file.ways) \in Nat
  BY <1>1, <1>2, FileParts DEF ToSet
<1>4. /\ Ways = EligibleIn(file, position - 1) /\ AreDirected(Ways)
      /\ coordinates = LocationsOf(file, {})
  BY <1>1 DEF ReadingWays
<1>5. EligibleIn(file, position) = Ways \cup {w \in {way} : IsEligible(w)}
  BY <1>1, <1>4, OneMoreWay
<1>6. position' \in Nat \ {0} /\ position' <= Len(file.ways) + 1 /\ position' - 1 = position
  BY <1>1, <1>2, <1>3
<1>7. coordinates' = LocationsOf(file', {})
  BY <1>2, <1>4
<1>8. IsBuilt(graph)' /\ (earlier' = Pending \/ Expected(file', earlier')) /\ IsFile(file')
  BY <1>1, <1>2
<1> HIDE DEF way
<1>9. CASE ~IsEligible(way) /\ UNCHANGED <<eligible, stage, outcome>>
  <2>1. Ways' = Ways /\ AreDirected(Ways')
    BY <1>4, <1>9 DEF Ways
  <2>2. EligibleIn(file', position' - 1) = Ways'
    BY <1>2, <1>5, <1>6, <1>9, <2>1
  <2>3. ReadingWays'
    BY <1>2, <1>6, <1>7, <2>1, <2>2 DEF ReadingWays
  <2>. QED
    BY <1>1, <1>6, <1>8, <1>9, <2>3 DEF Importing
<1>10. CASE /\ IsEligible(way) /\ HasDirection(way)
            /\ eligible' = Append(eligible, way) /\ UNCHANGED <<stage, outcome>>
  <2>1. Ways' = Ways \cup {way} /\ eligible' \in Seq(Way)
    BY <1>1, <1>3, <1>10, AppendedSet DEF Ways
  <2>2. AreDirected(Ways')
    BY <1>4, <1>10, <2>1 DEF AreDirected
  <2>3. EligibleIn(file', position' - 1) = Ways'
    BY <1>2, <1>5, <1>6, <1>10, <2>1
  <2>4. ReadingWays'
    BY <1>2, <1>6, <1>7, <2>2, <2>3 DEF ReadingWays
  <2>. QED
    BY <1>1, <1>6, <1>8, <1>10, <2>1, <2>4 DEF Importing
<1>11. CASE /\ IsEligible(way) /\ ~HasDirection(way)
            /\ Throw("way", way.id) /\ UNCHANGED eligible
  <2>1. stage' = "done" /\ outcome' = Failed("way", way.id)
    BY <1>11 DEF Throw, Failed
  <2>2. ~AreDirected(EligibleOf(file))
    BY <1>3, <1>11 DEF AreDirected, EligibleOf
  <2>3. Expected(file', outcome')
    BY <1>2, <2>1, <2>2 DEF Expected
  <2>4. Delivers(outcome)'
    BY <2>1 DEF Delivers, Failed
  <2>. QED
    BY <1>1, <1>6, <1>8, <1>11, <2>1, <2>3, <2>4 DEF Importing
<1>. QED
  BY <1>9, <1>10, <1>11 DEF ReadWay, way

\* The end of the first pass.
LEMMA EndWaysStep == ASSUME Importing, EndWays PROVE Importing'
<1>1. /\ IsFile(file) /\ eligible \in Seq(Way) /\ position \in Nat \ {0}
      /\ IsBuilt(graph) /\ stage = "ways" /\ outcome = Pending /\ ReadingWays
      /\ (earlier = Pending \/ Expected(file, earlier))
  BY DEF Importing, EndWays
<1>2. /\ position > Len(file.ways) /\ stage' = "nodes" /\ position' = 1
      /\ wanted' = References(Ways)
      /\ UNCHANGED <<file, eligible, coordinates, segments, graph, outcome, earlier>>
  BY DEF EndWays
<1>3. Len(file.ways) \in Nat /\ Len(file.nodes) \in Nat
  BY <1>1, FileParts
<1>4. position - 1 = Len(file.ways)
  BY <1>1, <1>2, <1>3 DEF ReadingWays
<1>5. Ways' = Ways /\ Ways = EligibleOf(file) /\ AreDirected(Ways)
  BY <1>1, <1>2, <1>4, AllWaysRead DEF ReadingWays, Ways
<1>6. FoundIn(file, 0) = {}
  BY <1>1, AllNodesRead
<1>7. position' - 1 = 0 /\ 1 <= Len(file.nodes) + 1
  BY <1>2, <1>3
<1>8. AreLocated(file, {})
  BY DEF AreLocated
<1>9. coordinates' = LocationsOf(file, {})
  BY <1>1, <1>2 DEF ReadingWays
<1>10. ReadingNodes'
  BY <1>2, <1>5, <1>6, <1>7, <1>8, <1>9 DEF ReadingNodes
<1>. QED
  BY <1>1, <1>2, <1>10 DEF Importing

\* NodeCollector::node.
LEMMA ReadNodeStep == ASSUME Importing, ReadNode PROVE Importing'
<1> DEFINE node == file.nodes[position]
           found == FoundIn(file, position - 1)
           next == FoundIn(file, position)
<1>1. /\ IsFile(file) /\ eligible \in Seq(Way) /\ position \in Nat \ {0}
      /\ IsBuilt(graph) /\ stage = "nodes" /\ outcome = Pending /\ ReadingNodes
      /\ (earlier = Pending \/ Expected(file, earlier))
  BY DEF Importing, ReadNode
<1>2. /\ position <= Len(file.nodes) /\ position' = position + 1
      /\ UNCHANGED <<file, eligible, segments, graph, earlier>>
  BY DEF ReadNode
<1>3. position \in DOMAIN file.nodes /\ Len(file.nodes) \in Nat
  BY <1>1, <1>2, FileParts
<1>4. /\ Ways = EligibleOf(file) /\ AreDirected(Ways)
      /\ wanted = References(Ways) \ found
      /\ coordinates = LocationsOf(file, found) /\ AreLocated(file, found)
  BY <1>1 DEF ReadingNodes
<1>5. LocationIn(file, node.id) = node.location /\ node.id \in NodeIdsOf(file)
  BY <1>1, <1>3, LocationOfNode
<1>6. References(Ways) = ReferencesOf(file)
  BY <1>4 DEF ReferencesOf
<1>7. next = found \cup ({node.id} \cap References(Ways))
  BY <1>1, <1>6, OneMoreNode
<1>8. position' \in Nat \ {0} /\ position' <= Len(file.nodes) + 1 /\ position' - 1 = position
  BY <1>1, <1>2, <1>3
<1>9. IsBuilt(graph)' /\ (earlier' = Pending \/ Expected(file', earlier')) /\ IsFile(file')
      /\ eligible' \in Seq(Way)
  BY <1>1, <1>2
<1>10. Ways' = Ways /\ References(Ways)' = References(Ways)
  BY <1>2 DEF Ways, References
<1>11. found \subseteq References(Ways)
  BY <1>6 DEF FoundIn
<1> HIDE DEF node, found, next
<1>12. CASE node.id \notin wanted /\ UNCHANGED <<wanted, coordinates, stage, outcome>>
  <2>1. next = found
    BY <1>4, <1>7, <1>12
  <2>2. FoundIn(file', position' - 1) = found
    BY <1>2, <1>8, <2>1 DEF next
  <2>3. ReadingNodes'
    BY <1>2, <1>4, <1>8, <1>10, <1>12, <2>2 DEF ReadingNodes
  <2>. QED
    BY <1>1, <1>8, <1>9, <1>12, <2>3 DEF Importing
<1>13. CASE /\ node.id \in wanted /\ node.location = Nowhere
            /\ Throw("node", node.id)
  <2>1. stage' = "done" /\ outcome' = Failed("node", node.id)
    BY <1>13 DEF Throw, Failed
  <2>2. node.id \in ReferencesOf(file) \cap NodeIdsOf(file)
    BY <1>4, <1>5, <1>6, <1>13
  <2>3. ~AreLocated(file, ReferencesOf(file) \cap NodeIdsOf(file))
    BY <1>5, <1>13, <2>2 DEF AreLocated
  <2>4. Expected(file', outcome')
    BY <1>2, <1>4, <2>1, <2>3 DEF Expected
  <2>5. Delivers(outcome)'
    BY <2>1 DEF Delivers, Failed
  <2>. QED
    BY <1>1, <1>8, <1>9, <2>1, <2>4, <2>5 DEF Importing
<1>14. CASE /\ node.id \in wanted /\ wanted' = wanted \ {node.id}
            /\ node.location # Nowhere
            /\ coordinates' = [n \in DOMAIN coordinates \cup {node.id} |->
                  IF n = node.id THEN node.location ELSE coordinates[n]]
            /\ UNCHANGED <<stage, outcome>>
  <2>1. next = found \cup {node.id}
    BY <1>4, <1>7, <1>14
  <2>2. FoundIn(file', position' - 1) = next
    BY <1>2, <1>8 DEF next
  <2>3. wanted' = References(Ways)' \ next
    BY <1>4, <1>10, <1>14, <2>1
  <2>4. DOMAIN coordinates = found /\ \A n \in found : coordinates[n] = LocationIn(file, n)
    BY <1>4 DEF LocationsOf
  <2>5. coordinates' = [n \in next |-> LocationIn(file, n)]
    BY <1>5, <1>14, <2>1, <2>4
  <2>6. coordinates' = LocationsOf(file', next)
    BY <1>2, <2>5 DEF LocationsOf
  <2>7. AreLocated(file', next)
    BY <1>2, <1>4, <1>5, <1>14, <2>1 DEF AreLocated
  <2>8. Ways' = EligibleOf(file') /\ AreDirected(Ways')
    BY <1>2, <1>4, <1>10
  <2>9. ReadingNodes'
    BY <1>2, <1>8, <2>2, <2>3, <2>6, <2>7, <2>8 DEF ReadingNodes
  <2>. QED
    BY <1>1, <1>8, <1>9, <1>14, <2>9 DEF Importing
<1>. QED
  BY <1>12, <1>13, <1>14 DEF ReadNode, node

\* A node that is missing.
LEMMA MissNodeStep == ASSUME Importing, MissNode PROVE Importing'
<1>1. /\ IsFile(file) /\ eligible \in Seq(Way) /\ position \in Nat \ {0}
      /\ IsBuilt(graph) /\ stage = "nodes" /\ ReadingNodes
      /\ (earlier = Pending \/ Expected(file, earlier))
  BY DEF Importing, MissNode
<1>2. PICK missing \in wanted : Throw("missing", missing)
  BY DEF MissNode
<1>3. /\ position > Len(file.nodes)
      /\ UNCHANGED <<file, position, eligible, wanted, coordinates, segments, graph, earlier>>
  BY DEF MissNode
<1>4. position - 1 = Len(file.nodes)
  BY <1>1, <1>3, FileParts DEF ReadingNodes
<1> DEFINE N == ReferencesOf(file)
           there == N \cap NodeIdsOf(file)
<1>5. FoundIn(file, position - 1) = there
  BY <1>1, <1>4, AllNodesRead
<1>6. /\ AreDirected(EligibleOf(file)) /\ wanted = N \ there /\ AreLocated(file, there)
  BY <1>1, <1>5 DEF ReadingNodes, ReferencesOf
<1>7. ~(N \subseteq NodeIdsOf(file))
  BY <1>2, <1>6
<1>8. stage' = "done" /\ outcome' = Failed("missing", missing)
  BY <1>2 DEF Throw, Failed
<1>9. Expected(file', outcome')
  BY <1>3, <1>6, <1>7, <1>8 DEF Expected
<1>10. Delivers(outcome)'
  BY <1>8 DEF Delivers, Failed
<1>. QED
  BY <1>1, <1>3, <1>8, <1>9, <1>10 DEF Importing

\* The ways are cut.
LEMMA SplitStep == ASSUME Importing, Split PROVE Importing'
<1>1. /\ IsFile(file) /\ eligible \in Seq(Way) /\ position \in Nat \ {0}
      /\ stage = "nodes" /\ outcome = Pending /\ ReadingNodes
      /\ (earlier = Pending \/ Expected(file, earlier))
  BY DEF Importing, Split
<1>2. /\ position > Len(file.nodes) /\ wanted = {} /\ stage' = "edges" /\ position' = 1
      /\ segments' = EdgeOrder(Pieces(Ways, coordinates))
      /\ graph' = EmptyGraph(Cardinality(Retained(Ways)))
      /\ UNCHANGED <<file, eligible, wanted, coordinates, outcome, earlier>>
  BY DEF Split
<1>3. position - 1 = Len(file.nodes)
  BY <1>1, <1>2, FileParts DEF ReadingNodes
<1> DEFINE N == References(Ways)
           there == N \cap NodeIdsOf(file)
<1>4. Ways = EligibleOf(file) /\ AreDirected(Ways)
  BY <1>1 DEF ReadingNodes
<1>5. FoundIn(file, position - 1) = there
  BY <1>1, <1>3, <1>4, AllNodesRead DEF ReferencesOf
<1>6. wanted = N \ there /\ coordinates = LocationsOf(file, there) /\ AreLocated(file, there)
  BY <1>1, <1>5 DEF ReadingNodes
<1>7. there = N /\ N \subseteq NodeIdsOf(file)
  BY <1>2, <1>6
<1>8. Ways' = Ways
  BY <1>2 DEF Ways
<1>9. AreWays(Ways)
  BY <1>1, <1>4, EligibleAreWays
<1>10. AreLocations(Ways, coordinates)
  <2>1. LocationsOf(file, N) \in [N -> Int \X Int]
    BY <1>1, <1>6, <1>7, LocationsArePoints
  <2>. QED
    BY <1>6, <1>7, <2>1 DEF AreLocations
<1> DEFINE n == Cardinality(Retained(Ways))
           S == EdgeOrder(Pieces(Ways, coordinates))
<1>11. n \in Nat /\ IsBuilt(graph')
  BY <1>2, <1>9, RetainedNodes, EmptyGraphIsBuilt
<1>12. Len(S) \in Nat
  BY <1>9, <1>10, SortedSegments DEF AreSegments
<1>13. graph' = GraphOf(segments', 0, n)
  BY <1>2, GraphOfNone
<1>14. position' - 1 = 0 /\ position' <= Len(segments') + 1 /\ position' \in Nat \ {0}
       /\ 1..0 = {}
  BY <1>2, <1>12
<1> HIDE DEF S, n
<1>15. Connecting'
  <2>1. segments' = EdgeOrder(Pieces(Ways', coordinates'))
    BY <1>2, <1>8
  <2>2. Ways' = EligibleOf(file') /\ AreDirected(Ways')
        /\ References(Ways') \subseteq NodeIdsOf(file')
        /\ coordinates' = LocationsOf(file', References(Ways'))
        /\ AreLocated(file', References(Ways'))
    BY <1>2, <1>4, <1>6, <1>7, <1>8
  <2>3. graph' = GraphOf(segments', position' - 1, Cardinality(Retained(Ways')))
    BY <1>8, <1>13, <1>14 DEF n
  <2>4. \A k \in 1..(position' - 1) : IsSound(segments', k)
    BY <1>14
  <2>. QED
    BY <1>14, <2>1, <2>2, <2>3, <2>4 DEF Connecting, IsCut
<1>. QED
  BY <1>1, <1>2, <1>11, <1>14, <1>15 DEF Importing

\* What is cut of a file.
LEMMA SegmentsCut ==
    ASSUME IsFile(file), IsCut
    PROVE  /\ AreWays(Ways) /\ AreLocations(Ways, coordinates)
           /\ AreSegments(Ways, coordinates, segments)
<1>1. /\ Ways = EligibleOf(file) /\ References(Ways) \subseteq NodeIdsOf(file)
      /\ coordinates = LocationsOf(file, References(Ways))
      /\ AreLocated(file, References(Ways))
      /\ segments = EdgeOrder(Pieces(Ways, coordinates))
  BY DEF IsCut
<1>2. AreWays(Ways)
  BY <1>1, EligibleAreWays
<1>3. LocationsOf(file, References(Ways)) \in [References(Ways) -> Int \X Int]
  BY <1>1, LocationsArePoints
<1>4. AreLocations(Ways, coordinates)
  BY <1>1, <1>3 DEF AreLocations
<1>5. AreSegments(Ways, coordinates, EdgeOrder(Pieces(Ways, coordinates)))
  BY <1>2, <1>4, SortedSegments
<1>. QED
  BY <1>1, <1>2, <1>4, <1>5

\* It is to be connected, in the last stage.
LEMMA SegmentsToConnect ==
    ASSUME IsFile(file), Connecting
    PROVE  /\ AreWays(Ways) /\ AreLocations(Ways, coordinates)
           /\ AreSegments(Ways, coordinates, segments)
BY SegmentsCut DEF Connecting

\* G joins n nodes by the first k segments.
Joins(G, S, k, n) ==
    /\ G.nodes = 0..(n - 1) /\ EdgeIds(G) = 1..k /\ Len(G.ends) = k
    /\ \A e \in 1..k : /\ G.ends[e][1] = S[e].from /\ G.ends[e][2] = S[e].to
                       /\ Ends(G, e) = Joined(S[e])

\* Their graph does.
LEMMA GraphParts ==
    ASSUME NEW S, NEW k \in Nat, NEW n
    PROVE  Joins(GraphOf(S, k, n), S, k, n)
<1> DEFINE G == GraphOf(S, k, n)
<1>1. G.nodes = 0..(n - 1) /\ G.ends = [i \in 1..k |-> <<S[i].from, S[i].to>>]
  BY DEF GraphOf
<1>2. DOMAIN G.ends = 1..k /\ \A e \in 1..k : G.ends[e] = <<S[e].from, S[e].to>>
  BY <1>1
<1>3. Len(G.ends) = k
  <2> DEFINE D == {<<S[i].from, S[i].to>> : i \in 1..k}
             h == G.ends
  <2>1. h \in [1..k -> D]
    BY <1>1
  <2> HIDE DEF D, h
  <2>2. Len(h) = k
    BY <2>1, FunctionIsSequence
  <2>. QED
    BY <2>2 DEF h
<1> HIDE DEF G
<1>4. Joins(G, S, k, n)
  BY <1>1, <1>2, <1>3 DEF Joins, EdgeIds, Ends, Joined
<1>. QED
  BY <1>4 DEF G

\* A segment is checked and becomes an edge.
LEMMA ConnectStep == ASSUME Importing, Connect PROVE Importing'
<1> DEFINE k == position
           s == segments[k]
           cost == LengthOf(s.points)
           n == Cardinality(Retained(Ways))
           used == {e \in EdgeIds(graph) : Ends(graph, e) = {s.from, s.to}}
<1>1. /\ IsFile(file) /\ eligible \in Seq(Way) /\ k \in Nat \ {0}
      /\ IsBuilt(graph) /\ stage = "edges" /\ outcome = Pending /\ Connecting
      /\ (earlier = Pending \/ Expected(file, earlier))
  BY DEF Importing, Connect
<1>2. /\ k <= Len(segments) /\ position' = k + 1
      /\ UNCHANGED <<file, eligible, wanted, coordinates, segments, earlier>>
  BY DEF Connect
<1>3. /\ Ways = EligibleOf(file) /\ AreDirected(Ways)
      /\ References(Ways) \subseteq NodeIdsOf(file)
      /\ coordinates = LocationsOf(file, References(Ways))
      /\ AreLocated(file, References(Ways))
      /\ segments = EdgeOrder(Pieces(Ways, coordinates))
      /\ graph = GraphOf(segments, k - 1, n)
      /\ \A j \in 1..(k - 1) : IsSound(segments, j)
  BY <1>1 DEF Connecting, IsCut
<1>4. AreSegments(Ways, coordinates, segments)
  BY <1>1, SegmentsToConnect
<1>5. Len(segments) \in Nat /\ k \in 1..Len(segments)
  BY <1>1, <1>2, <1>4 DEF AreSegments
<1>6. cost \in Nat /\ s.from \in 0..(n - 1) /\ s.to \in 0..(n - 1)
  BY <1>4, <1>5 DEF AreSegments, IsSegment
<1>7. k - 1 \in Nat /\ (k - 1) + 1 = k
  BY <1>1
<1>8. /\ graph.nodes = 0..(n - 1) /\ EdgeIds(graph) = 1..(k - 1)
      /\ \A e \in 1..(k - 1) : Ends(graph, e) = Joined(segments[e])
  <2>1. Joins(GraphOf(segments, k - 1, n), segments, k - 1, n)
    BY <1>7, GraphParts
  <2>. QED
    BY <1>3, <2>1 DEF Joins
<1>9. \A e : e \in used <=> e \in 1..(k - 1) /\ Joined(segments[e]) = Joined(s)
  BY <1>8 DEF Joined
<1>10. Ways' = Ways
  BY <1>2 DEF Ways
<1>11. /\ IsFile(file)' /\ eligible' \in Seq(Way) /\ position' \in Nat \ {0}
       /\ (earlier' = Pending \/ Expected(file', earlier'))
  BY <1>1, <1>2
<1>12. ASSUME NEW o, Fault(segments, k, o), o.kind # "map", UNCHANGED graph,
              stage' = "done", outcome' = o
       PROVE  Importing'
  <2>1. Topology(Ways, coordinates, segments, o)
    BY <1>3, <1>5, <1>12 DEF Topology
  <2>2. Expected(file, o)
    BY <1>3, <2>1 DEF Expected, ReferencesOf
  <2>3. Delivers(outcome)' /\ Expected(file', outcome')
    BY <1>2, <1>12, <2>2 DEF Delivers
  <2>. QED
    BY <1>1, <1>11, <1>12, <2>3 DEF Importing
<1> HIDE DEF s, cost, used
<1>13. CASE s.from = s.to /\ Throw("closed", Name(s)) /\ UNCHANGED graph
  <2> DEFINE o == Failed("closed", Name(s))
  <2>1. stage' = "done" /\ outcome' = o /\ o.kind # "map"
    BY <1>13 DEF Throw, Failed
  <2>2. Fault(segments, k, o)
    BY <1>13 DEF Fault, s
  <2> HIDE DEF o
  <2>. QED
    BY <1>12, <1>13, <2>1, <2>2
<1>14. CASE s.from # s.to /\ cost <= 0 /\ Throw("length", Name(s)) /\ UNCHANGED graph
  <2> DEFINE o == Failed("length", Name(s))
  <2>1. stage' = "done" /\ outcome' = o /\ o.kind # "map"
    BY <1>14 DEF Throw, Failed
  <2>2. Fault(segments, k, o)
    BY <1>14 DEF Fault, s, cost
  <2> HIDE DEF o
  <2>. QED
    BY <1>12, <1>14, <2>1, <2>2
<1>15. CASE /\ s.from # s.to /\ cost > 0
            /\ \E e \in used : Throw("pair", <<Name(segments[e]), Name(s)>>)
            /\ UNCHANGED graph
  <2>1. PICK e \in used : Throw("pair", <<Name(segments[e]), Name(s)>>)
    BY <1>15
  <2> DEFINE o == Failed("pair", <<Name(segments[e]), Name(s)>>)
  <2>2. stage' = "done" /\ outcome' = o /\ o.kind # "map"
    BY <2>1 DEF Throw, Failed
  <2>3. e \in 1..(k - 1) /\ Joined(segments[e]) = Joined(s)
    BY <1>9
  <2>4. Fault(segments, k, o)
    BY <1>15, <2>3 DEF Fault, s, cost
  <2> HIDE DEF o
  <2>. QED
    BY <1>12, <1>15, <2>2, <2>4
<1>16. ASSUME s.from # s.to, cost > 0, used = {}
       PROVE  ConnectAccepts(graph, s.from, s.to, cost)
  <2>1. {s.from, s.to} \subseteq graph.nodes /\ cost \in Nat \ {0}
    BY <1>6, <1>8, <1>16
  <2>2. \A e \in EdgeIds(graph) : Ends(graph, e) # {s.from, s.to}
    BY <1>16 DEF used
  <2>. QED
    BY <1>16, <2>1, <2>2 DEF ConnectAccepts
<1>17. CASE /\ s.from # s.to /\ cost > 0 /\ used = {}
            /\ graph' = Connected(graph, s.from, s.to, cost, DirectionOf(s.direction))
            /\ UNCHANGED <<stage, outcome>>
  <2>1. IsBuilt(graph')
    <3>1. ConnectAccepts(graph, s.from, s.to, cost)
      BY <1>16, <1>17
    <3>2. DirectionOf(s.direction) \in Direction
      BY DirectionsOnly
    <3>. QED
      BY <1>1, <1>17, <3>1, <3>2, ConnectKeepsGraphs
  <2>2. graph' = GraphOf(segments, k, n)
    <3>1. /\ segments[(k - 1) + 1] = s
          /\ GraphOf(segments, (k - 1) + 1, n) = GraphOf(segments, k, n)
      BY <1>7 DEF s
    <3>2. Connected(GraphOf(segments, k - 1, n), s.from, s.to, LengthOf(s.points),
                    DirectionOf(s.direction)) = GraphOf(segments, k, n)
      BY <1>7, <3>1, GraphOfNext
    <3>. QED
      BY <1>3, <1>17, <3>2 DEF cost
  <2>3. IsSound(segments, k)
    BY <1>9, <1>17 DEF IsSound, IsNew, s, cost
  <2>4. position' - 1 = k /\ position' <= Len(segments) + 1
    BY <1>1, <1>2, <1>5
  <2>5. \A j \in 1..k : IsSound(segments, j)
    BY <1>3, <1>7, <2>3
  <2>6. /\ Ways' = EligibleOf(file') /\ AreDirected(Ways')
        /\ References(Ways') \subseteq NodeIdsOf(file')
        /\ coordinates' = LocationsOf(file', References(Ways'))
        /\ AreLocated(file', References(Ways'))
        /\ segments' = EdgeOrder(Pieces(Ways', coordinates'))
    BY <1>2, <1>3, <1>10
  <2>7. graph' = GraphOf(segments', position' - 1, Cardinality(Retained(Ways')))
    BY <1>2, <1>10, <2>2, <2>4 DEF n
  <2>8. Connecting'
    BY <1>2, <2>4, <2>5, <2>6, <2>7 DEF Connecting, IsCut
  <2>. QED
    BY <1>1, <1>11, <1>17, <2>1, <2>8 DEF Importing
<1>. QED
  <2>1. \/ s.from = s.to /\ Throw("closed", Name(s)) /\ UNCHANGED graph
        \/ /\ s.from # s.to /\ cost <= 0
           /\ Throw("length", Name(s)) /\ UNCHANGED graph
        \/ /\ s.from # s.to /\ cost > 0
           /\ \E e \in used : Throw("pair", <<Name(segments[e]), Name(s)>>)
           /\ UNCHANGED graph
        \/ /\ s.from # s.to /\ cost > 0 /\ used = {}
           /\ IF ConnectAccepts(graph, s.from, s.to, cost)
              THEN /\ graph' = Connected(graph, s.from, s.to, cost,
                                         DirectionOf(s.direction))
                   /\ UNCHANGED <<stage, outcome>>
              ELSE Throw("builder", Name(s)) /\ UNCHANGED graph
    BY DEF Connect, s, cost, used
  <2>. QED
    BY <1>13, <1>14, <1>15, <1>16, <1>17, <2>1

\* Where a node is by its NodeId.
LEMMA PositionOfNode ==
    ASSUME NEW W, AreWays(W), NEW at, NEW a \in Retained(W)
    PROVE  at[CHOOSE n \in Retained(W) : NodeId(W, n) = NodeId(W, a)] = at[a]
<1> DEFINE b == CHOOSE n \in Retained(W) : NodeId(W, n) = NodeId(W, a)
<1>1. b \in Retained(W) /\ NodeId(W, b) = NodeId(W, a)
  OBVIOUS
<1> HIDE DEF b
<1>2. b = a
  BY <1>1, NodeIds
<1>. QED
  BY <1>2 DEF b

(* MapGeometry::Builder and BaseMap accept what the topology has built:    *)
(* every node has a position, and every line joins those of its ends.      *)
LEMMA MapsAreAccepted ==
    ASSUME NEW W, AreWays(W), NEW at, NEW S, AreSegments(W, at, S),
           NEW G, Joins(G, S, Len(S), Cardinality(Retained(W)))
    PROVE  /\ GeometryAccepts(GeometryFor(W, at, S, G))
           /\ BaseMapAccepts(G, GeometryFor(W, at, S, G))
<1> DEFINE M == GeometryFor(W, at, S, G)
           n == Cardinality(Retained(W))
           position_ == [v \in G.nodes |->
                           at[CHOOSE m \in Retained(W) : NodeId(W, m) = v]]
           polyline_ == [e \in EdgeIds(G) |-> S[e].points]
<1>1. /\ M.node_count = Cardinality(G.nodes) /\ M.edge_count = Len(G.ends)
      /\ M.position = position_ /\ M.polyline = polyline_
  BY DEF GeometryFor, Geometry
<1>2. n \in Nat
  BY RetainedNodes
<1>3. /\ G.nodes = 0..(n - 1) /\ EdgeIds(G) = 1..Len(S) /\ Len(G.ends) = Len(S)
      /\ \A e \in 1..Len(S) : G.ends[e][1] = S[e].from /\ G.ends[e][2] = S[e].to
  BY DEF Joins
<1>4. Cardinality(G.nodes) = n
  <2>1. 0 \in Int /\ n - 1 \in Int
    BY <1>2
  <2>2. Cardinality(0..(n - 1)) = IF 0 > n - 1 THEN 0 ELSE (n - 1) - 0 + 1
    BY <2>1, FS_Interval
  <2>3. (IF 0 > n - 1 THEN 0 ELSE (n - 1) - 0 + 1) = n
    BY <1>2
  <2>. QED
    BY <1>3, <2>2, <2>3
<1>5. /\ DOMAIN position_ = 0..(n - 1) /\ DOMAIN polyline_ = 1..Len(S)
      /\ \A e \in 1..Len(S) : polyline_[e] = S[e].points
  BY <1>3
<1>6. Len(S) \in Nat /\ \A e \in 1..Len(S) : IsSegment(W, at, S[e])
  BY DEF AreSegments
<1>7. ASSUME NEW a \in Retained(W) PROVE position_[NodeId(W, a)] = at[a]
  <2>1. NodeId(W, a) \in G.nodes
    BY <1>3, NodeIds
  <2>2. position_[NodeId(W, a)]
          = at[CHOOSE m \in Retained(W) : NodeId(W, m) = NodeId(W, a)]
    BY <2>1
  <2>3. at[CHOOSE m \in Retained(W) : NodeId(W, m) = NodeId(W, a)] = at[a]
    BY PositionOfNode
  <2>. QED
    BY <2>2, <2>3
<1> HIDE DEF M, n, position_, polyline_
<1>8. GeometryAccepts(M)
  <2>1. \A e \in 1..Len(S) : Len(polyline_[e]) >= 2
    BY <1>5, <1>6 DEF IsSegment
  <2>. QED
    BY <1>1, <1>3, <1>4, <1>5, <2>1 DEF GeometryAccepts
<1>9. ASSUME NEW e \in 1..Len(S)
      PROVE  /\ Head(polyline_[e]) = position_[G.ends[e][1]]
             /\ Last(polyline_[e]) = position_[G.ends[e][2]]
  <2>1. PICK a, b \in Retained(W) :
          /\ NodeId(W, a) = S[e].from /\ Head(S[e].points) = at[a]
          /\ NodeId(W, b) = S[e].to /\ Last(S[e].points) = at[b]
    BY <1>6 DEF IsSegment
  <2>2. position_[S[e].from] = at[a] /\ position_[S[e].to] = at[b]
    BY <1>7, <2>1
  <2>. QED
    BY <1>3, <1>5, <2>1, <2>2
<1>10. BaseMapAccepts(G, M)
  BY <1>1, <1>5, <1>9 DEF BaseMapAccepts
<1>. QED
  BY <1>8, <1>10 DEF M

\* The map is complete.
LEMMA FinishStep == ASSUME Importing, Finish PROVE Importing'
<1> DEFINE n == Cardinality(Retained(Ways))
           M == GeometryFor(Ways, coordinates, segments, graph)
<1>1. /\ IsFile(file) /\ eligible \in Seq(Way) /\ position \in Nat \ {0}
      /\ IsBuilt(graph) /\ stage = "edges" /\ Connecting
      /\ (earlier = Pending \/ Expected(file, earlier))
  BY DEF Importing, Finish
<1>2. /\ position > Len(segments)
      /\ UNCHANGED <<file, position, eligible, wanted, coordinates, segments, graph, earlier>>
  BY DEF Finish
<1>3. /\ AreWays(Ways) /\ AreLocations(Ways, coordinates)
      /\ AreSegments(Ways, coordinates, segments)
  BY <1>1, SegmentsToConnect
<1>4. position - 1 = Len(segments) /\ Len(segments) \in Nat
  BY <1>1, <1>2, <1>3 DEF Connecting, IsCut, AreSegments
<1>5. /\ Ways = EligibleOf(file) /\ AreDirected(Ways)
      /\ References(Ways) \subseteq NodeIdsOf(file)
      /\ coordinates = LocationsOf(file, References(Ways))
      /\ AreLocated(file, References(Ways))
      /\ segments = EdgeOrder(Pieces(Ways, coordinates))
      /\ graph = GraphOf(segments, Len(segments), n)
      /\ \A k \in 1..Len(segments) : IsSound(segments, k)
  BY <1>1, <1>4 DEF Connecting, IsCut
<1>6. GeometryOf = M
  BY DEF GeometryOf, GeometryFor
<1>7. Joins(graph, segments, Len(segments), n)
  BY <1>4, <1>5, GraphParts
<1>8. GeometryAccepts(M) /\ BaseMapAccepts(graph, M)
  BY <1>3, <1>7, MapsAreAccepted
<1>9. stage' = "done" /\ outcome' = Built(graph, M)
  BY <1>6, <1>8 DEF Finish
<1>10. outcome' = MapOf(Ways, coordinates, segments)
  BY <1>5, <1>9 DEF MapOf, FullGraph
<1>11. Topology(Ways, coordinates, segments, outcome')
  BY <1>5, <1>10 DEF Topology
<1>12. Expected(file, outcome')
  BY <1>5, <1>11 DEF Expected, ReferencesOf
<1>13. IsGraph(outcome'.graph)
  BY <1>1, <1>9 DEF Built, IsBuilt
<1>14. Ways' = Ways
  BY <1>2 DEF Ways
<1>15. IsCut'
  <2>1. IsCut
    BY <1>1 DEF Connecting
  <2>. QED
    BY <2>1, <1>2, <1>14 DEF IsCut
<1>16. Delivers(outcome)'
  BY <1>2, <1>10, <1>13, <1>14, <1>15 DEF Delivers
<1>. QED
  BY <1>1, <1>2, <1>9, <1>12, <1>16 DEF Importing

\* A file in another order has the same in it.
LEMMA ReorderedContents ==
    ASSUME NEW f, IsFile(f), NEW g \in Reordered(f)
    PROVE  /\ IsFile(g)
           /\ ToSet(f.ways) = ToSet(g.ways) /\ ToSet(f.nodes) = ToSet(g.nodes)
<1> DEFINE D == 1..Len(f.ways)
           N == 1..Len(f.nodes)
           ways(p) == [i \in DOMAIN f.ways |-> f.ways[p[i]]]
<1>1. PICK p \in [DOMAIN f.ways -> DOMAIN f.ways] :
        /\ \A i, j \in DOMAIN p : p[i] = p[j] => i = j
        /\ g.ways = ways(p)
  BY DEF Reordered
<1>2. g.nodes = f.nodes \/ g.nodes = Reverse(f.nodes)
  BY DEF Reordered
<1>3. /\ Len(f.ways) \in Nat /\ DOMAIN f.ways = D
      /\ Len(f.nodes) \in Nat /\ DOMAIN f.nodes = N
      /\ f.ways \in Seq(Way) /\ f.nodes \in Seq(Node)
      /\ \A i \in D : f.ways[i] \in Way
  BY FileParts DEF IsFile
<1>4. p \in Surjection(D, D)
  <2>1. p \in Injection(D, D)
    BY <1>1, <1>3 DEF Injection, IsInjective
  <2>2. IsFiniteSet(D)
    <3>1. 1 \in Int /\ Len(f.ways) \in Int
      BY <1>3
    <3>. QED
      BY <3>1, FS_Interval
  <2> HIDE DEF D
  <2>. QED
    BY <2>1, <2>2, FS_Injection
<1>5. p \in [D -> D] /\ \A i \in D : \E j \in D : p[j] = i
  BY <1>4 DEF Surjection
<1>6. /\ g.ways \in Seq(Way) /\ DOMAIN g.ways = D
      /\ \A i \in D : g.ways[i] = f.ways[p[i]]
  <2>1. g.ways = [i \in D |-> f.ways[p[i]]]
    BY <1>1, <1>3
  <2>2. g.ways \in [1..Len(f.ways) -> Way]
    BY <1>3, <1>5, <2>1
  <2>3. g.ways \in Seq(Way)
    BY <1>3, <2>2, FunctionIsSequence
  <2>. QED
    BY <2>1, <2>3
<1>7. \A i, j \in DOMAIN g.ways : g.ways[i].id = g.ways[j].id => i = j
  <2> SUFFICES ASSUME NEW i \in D, NEW j \in D, g.ways[i].id = g.ways[j].id
               PROVE  i = j
    BY <1>6
  <2>1. p[i] \in D /\ p[j] \in D /\ f.ways[p[i]].id = f.ways[p[j]].id
    BY <1>5, <1>6
  <2>2. p[i] = p[j]
    BY <1>3, <2>1 DEF IsFile
  <2>. QED
    BY <1>1, <1>3, <2>2
<1>8. ToSet(f.ways) = ToSet(g.ways)
  <2>1. ASSUME NEW x \in ToSet(f.ways) PROVE x \in ToSet(g.ways)
    <3>1. PICK i \in D : x = f.ways[i]
      BY <1>3 DEF ToSet
    <3>2. PICK j \in D : p[j] = i
      BY <1>5
    <3>. QED
      BY <1>6, <3>1, <3>2 DEF ToSet
  <2>2. ASSUME NEW x \in ToSet(g.ways) PROVE x \in ToSet(f.ways)
    <3>1. PICK i \in D : x = g.ways[i]
      BY <1>6 DEF ToSet
    <3>2. x = f.ways[p[i]] /\ p[i] \in DOMAIN f.ways
      BY <1>3, <1>5, <1>6, <3>1
    <3>. QED
      BY <3>2 DEF ToSet
  <2>. QED
    BY <2>1, <2>2
<1>9. CASE g.nodes = f.nodes
  BY <1>6, <1>7, <1>8, <1>9 DEF IsFile
<1>10. CASE g.nodes = Reverse(f.nodes)
  <2> DEFINE m == Len(f.nodes)
             from(i) == (m - i) + 1
  <2>1. g.nodes \in Seq(Node) /\ DOMAIN g.nodes = N
        /\ \A i \in N : g.nodes[i] = f.nodes[from(i)]
    BY <1>3, <1>10 DEF Reverse
  <2>2. \A i \in N : from(i) \in N /\ from(from(i)) = i
    BY <1>3
  <2>3. \A i, j \in N : from(i) = from(j) => i = j
    BY <1>3
  <2> HIDE DEF m, from, N
  <2>4. \A i, j \in DOMAIN g.nodes : g.nodes[i].id = g.nodes[j].id => i = j
    BY <1>3, <2>1, <2>2, <2>3 DEF IsFile
  <2>5. ToSet(f.nodes) = ToSet(g.nodes)
    <3>1. ASSUME NEW x \in ToSet(f.nodes) PROVE x \in ToSet(g.nodes)
      <4>1. PICK i \in N : x = f.nodes[i]
        BY <1>3 DEF ToSet
      <4>2. g.nodes[from(i)] = x /\ from(i) \in DOMAIN g.nodes
        BY <2>1, <2>2, <4>1
      <4>. QED
        BY <4>2 DEF ToSet
    <3>2. ASSUME NEW x \in ToSet(g.nodes) PROVE x \in ToSet(f.nodes)
      BY <1>3, <2>1, <2>2 DEF ToSet
    <3>. QED
      BY <3>1, <3>2
  <2>. QED
    BY <1>6, <1>7, <1>8, <2>1, <2>4, <2>5 DEF IsFile
<1>. QED
  BY <1>2, <1>9, <1>10
\* A second import starts, on the same data.
LEMMA ImportAgainStep == ASSUME Importing, ImportAgain PROVE Importing'
<1>1. IsFile(file) /\ stage = "done" /\ Expected(file, outcome)
  BY DEF Importing, ImportAgain
<1>2. /\ earlier' = outcome /\ file' \in Reordered(file)
      /\ stage' = "ways" /\ position' = 1 /\ eligible' = <<>>
      /\ coordinates' = <<>> /\ graph' = EmptyGraph(0) /\ outcome' = Pending
  BY DEF ImportAgain
<1> DEFINE g == file'
<1>3. g \in Reordered(file)
  BY <1>2
<1> HIDE DEF g
<1>4. /\ IsFile(g)
      /\ ToSet(file.ways) = ToSet(g.ways) /\ ToSet(file.nodes) = ToSet(g.nodes)
  BY <1>1, <1>3, ReorderedContents
<1>5. Expected(g, outcome)
  BY <1>1, <1>4, SameContents
<1>6. IsBuilt(graph')
  BY <1>2, EmptyGraphIsBuilt
<1>7. ReadingWays'
  <2>1. position' <= Len(g.ways) + 1 /\ position' - 1 = 0
    BY <1>2, <1>4, FileParts
  <2>2. Ways' = {} /\ EligibleIn(g, 0) = {}
    BY <1>2, <1>4, AllWaysRead DEF Ways, ToSet
  <2>3. coordinates' = LocationsOf(g, {})
    BY <1>2 DEF LocationsOf
  <2>. QED
    BY <2>1, <2>2, <2>3 DEF ReadingWays, AreDirected, g
<1>. QED
  BY <1>2, <1>4, <1>5, <1>6, <1>7 DEF Importing, g

\* The invariant holds of every import.
THEOREM ImportsProceed == Spec => []Importing
<1>1. Init => Importing
  BY ImportStarts
<1>2. Importing /\ [Next]_vars => Importing'
  <2> SUFFICES ASSUME Importing, [Next]_vars PROVE Importing'
    OBVIOUS
  <2>1. CASE ReadWay
    BY <2>1, ReadWayStep
  <2>2. CASE EndWays
    BY <2>2, EndWaysStep
  <2>3. CASE ReadNode
    BY <2>3, ReadNodeStep
  <2>4. CASE MissNode
    BY <2>4, MissNodeStep
  <2>5. CASE Split
    BY <2>5, SplitStep
  <2>6. CASE Connect
    BY <2>6, ConnectStep
  <2>7. CASE Finish
    BY <2>7, FinishStep
  <2>8. CASE ImportAgain
    BY <2>8, ImportAgainStep
  <2>9. CASE UNCHANGED vars
    BY <2>9 DEF vars, Importing, ReadingWays, ReadingNodes, Connecting, IsCut,
                Delivers, Ways
  <2>. QED
    BY <2>1, <2>2, <2>3, <2>4, <2>5, <2>6, <2>7, <2>8, <2>9 DEF Next
<1>. QED
  BY <1>1, <1>2, PTL DEF Spec

(* The checks that come last find nothing, for every file: what is asked   *)
(* of Graph::Builder, MapGeometry::Builder and BaseMap is what they        *)
(* accept, and what planning assumes of a graph holds of an imported one.  *)
THEOREM BuildersAcceptImports == Spec => []BuildersNeverRefuse
<1>1. Importing => BuildersNeverRefuse
  <2> SUFFICES ASSUME Importing PROVE BuildersNeverRefuse
    OBVIOUS
  <2>1. CASE stage # "done"
    BY <2>1 DEF Importing, BuildersNeverRefuse, Pending
  <2>2. CASE stage = "done"
    <3>1. Expected(file, outcome) /\ Delivers(outcome)
      BY <2>2 DEF Importing
    <3>2. \A S, k, o : Fault(S, k, o) => o.kind # "builder"
      BY DEF Fault, Failed
    <3>3. \A W, at, S : MapOf(W, at, S).kind # "builder"
      BY DEF MapOf, Built
    <3>4. \A W, at, S, o : Topology(W, at, S, o) => o.kind # "builder"
      BY <3>2, <3>3 DEF Topology
    <3>5. outcome.kind # "builder"
      BY <3>1, <3>4 DEF Expected, Failed
    <3>. QED
      BY <3>1, <3>5 DEF BuildersNeverRefuse, Delivers
  <2>. QED
    BY <2>1, <2>2
<1>. QED
  BY <1>1, ImportsProceed, PTL

(* What is imported does not depend on the order of the file, for every    *)
(* file: both imports come to what its contents say, and contents say one  *)
(* thing.                                                                  *)
THEOREM ImportsAreOrderFree == Spec => []ImportIsOrderFree
<1>1. Importing => ImportIsOrderFree
  <2> SUFFICES ASSUME Importing, stage = "done", earlier # Pending
               PROVE  Verdict(outcome) = Verdict(earlier)
    BY DEF ImportIsOrderFree
  <2>1. IsFile(file) /\ Expected(file, outcome) /\ Expected(file, earlier)
    BY DEF Importing
  <2>. QED
    BY <2>1, OneVerdict
<1>. QED
  BY <1>1, ImportsProceed, PTL

(* An import is what its extract calls for: a way without a direction is   *)
(* refused, or else a node without a location, or one that is missing, or  *)
(* the first segment in order that is a loop, has no length or shares its  *)
(* ends with an earlier one; if there is none, all segments become a map.  *)
THEOREM ImportsAreExpected == Spec => [](stage = "done" => Expected(file, outcome))
<1>1. Importing => (stage = "done" => Expected(file, outcome))
  BY DEF Importing
<1>. QED
  BY <1>1, ImportsProceed, PTL

-----------------------------------------------------------------------------
(* Distances.                                                              *)

(* g is no more than Far, nothing from a node to itself, no longer than a  *)
(* hop, and no longer than over a third node.                              *)
Measures(V, Hops, g) ==
    /\ g \in [V \X V -> 0..Far]
    /\ \A v \in V : g[<<v, v>>] = 0
    /\ \A hop \in Hops : g[<<hop[1], hop[2]>>] <= hop[3]
    /\ \A u, v, w \in V : g[<<u, w>>] <= g[<<u, v>>] + g[<<v, w>>]

\* D is the largest such function: the shortest distances over hops.
AreShortest(V, Hops, D) ==
    /\ Measures(V, Hops, D)
    /\ \A g : Measures(V, Hops, g) => \A p \in V \X V : g[p] <= D[p]

\* len is the length of the shortest of the hops that join two nodes.
ShortestHops(V, Hops, len) ==
    /\ len \in [V \X V -> 0..Far]
    /\ \A v \in V : len[<<v, v>>] = 0
    /\ \A hop \in Hops : len[<<hop[1], hop[2]>>] <= hop[3]
    /\ \A u, v \in V : u # v => \/ len[<<u, v>>] = Far
                                \/ <<u, v, len[<<u, v>>]>> \in Hops

\* A step of the fold: over k, too.
Through(V, k, d) == [p \in V \X V |->
                       Min({d[p], d[<<p[1], k>>] + d[<<k, p[2]>>]})]

Picked(s) == CHOOSE x \in s : TRUE

\* u is the fold over every subset of V.
IsFold(V, len, u) ==
    u = [s \in SUBSET V |-> IF s = {} THEN len
                            ELSE Through(V, Picked(s), u[s \ {Picked(s)}])]

\* The distances are the value of the one fold over all of V.
LEMMA DistancesFold ==
    ASSUME NEW V, NEW len
    PROVE  Distances(V, len) = (CHOOSE u : IsFold(V, len, u))[V]
BY DEF Distances, FoldSet, MapThenFoldSet, IsFold, Through, Picked

\* The numbers up to Far, without the number itself.
LEMMA UpToFar == /\ 0..Far \subseteq Nat
                 /\ \A n : n \in 0..Far <=> n \in Nat /\ n <= Far
BY FarAssumption

\* The lesser of two.
LEMMA Lesser ==
    ASSUME NEW a \in Nat, NEW b \in Nat
    PROVE  Min({a, b}) \in Nat /\ Min({a, b}) <= a /\ Min({a, b}) <= b
           /\ Min({a, b}) \in {a, b}
<1>1. \E x \in {a, b} : \A y \in {a, b} : x =< y
  BY SMT
<1>. QED
  BY <1>1 DEF Min

\* There is a fold over every subset: those of a size rest on the smaller.
LEMMA FoldExists ==
    ASSUME NEW V, IsFiniteSet(V), NEW len
    PROVE  \E u : IsFold(V, len, u)
<1> DEFINE n == Cardinality(V)
           subsets == SUBSET V
           next(s, v) == IF s = {} THEN len
                         ELSE Through(V, Picked(s), v[s \ {Picked(s)}])
           Fits(k, u) == \A s \in subsets :
                           Cardinality(s) <= k => u[s] = next(s, u)
           T == {k \in Nat : \E u : u = [s \in subsets |-> u[s]] /\ Fits(k, u)}
<1>1. \A s \in subsets : IsFiniteSet(s) /\ Cardinality(s) \in Nat /\ Cardinality(s) <= n
  BY FS_Subset, FS_CardinalityType
<1>2. ASSUME NEW s \in subsets, s # {}
      PROVE  /\ s \ {Picked(s)} \in subsets /\ Picked(s) \in s
             /\ Cardinality(s \ {Picked(s)}) = Cardinality(s) - 1
  <2>1. Picked(s) \in s
    BY <1>2 DEF Picked
  <2>. QED
    BY <1>1, <2>1, FS_RemoveElement
<1>3. 0 \in T
  <2> DEFINE u == [s \in subsets |-> len]
  <2>1. \A s \in subsets : Cardinality(s) <= 0 => s = {}
    BY <1>1, FS_EmptySet
  <2>2. Fits(0, u)
    BY <2>1
  <2>3. u = [s \in subsets |-> u[s]]
    OBVIOUS
  <2>. QED
    BY <2>2, <2>3
<1>4. ASSUME NEW k \in Nat, k \in T PROVE k + 1 \in T
  <2>1. PICK v : v = [s \in subsets |-> v[s]] /\ Fits(k, v)
    BY <1>4
  <2> DEFINE u == [s \in subsets |-> next(s, v)]
  <2>2. \A s \in subsets : Cardinality(s) <= k => u[s] = v[s]
    BY <2>1
  <2>3. ASSUME NEW s \in subsets, Cardinality(s) <= k + 1
        PROVE  u[s] = next(s, u)
    <3>1. CASE s = {}
      BY <3>1
    <3>2. CASE s # {}
      <4> DEFINE r == s \ {Picked(s)}
      <4>1. r \in subsets /\ Cardinality(r) <= k
        BY <1>1, <1>2, <2>3, <3>2
      <4>2. u[r] = v[r]
        BY <2>2, <4>1
      <4>. QED
        BY <3>2, <4>2
    <3>. QED
      BY <3>1, <3>2
  <2>4. Fits(k + 1, u)
    BY <2>3
  <2>5. u = [s \in subsets |-> u[s]]
    OBVIOUS
  <2> HIDE DEF u, Fits, subsets
  <2>. QED
    BY <2>4, <2>5
<1> HIDE DEF T
<1>5. n \in T
  BY <1>3, <1>4, FS_CardinalityType, Ind
<1>6. PICK u : u = [s \in subsets |-> u[s]] /\ Fits(n, u)
  BY <1>5 DEF T
<1>7. \A s \in subsets : u[s] = next(s, u)
  BY <1>1, <1>6
<1>8. u = [s \in subsets |-> next(s, u)]
  BY <1>6, <1>7
<1>. QED
  BY <1>8 DEF IsFold

\* What the fold over s has achieved: distances over the nodes of s are in it.
ShortThrough(V, len, s, d) ==
    /\ d \in [V \X V -> 0..Far]
    /\ \A v \in V : d[<<v, v>>] = 0
    /\ \A p \in V \X V : d[p] <= len[p]
    /\ \A u, w \in V, v \in s : d[<<u, w>>] <= d[<<u, v>>] + d[<<v, w>>]

\* It goes on to be so with one more.
LEMMA ThroughOneMore ==
    ASSUME NEW V, NEW len \in [V \X V -> 0..Far], NEW s \in SUBSET V, NEW k \in V,
           NEW d, ShortThrough(V, len, s, d)
    PROVE  ShortThrough(V, len, s \cup {k}, Through(V, k, d))
<1> DEFINE e == Through(V, k, d)
           via(u, w) == d[<<u, k>>] + d[<<k, w>>]
<1>1. \A p \in V \X V : d[p] \in 0..Far /\ len[p] \in 0..Far
  BY DEF ShortThrough
<1>2. \A u, w \in V : d[<<u, w>>] \in Nat /\ d[<<u, w>>] <= Far /\ via(u, w) \in Nat
  <2>1. \A u, w \in V : d[<<u, w>>] \in Nat /\ d[<<u, w>>] <= Far
    BY <1>1, UpToFar
  <2>2. ASSUME NEW u \in V, NEW w \in V PROVE via(u, w) \in Nat
    <3>1. d[<<u, k>>] \in Nat /\ d[<<k, w>>] \in Nat
      BY <2>1
    <3>. QED
      BY <3>1
  <2> HIDE DEF via
  <2>. QED
    BY <2>1, <2>2
<1>3. \A u, w \in V : e[<<u, w>>] = Min({d[<<u, w>>], via(u, w)})
  BY DEF Through
<1>4. \A u, w \in V : /\ e[<<u, w>>] \in Nat /\ e[<<u, w>>] <= d[<<u, w>>]
                      /\ e[<<u, w>>] <= via(u, w)
                      /\ e[<<u, w>>] \in {d[<<u, w>>], via(u, w)}
  <2> HIDE DEF via, e
  <2> SUFFICES ASSUME NEW u \in V, NEW w \in V
               PROVE  /\ e[<<u, w>>] \in Nat /\ e[<<u, w>>] <= d[<<u, w>>]
                      /\ e[<<u, w>>] <= via(u, w)
                      /\ e[<<u, w>>] \in {d[<<u, w>>], via(u, w)}
    OBVIOUS
  <2> DEFINE a == d[<<u, w>>]
             b == via(u, w)
  <2>1. a \in Nat /\ b \in Nat
    BY <1>2
  <2>2. e[<<u, w>>] = Min({a, b})
    BY <1>3
  <2> HIDE DEF a, b
  <2>3. e[<<u, w>>] \in Nat /\ e[<<u, w>>] <= a /\ e[<<u, w>>] <= b
        /\ e[<<u, w>>] \in {a, b}
    BY <2>1, <2>2, Lesser
  <2>. QED
    BY <2>3 DEF a, b
<1>5. \A v \in V : d[<<v, v>>] = 0
  BY DEF ShortThrough
<1>6. e \in [V \X V -> 0..Far]
  <2>1. e = [p \in V \X V |-> e[p]]
    BY DEF Through
  <2>2. ASSUME NEW p \in V \X V PROVE e[p] \in 0..Far
    <3>1. PICK u \in V, w \in V : p = <<u, w>>
      OBVIOUS
    <3>2. e[<<u, w>>] \in Nat /\ e[<<u, w>>] <= d[<<u, w>>] /\ d[<<u, w>>] <= Far
      BY <1>2, <1>4
    <3>3. Far \in Nat /\ d[<<u, w>>] \in Nat
      <4>1. Far \in Nat
        BY FarAssumption
      <4> HIDE DEF via
      <4>. QED
        BY <1>2, <4>1
    <3> HIDE DEF e
    <3>4. e[<<u, w>>] <= Far
      BY <3>2, <3>3
    <3>. QED
      BY <3>1, <3>2, <3>4, UpToFar
  <2> HIDE DEF e
  <2>. QED
    BY <2>1, <2>2
<1>7. \A v \in V : e[<<v, v>>] = 0
  <2> SUFFICES ASSUME NEW v \in V PROVE e[<<v, v>>] = 0
    OBVIOUS
  <2>1. e[<<v, v>>] \in Nat /\ e[<<v, v>>] <= d[<<v, v>>] /\ d[<<v, v>>] = 0
    BY <1>4, <1>5
  <2> HIDE DEF e
  <2>. QED
    BY <2>1
<1>8. ASSUME NEW p \in V \X V PROVE e[p] <= len[p]
  <2>1. PICK u \in V, w \in V : p = <<u, w>>
    OBVIOUS
  <2>2. d[p] <= len[p] /\ len[p] \in Nat
    <3>1. d[p] <= len[p]
      BY DEF ShortThrough
    <3>. QED
      BY <1>1, <3>1, UpToFar
  <2>3. e[<<u, w>>] <= d[<<u, w>>] /\ e[<<u, w>>] \in Nat /\ d[<<u, w>>] \in Nat
    BY <1>2, <1>4
  <2>. QED
    BY <2>1, <2>2, <2>3
<1>9. ASSUME NEW u \in V, NEW w \in V, NEW v \in s \cup {k}
      PROVE  e[<<u, w>>] <= e[<<u, v>>] + e[<<v, w>>]
  <2>1. v \in V
    OBVIOUS
  <2>2. /\ e[<<u, w>>] \in Nat /\ e[<<u, w>>] <= d[<<u, w>>]
        /\ e[<<u, w>>] <= d[<<u, k>>] + d[<<k, w>>]
        /\ d[<<u, w>>] \in Nat /\ d[<<u, k>>] \in Nat /\ d[<<k, w>>] \in Nat
        /\ d[<<u, v>>] \in Nat /\ d[<<v, w>>] \in Nat
        /\ d[<<v, k>>] \in Nat /\ d[<<k, v>>] \in Nat
        /\ e[<<u, v>>] \in Nat /\ e[<<v, w>>] \in Nat
    BY <1>2, <1>4, <2>1
  <2>3. /\ e[<<u, v>>] = d[<<u, v>>] \/ e[<<u, v>>] = d[<<u, k>>] + d[<<k, v>>]
        /\ e[<<v, w>>] = d[<<v, w>>] \/ e[<<v, w>>] = d[<<v, k>>] + d[<<k, w>>]
    BY <1>4, <2>1
  <2>4. CASE v = k
    BY <1>5, <2>2, <2>3, <2>4
  <2>5. CASE v \in s
    <3>1. /\ d[<<u, w>>] <= d[<<u, v>>] + d[<<v, w>>]
          /\ d[<<u, k>>] <= d[<<u, v>>] + d[<<v, k>>]
          /\ d[<<k, w>>] <= d[<<k, v>>] + d[<<v, w>>]
      BY <2>5 DEF ShortThrough
    <3>. QED
      BY <2>2, <2>3, <3>1
  <2>. QED
    BY <2>4, <2>5
<1> HIDE DEF e
<1>. QED
  BY <1>6, <1>7, <1>8, <1>9 DEF ShortThrough, e

\* And what is below all hops stays below.
LEMMA ThroughStaysAbove ==
    ASSUME NEW V, NEW k \in V, NEW d, NEW g,
           \A u, w \in V : /\ d[<<u, w>>] \in Nat /\ g[<<u, w>>] \in Nat
                           /\ g[<<u, w>>] <= d[<<u, w>>],
           \A u, v, w \in V : g[<<u, w>>] <= g[<<u, v>>] + g[<<v, w>>]
    PROVE  \A u, w \in V : g[<<u, w>>] <= Through(V, k, d)[<<u, w>>]
<1> SUFFICES ASSUME NEW u \in V, NEW w \in V
             PROVE  g[<<u, w>>] <= Through(V, k, d)[<<u, w>>]
  OBVIOUS
<1> DEFINE a == d[<<u, w>>]
           b == d[<<u, k>>] + d[<<k, w>>]
<1>1. Through(V, k, d)[<<u, w>>] = Min({a, b})
  BY DEF Through
<1>2. a \in Nat /\ b \in Nat /\ g[<<u, w>>] <= a
  OBVIOUS
<1>3. g[<<u, w>>] <= b
  <2>1. /\ g[<<u, k>>] <= d[<<u, k>>] /\ g[<<k, w>>] <= d[<<k, w>>]
        /\ g[<<u, w>>] <= g[<<u, k>>] + g[<<k, w>>]
        /\ g[<<u, w>>] \in Nat /\ g[<<u, k>>] \in Nat /\ g[<<k, w>>] \in Nat
        /\ d[<<u, k>>] \in Nat /\ d[<<k, w>>] \in Nat
    OBVIOUS
  <2>. QED
    BY <2>1
<1> HIDE DEF a, b
<1>4. Min({a, b}) \in {a, b}
  BY <1>2, Lesser
<1>. QED
  BY <1>1, <1>2, <1>3, <1>4

(* Distances are what their name says: the largest function that no hop,   *)
(* no node on the way and no bound is below.                               *)
LEMMA DistancesAreShortest ==
    ASSUME NEW V, IsFiniteSet(V), NEW Hops, NEW len, ShortestHops(V, Hops, len),
           \A hop \in Hops : hop[1] \in V /\ hop[2] \in V /\ hop[3] \in Nat
    PROVE  AreShortest(V, Hops, Distances(V, len))
<1> DEFINE u == CHOOSE u : IsFold(V, len, u)
           Above(d) == \A g : Measures(V, Hops, g) =>
                                \A v, w \in V : g[<<v, w>>] <= d[<<v, w>>]
           T == {k \in Nat : \A s \in SUBSET V :
                   Cardinality(s) <= k => ShortThrough(V, len, s, u[s]) /\ Above(u[s])}
<1>1. IsFold(V, len, u)
  BY FoldExists
<1>2. Distances(V, len) = u[V]
  BY DistancesFold
<1> HIDE DEF u
<1>3. /\ u[{}] = len
      /\ \A s \in SUBSET V : s # {} =>
           u[s] = Through(V, Picked(s), u[s \ {Picked(s)}])
  BY <1>1 DEF IsFold
<1>4. \A p \in V \X V : len[p] \in Nat /\ len[p] <= Far
  BY UpToFar DEF ShortestHops
<1>5. ASSUME NEW g, Measures(V, Hops, g)
      PROVE  /\ \A v, w \in V : g[<<v, w>>] \in Nat /\ g[<<v, w>>] <= Far
             /\ \A v, w, x \in V : g[<<v, x>>] <= g[<<v, w>>] + g[<<w, x>>]
  <2>1. g \in [V \X V -> 0..Far]
    BY <1>5 DEF Measures
  <2>. QED
    BY <1>5, <2>1, UpToFar DEF Measures
<1>6. ShortThrough(V, len, {}, len)
  <2>1. \A p \in V \X V : len[p] <= len[p]
    BY <1>4
  <2>. QED
    BY <2>1 DEF ShortThrough, ShortestHops
<1>7. Above(len)
  <2> SUFFICES ASSUME NEW g, Measures(V, Hops, g), NEW v \in V, NEW w \in V
               PROVE  g[<<v, w>>] <= len[<<v, w>>]
    OBVIOUS
  <2>1. CASE v = w
    BY <2>1 DEF Measures, ShortestHops
  <2>2. CASE v # w /\ len[<<v, w>>] = Far
    BY <1>5, <2>2
  <2>3. CASE v # w /\ <<v, w, len[<<v, w>>]>> \in Hops
    BY <2>3 DEF Measures
  <2>. QED
    BY <2>1, <2>2, <2>3 DEF ShortestHops
<1>8. 0 \in T
  <2> SUFFICES ASSUME NEW s \in SUBSET V, Cardinality(s) <= 0
               PROVE  ShortThrough(V, len, s, u[s]) /\ Above(u[s])
    OBVIOUS
  <2>1. IsFiniteSet(s)
    BY FS_Subset
  <2>2. s = {}
    BY <2>1, FS_EmptySet, FS_CardinalityType
  <2>. QED
    BY <1>3, <1>6, <1>7, <2>2
<1>9. ASSUME NEW k \in Nat, k \in T PROVE k + 1 \in T
  <2> SUFFICES ASSUME NEW s \in SUBSET V, Cardinality(s) <= k + 1
               PROVE  ShortThrough(V, len, s, u[s]) /\ Above(u[s])
    OBVIOUS
  <2>1. CASE s = {}
    BY <1>3, <1>6, <1>7, <2>1
  <2>2. CASE s # {}
    <3> DEFINE x == Picked(s)
               r == s \ {x}
               d == u[r]
    <3>1. x \in s
      BY <2>2 DEF Picked
    <3>2. IsFiniteSet(s) /\ Cardinality(s) \in Nat
      BY FS_Subset, FS_CardinalityType
    <3>3. Cardinality(r) = Cardinality(s) - 1
      BY <3>1, <3>2, FS_RemoveElement
    <3>4. r \in SUBSET V /\ Cardinality(r) <= k
      BY <3>2, <3>3
    <3>5. ShortThrough(V, len, r, d) /\ Above(d)
      BY <1>9, <3>4
    <3>6. x \in V /\ r \cup {x} = s
      BY <3>1
    <3>7. u[s] = Through(V, x, d)
      BY <1>3, <2>2
    <3>8. len \in [V \X V -> 0..Far]
      BY DEF ShortestHops
    <3>9. \A v, w \in V : d[<<v, w>>] \in Nat
      <4>1. d \in [V \X V -> 0..Far]
        BY <3>5 DEF ShortThrough
      <4>. QED
        BY <4>1, UpToFar
    <3> HIDE DEF x, r, d
    <3>10. ShortThrough(V, len, s, u[s])
      <4>1. ShortThrough(V, len, r \cup {x}, Through(V, x, d))
        BY <3>4, <3>5, <3>6, <3>8, ThroughOneMore
      <4>. QED
        BY <4>1, <3>6, <3>7
    <3>11. Above(u[s])
      <4> SUFFICES ASSUME NEW g, Measures(V, Hops, g)
                   PROVE  \A v, w \in V : g[<<v, w>>] <= Through(V, x, d)[<<v, w>>]
        BY <3>7
      <4>1. /\ \A v, w \in V : g[<<v, w>>] \in Nat
            /\ \A v, w, y \in V : g[<<v, y>>] <= g[<<v, w>>] + g[<<w, y>>]
        BY <1>5
      <4>2. \A v, w \in V : g[<<v, w>>] <= d[<<v, w>>]
        BY <3>5
      <4>. QED
        BY <3>6, <3>9, <4>1, <4>2, ThroughStaysAbove
    <3>. QED
      BY <3>10, <3>11
  <2>. QED
    BY <2>1, <2>2
<1> HIDE DEF T
<1>10. Cardinality(V) \in T
  BY <1>8, <1>9, FS_CardinalityType, Ind
<1> DEFINE D == u[V]
<1>11. ShortThrough(V, len, V, D) /\ Above(D)
  BY <1>10, FS_CardinalityType DEF T
<1> HIDE DEF D
<1>12. Measures(V, Hops, D)
  <2>1. ASSUME NEW hop \in Hops PROVE D[<<hop[1], hop[2]>>] <= hop[3]
    <3> DEFINE p == <<hop[1], hop[2]>>
    <3>1. p \in V \X V /\ hop[3] \in Nat
      OBVIOUS
    <3>2. len[p] <= hop[3] /\ len[p] \in Nat
      BY <1>4, <3>1 DEF ShortestHops
    <3>3. D[p] <= len[p] /\ D[p] \in Nat
      BY <1>11, <3>1, UpToFar DEF ShortThrough
    <3> HIDE DEF p
    <3>4. D[p] <= hop[3]
      BY <3>1, <3>2, <3>3
    <3>. QED
      BY <3>4 DEF p
  <2>. QED
    BY <1>11, <2>1 DEF ShortThrough, Measures
<1>13. AreShortest(V, Hops, D)
  <2>1. \A g : Measures(V, Hops, g) => \A p \in V \X V : g[p] <= D[p]
    BY <1>11
  <2>. QED
    BY <1>12, <2>1 DEF AreShortest
<1>. QED
  BY <1>2, <1>13 DEF D

-----------------------------------------------------------------------------
(* Lengths along a way.                                                    *)

\* T tells how far a way's places are from its start.
Milestones(at, way, T) ==
    /\ \A i \in 1..Len(way.refs) : T[i] \in Nat
    /\ \A i \in 1..(Len(way.refs) - 1) :
         LengthOf(<<at[way.refs[i]], at[way.refs[i + 1]]>>) = T[i + 1] - T[i]
    /\ \A i, j \in 1..Len(way.refs) :
         i < j => T[i] <= T[j] /\ LengthOf(Points(at, way, i, j)) = T[j] - T[i]

\* Points is a line, of the locations it is asked for.
LineAlong(at, way, i, j) ==
    /\ Points(at, way, i, j) \in Line /\ Len(Points(at, way, i, j)) = j - i + 1
    /\ \A k \in 1..(j - i + 1) :
         Points(at, way, i, j)[k] = at[way.refs[i + k - 1]]

\* A stretch of a located way is a line through the places of its refs.
LEMMA LinesAlong ==
    ASSUME NEW W, AreWays(W), NEW at, AreLocations(W, at), NEW way \in W,
           NEW i \in 1..Len(way.refs), NEW j \in 1..Len(way.refs), i < j
    PROVE  LineAlong(at, way, i, j)
<1>1. i \in Nat /\ j \in Nat /\ Len(way.refs) \in Nat /\ DOMAIN way.refs = 1..Len(way.refs)
  BY WayPlaces
<1>2. LocatedAlong(at, way, i, j)
  <2> SUFFICES ASSUME NEW k \in i..j PROVE at[way.refs[k]] \in Int \X Int
    BY DEF LocatedAlong
  <2>1. k \in DOMAIN way.refs
    BY <1>1
  <2>2. way.refs[k] \in References(W)
    BY <2>1 DEF References, ToSet
  <2>. QED
    BY <2>2 DEF AreLocations
<1>3. RunsBetween(at, way, i, j, Points(at, way, i, j))
  BY <1>1, <1>2, PointsAre
<1>4. Len(Points(at, way, i, j)) >= 1
  BY <1>1, <1>3 DEF RunsBetween
<1>5. Points(at, way, i, j) = [k \in 1..(j - i + 1) |-> at[way.refs[i + k - 1]]]
  BY DEF Points
<1>. QED
  BY <1>3, <1>4, <1>5 DEF RunsBetween, LineAlong, Line

\* The line of a part is as long as the whole grows from its start to its end.
LEMMA PartsAddUp ==
    ASSUME NEW W, AreWays(W), NEW at, AreLocations(W, at), NEW way \in W,
           NEW upto, SumsSteps(Points(at, way, 1, Len(way.refs)), upto),
           NEW i \in 1..Len(way.refs), NEW j \in 1..Len(way.refs), i < j
    PROVE  LengthOf(Points(at, way, i, j)) = upto[j - 1] - upto[i - 1]
<1> DEFINE n == Len(way.refs)
           whole == Points(at, way, 1, n)
           part == Points(at, way, i, j)
           d == j - i
<1>1. n \in Nat /\ 1 < n /\ 1 \in 1..n /\ n \in 1..n /\ i \in Nat /\ j \in Nat
  BY WayPlaces
<1>2. LineAlong(at, way, 1, n)
  BY <1>1, LinesAlong
<1>3. LineAlong(at, way, i, j)
  BY LinesAlong
<1>4. PICK f : SumsSteps(part, f)
  BY <1>3, LengthsSumSteps DEF LineAlong
<1>5. d \in Nat /\ Len(part) - 1 = d /\ Len(whole) - 1 = n - 1
  BY <1>1, <1>2, <1>3 DEF LineAlong
<1>6. \A k \in 1..n : whole[k] = at[way.refs[k]]
  <2>1. \A k \in 1..(n - 1 + 1) : whole[k] = at[way.refs[1 + k - 1]]
    BY <1>2 DEF LineAlong
  <2>2. n - 1 + 1 = n /\ \A k \in 1..n : 1 + k - 1 = k
    BY <1>1
  <2> HIDE DEF whole, n
  <2>. QED
    BY <2>1, <2>2
<1>7. \A k \in 1..(d + 1) : part[k] = at[way.refs[i + k - 1]]
  BY <1>3 DEF LineAlong
<1>8. /\ f[0] = 0 /\ LengthOf(part) = f[d]
      /\ \A k \in 1..d : f[k] = f[k - 1] + StepAt(part, k)
  BY <1>4, <1>5 DEF SumsSteps
<1>9. /\ \A k \in 0..(n - 1) : upto[k] \in Nat
      /\ \A k \in 1..(n - 1) : upto[k] = upto[k - 1] + StepAt(whole, k)
      /\ \A k \in 1..(n - 1) : StepAt(whole, k) \in Nat
  BY <1>5 DEF SumsSteps
<1>10. ASSUME NEW k \in 1..d
       PROVE  StepAt(part, k) = StepAt(whole, i + k - 1) /\ i + k - 1 \in 1..(n - 1)
  <2>1. /\ k \in 1..(d + 1) /\ k + 1 \in 1..(d + 1)
        /\ i + k - 1 \in 1..n /\ i + k \in 1..n /\ i + k - 1 \in 1..(n - 1)
        /\ i + (k + 1) - 1 = i + k /\ (i + k - 1) + 1 = i + k
    BY <1>1
  <2>2. part[k] = whole[i + k - 1] /\ part[k + 1] = whole[i + k]
    BY <1>6, <1>7, <2>1
  <2>. QED
    BY <2>1, <2>2 DEF StepAt
<1> DEFINE S == {k \in Nat : k <= d => f[k] = upto[i - 1 + k] - upto[i - 1]}
<1> HIDE DEF d, n, part, whole
<1>11. 0 \in S
  <2>1. i - 1 + 0 = i - 1 /\ i - 1 \in 0..(n - 1)
    BY <1>1 DEF n
  <2>2. upto[i - 1] \in Nat
    BY <1>9, <2>1
  <2>. QED
    BY <1>8, <2>1, <2>2
<1>12. ASSUME NEW k \in Nat, k \in S PROVE k + 1 \in S
  <2> SUFFICES ASSUME k + 1 <= d PROVE f[k + 1] = upto[i - 1 + (k + 1)] - upto[i - 1]
    OBVIOUS
  <2>1. k + 1 \in 1..d /\ (k + 1) - 1 = k /\ k <= d
    BY <1>5
  <2>2. f[k] = upto[i - 1 + k] - upto[i - 1]
    BY <1>12, <2>1
  <2>3. StepAt(part, k + 1) = StepAt(whole, i + (k + 1) - 1)
        /\ i + (k + 1) - 1 \in 1..(n - 1)
    BY <1>10, <2>1
  <2>4. i + (k + 1) - 1 = i + k /\ (i + k) - 1 = i - 1 + k /\ i - 1 + (k + 1) = i + k
    BY <1>1
  <2>5. f[k + 1] = f[k] + StepAt(whole, i + k) /\ i + k \in 1..(n - 1)
    BY <1>8, <2>1, <2>3, <2>4
  <2>6. upto[i + k] = upto[i - 1 + k] + StepAt(whole, i + k)
    BY <1>9, <2>4, <2>5
  <2>7. /\ i - 1 + k \in 0..(n - 1) /\ i - 1 \in 0..(n - 1)
        /\ StepAt(whole, i + k) \in Nat
    BY <1>1, <1>9, <2>4, <2>5 DEF n
  <2>8. upto[i - 1 + k] \in Nat /\ upto[i - 1] \in Nat
    BY <1>9, <2>7
  <2>. QED
    BY <2>2, <2>4, <2>5, <2>6, <2>7, <2>8
<1> HIDE DEF S
<1>13. d \in S
  BY <1>5, <1>11, <1>12, Ind
<1>14. f[d] = upto[i - 1 + d] - upto[i - 1] /\ i - 1 + d = j - 1
  BY <1>1, <1>5, <1>13 DEF S, d
<1>. QED
  BY <1>8, <1>14 DEF part

\* Every way has milestones.
LEMMA WaysHaveMilestones ==
    ASSUME NEW W, AreWays(W), NEW at, AreLocations(W, at), NEW way \in W
    PROVE  \E T : Milestones(at, way, T)
<1> DEFINE n == Len(way.refs)
           whole == Points(at, way, 1, n)
<1>1. n \in Nat /\ 1 < n /\ 1 \in 1..n /\ n \in 1..n
  BY WayPlaces
<1>2. LineAlong(at, way, 1, n)
  BY <1>1, LinesAlong
<1>3. PICK upto : SumsSteps(whole, upto)
  BY <1>2, LengthsSumSteps DEF LineAlong
<1> DEFINE T == [i \in 1..n |-> upto[i - 1]]
<1>4. ASSUME NEW i \in 1..n PROVE T[i] \in Nat /\ T[i] = upto[i - 1]
  <2>1. \A k \in 0..(n - 1) : upto[k] \in Nat
    BY <1>1, <1>2, <1>3 DEF SumsSteps, LineAlong
  <2>2. i - 1 \in 0..(n - 1)
    BY <1>1
  <2>. QED
    BY <2>1, <2>2
<1> HIDE DEF T
<1>5. ASSUME NEW i \in 1..n, NEW j \in 1..n, i < j
      PROVE  T[i] <= T[j] /\ LengthOf(Points(at, way, i, j)) = T[j] - T[i]
  <2>1. LengthOf(Points(at, way, i, j)) = T[j] - T[i]
    BY <1>3, <1>4, <1>5, PartsAddUp
  <2>2. LineAlong(at, way, i, j)
    BY <1>5, LinesAlong
  <2>3. LengthOf(Points(at, way, i, j)) \in Nat
    BY <2>2, LengthsAreNatural DEF LineAlong
  <2>4. T[i] \in Nat /\ T[j] \in Nat
    BY <1>4
  <2>. QED
    BY <2>1, <2>3, <2>4
<1>6. ASSUME NEW i \in 1..(n - 1)
      PROVE  LengthOf(<<at[way.refs[i]], at[way.refs[i + 1]]>>) = T[i + 1] - T[i]
  <2>1. i \in 1..n /\ i + 1 \in 1..n /\ i < i + 1 /\ (i + 1) - i + 1 = 2 /\ i \in Int
        /\ i + 1 - 1 = i /\ i + 2 - 1 = i + 1
    BY <1>1
  <2> DEFINE f == [k \in 1..2 |-> at[way.refs[i + k - 1]]]
             a == at[way.refs[i]]
             b == at[way.refs[i + 1]]
  <2>2. Points(at, way, i, i + 1) = f
    BY <2>1 DEF Points
  <2>3. f[1] = a /\ f[2] = b
    BY <2>1
  <2>4. f = [k \in 1..2 |-> f[k]]
    OBVIOUS
  <2> HIDE DEF f, a, b
  <2>5. f = <<a, b>>
    BY <2>3, <2>4
  <2>. QED
    BY <1>5, <2>1, <2>2, <2>5 DEF a, b
<1>7. Milestones(at, way, T)
  BY <1>4, <1>5, <1>6 DEF Milestones
<1>. QED
  BY <1>7

-----------------------------------------------------------------------------
(* Roads and edges.                                                        *)

\* How far two places of a way are from each other.
Apart(at, way, i, j) ==
    IF i < j THEN LengthOf(Points(at, way, i, j))
    ELSE IF j < i THEN LengthOf(Points(at, way, j, i)) ELSE 0

\* The way may be driven from place i to place j.
MayRun(way, i, j) == /\ i < j => PolicyOf(way).forward
                     /\ j < i => PolicyOf(way).reverse

\* No cut lies between them.
Unbroken(W, way, i, j) ==
    \A k \in Cuts(W, way) : ~(i < k /\ k < j) /\ ~(j < k /\ k < i)

\* From each place to the next or the one before, as the way may be driven.
Follows(i, j) == i = j + 1 \/ j = i + 1

RoadHops(W, at) ==
    {hop \in References(W) \X References(W) \X Nat :
       \E way \in W : \E i, j \in DOMAIN way.refs :
         /\ Follows(i, j) /\ MayRun(way, i, j)
         /\ hop = <<way.refs[i], way.refs[j], Apart(at, way, i, j)>>}

\* From each cut to the next or the one before, by their NodeIds.
NodeIdsOn(W) == 0..(Cardinality(Retained(W)) - 1)

SpanHops(W, at) ==
    {hop \in NodeIdsOn(W) \X NodeIdsOn(W) \X Nat :
       \E way \in W : \E i, j \in Cuts(W, way) :
         /\ i # j /\ Unbroken(W, way, i, j) /\ MayRun(way, i, j)
         /\ hop = <<NodeId(W, way.refs[i]), NodeId(W, way.refs[j]),
                    Apart(at, way, i, j)>>}

\* What is known of the distances between a way's places.
Spaced(at, way, T) ==
    /\ \A i \in DOMAIN way.refs : T[i] \in Nat
    /\ \A i, j \in DOMAIN way.refs :
         /\ Apart(at, way, i, j) \in Nat
         /\ i < j => T[i] <= T[j] /\ Apart(at, way, i, j) = T[j] - T[i]
         /\ j < i => T[j] <= T[i] /\ Apart(at, way, i, j) = T[i] - T[j]
         /\ i = j => Apart(at, way, i, j) = 0

\* Milestones tell how far any two places of a way are apart.
LEMMA PlacesAreSpaced ==
    ASSUME NEW W, AreWays(W), NEW at, AreLocations(W, at), NEW way \in W
    PROVE  \E T : Spaced(at, way, T)
<1>1. PICK T : Milestones(at, way, T)
  BY WaysHaveMilestones
<1>2. DOMAIN way.refs = 1..Len(way.refs) /\ Len(way.refs) \in Nat
  BY WayPlaces
<1>3. ASSUME NEW i \in DOMAIN way.refs, NEW j \in DOMAIN way.refs
      PROVE  /\ Apart(at, way, i, j) \in Nat
             /\ i < j => T[i] <= T[j] /\ Apart(at, way, i, j) = T[j] - T[i]
             /\ j < i => T[j] <= T[i] /\ Apart(at, way, i, j) = T[i] - T[j]
             /\ i = j => Apart(at, way, i, j) = 0
  <2>1. T[i] \in Nat /\ T[j] \in Nat /\ i \in Nat /\ j \in Nat
    BY <1>1, <1>2 DEF Milestones
  <2>2. CASE i < j
    <3>1. T[i] <= T[j] /\ LengthOf(Points(at, way, i, j)) = T[j] - T[i]
      BY <1>1, <1>2, <2>2 DEF Milestones
    <3>. QED
      BY <2>1, <2>2, <3>1 DEF Apart
  <2>3. CASE j < i
    <3>1. T[j] <= T[i] /\ LengthOf(Points(at, way, j, i)) = T[i] - T[j]
      BY <1>1, <1>2, <2>3 DEF Milestones
    <3>. QED
      BY <2>1, <2>3, <3>1 DEF Apart
  <2>4. CASE i = j
    BY <2>1, <2>4 DEF Apart
  <2>. QED
    BY <2>1, <2>2, <2>3, <2>4
<1>4. Spaced(at, way, T)
  BY <1>1, <1>2, <1>3 DEF Milestones, Spaced
<1>. QED
  BY <1>4

\* The hops join nodes, at some length.
LEMMA HopsJoinNodes ==
    ASSUME NEW W, NEW at
    PROVE  /\ \A hop \in RoadHops(W, at) :
                hop[1] \in References(W) /\ hop[2] \in References(W) /\ hop[3] \in Nat
           /\ \A hop \in SpanHops(W, at) :
                hop[1] \in NodeIdsOn(W) /\ hop[2] \in NodeIdsOn(W) /\ hop[3] \in Nat
BY DEF RoadHops, SpanHops

\* Along a way, roads are no longer than the way.
LEMMA RoadsAlong ==
    ASSUME NEW W, AreWays(W), NEW at, AreLocations(W, at), NEW way \in W,
           NEW D, Measures(References(W), RoadHops(W, at), D),
           NEW a \in DOMAIN way.refs, NEW b \in DOMAIN way.refs, MayRun(way, a, b)
    PROVE  D[<<way.refs[a], way.refs[b]>>] <= Apart(at, way, a, b)
<1> DEFINE R == References(W)
           places == DOMAIN way.refs
           ref(i) == way.refs[i]
           T == {d \in Nat : \A i, j \in places :
                   /\ i = j + d \/ j = i + d
                   /\ MayRun(way, i, j)
                   => D[<<ref(i), ref(j)>>] <= Apart(at, way, i, j)}
<1>1. /\ Len(way.refs) \in Nat /\ places = 1..Len(way.refs)
      /\ \A i \in places : ref(i) \in R /\ i \in Nat
  <2>1. Len(way.refs) \in Nat /\ places = 1..Len(way.refs)
    BY WayPlaces
  <2>. QED
    BY <2>1 DEF References, ToSet
<1>2. PICK m : Spaced(at, way, m)
  BY PlacesAreSpaced
<1>3. \A x, y \in R : D[<<x, y>>] \in Nat
  BY UpToFar DEF Measures
<1>4. \A i, j \in places : /\ D[<<ref(i), ref(j)>>] \in Nat
                           /\ Apart(at, way, i, j) \in Nat
  BY <1>1, <1>2, <1>3 DEF Spaced
<1>5. ASSUME NEW i \in places, NEW j \in places, Follows(i, j), MayRun(way, i, j)
      PROVE  D[<<ref(i), ref(j)>>] <= Apart(at, way, i, j)
  <2> DEFINE hop == <<ref(i), ref(j), Apart(at, way, i, j)>>
  <2>1. hop \in RoadHops(W, at)
    BY <1>1, <1>4, <1>5 DEF RoadHops
  <2>2. D[<<hop[1], hop[2]>>] <= hop[3]
    BY <2>1 DEF Measures
  <2>. QED
    BY <2>2
<1>6. 0 \in T
  <2> SUFFICES ASSUME NEW i \in places, NEW j \in places, i = j
               PROVE  D[<<ref(i), ref(j)>>] <= Apart(at, way, i, j)
    BY <1>1
  <2>1. D[<<ref(i), ref(i)>>] = 0
    BY <1>1 DEF Measures
  <2>2. Apart(at, way, i, i) = 0
    BY <1>2 DEF Spaced
  <2>. QED
    BY <2>1, <2>2
<1>7. ASSUME NEW d \in Nat, d \in T PROVE d + 1 \in T
  <2> SUFFICES ASSUME NEW i \in places, NEW j \in places,
                      i = j + (d + 1) \/ j = i + (d + 1), MayRun(way, i, j)
               PROVE  D[<<ref(i), ref(j)>>] <= Apart(at, way, i, j)
    OBVIOUS
  <2> DEFINE k == IF i < j THEN j - 1 ELSE j + 1
  <2>1. /\ k \in places /\ (i = k + d \/ k = i + d) /\ Follows(k, j)
        /\ i < j => i <= k /\ k < j
        /\ ~(i < j) => j < k /\ k <= i
    BY <1>1 DEF Follows
  <2>2. i \in Nat /\ j \in Nat /\ k \in Nat
    BY <1>1, <2>1
  <2> HIDE DEF k
  <2>3. MayRun(way, i, k) /\ MayRun(way, k, j)
    BY <2>1, <2>2 DEF MayRun
  <2>4. D[<<ref(i), ref(k)>>] <= Apart(at, way, i, k)
    BY <1>7, <2>1, <2>3
  <2>5. D[<<ref(k), ref(j)>>] <= Apart(at, way, k, j)
    BY <1>5, <2>1, <2>3
  <2>6. D[<<ref(i), ref(j)>>] <= D[<<ref(i), ref(k)>>] + D[<<ref(k), ref(j)>>]
    BY <1>1, <2>1 DEF Measures
  <2>7. Apart(at, way, i, k) + Apart(at, way, k, j) = Apart(at, way, i, j)
    <3>1. m[i] \in Nat /\ m[j] \in Nat /\ m[k] \in Nat
      BY <1>2, <2>1 DEF Spaced
    <3>2. CASE i < j
      <4>1. /\ Apart(at, way, i, j) = m[j] - m[i] /\ Apart(at, way, k, j) = m[j] - m[k]
            /\ i < k => Apart(at, way, i, k) = m[k] - m[i]
            /\ i = k => Apart(at, way, i, k) = 0
        BY <1>2, <2>1, <3>2 DEF Spaced
      <4>2. i < k \/ i = k
        BY <2>1, <2>2, <3>2
      <4>. QED
        BY <3>1, <4>1, <4>2
    <3>3. CASE ~(i < j)
      <4>1. j < i
        BY <2>1, <2>2, <3>3
      <4>2. /\ Apart(at, way, i, j) = m[i] - m[j] /\ Apart(at, way, k, j) = m[k] - m[j]
            /\ k < i => Apart(at, way, i, k) = m[i] - m[k]
            /\ i = k => Apart(at, way, i, k) = 0
        BY <1>2, <2>1, <3>3, <4>1 DEF Spaced
      <4>3. k < i \/ i = k
        BY <2>1, <2>2, <3>3
      <4>. QED
        BY <3>1, <4>2, <4>3
    <3>. QED
      BY <3>2, <3>3
  <2>8. /\ D[<<ref(i), ref(j)>>] \in Nat /\ D[<<ref(i), ref(k)>>] \in Nat
        /\ D[<<ref(k), ref(j)>>] \in Nat /\ Apart(at, way, i, k) \in Nat
        /\ Apart(at, way, k, j) \in Nat /\ Apart(at, way, i, j) \in Nat
    BY <1>4, <2>1
  <2> HIDE DEF ref
  <2>. QED
    BY <2>4, <2>5, <2>6, <2>7, <2>8
<1> HIDE DEF T
<1>8. Nat \subseteq T
  BY <1>6, <1>7, Ind
<1>9. PICK d \in Nat : a = b + d \/ b = a + d
  <2>1. a \in Nat /\ b \in Nat
    BY <1>1
  <2>2. CASE a <= b
    <3>1. b - a \in Nat /\ b = a + (b - a)
      BY <2>1, <2>2
    <3>. QED
      BY <3>1
  <2>3. CASE b <= a
    <3>1. a - b \in Nat /\ a = b + (a - b)
      BY <2>1, <2>3
    <3>. QED
      BY <3>1
  <2>. QED
    BY <2>1, <2>2, <2>3
<1>10. d \in T
  BY <1>8
<1>. QED
  BY <1>9, <1>10 DEF T

\* The nodes that are kept, by their NodeIds.
LEMMA NodesById ==
    ASSUME NEW W, AreWays(W)
    PROVE  \E node \in [NodeIdsOn(W) -> Retained(W)] :
             /\ \A v \in NodeIdsOn(W) : NodeId(W, node[v]) = v
             /\ \A n \in Retained(W) : node[NodeId(W, n)] = n
<1> DEFINE N == Retained(W)
           V == NodeIdsOn(W)
           id == [n \in N |-> NodeId(W, n)]
           node == [v \in V |-> CHOOSE n \in N : NodeId(W, n) = v]
<1>1. /\ IsFiniteSet(N) /\ Cardinality(N) \in Nat
      /\ \A n \in N : NodeId(W, n) \in V
      /\ \A m, n \in N : NodeId(W, m) = NodeId(W, n) => m = n
  BY RetainedNodes, NodeIds DEF NodeIdsOn
<1>2. IsFiniteSet(V) /\ Cardinality(V) = Cardinality(N)
  <2>1. 0 \in Int /\ Cardinality(N) - 1 \in Int
    BY <1>1
  <2>2. /\ IsFiniteSet(0..(Cardinality(N) - 1))
        /\ Cardinality(0..(Cardinality(N) - 1))
             = IF 0 > Cardinality(N) - 1 THEN 0 ELSE (Cardinality(N) - 1) - 0 + 1
    BY <2>1, FS_Interval
  <2>3. (IF 0 > Cardinality(N) - 1 THEN 0 ELSE (Cardinality(N) - 1) - 0 + 1)
          = Cardinality(N)
    BY <1>1
  <2>. QED
    BY <2>2, <2>3 DEF NodeIdsOn
<1>3. id \in Injection(N, V)
  BY <1>1 DEF Injection, IsInjective
<1> HIDE DEF N, V, id
<1>4. id \in Surjection(N, V)
  BY <1>1, <1>2, <1>3, FS_Injection
<1>5. ASSUME NEW v \in V PROVE \E n \in N : NodeId(W, n) = v
  BY <1>4 DEF Surjection, id
<1>6. \A v \in V : node[v] \in N /\ NodeId(W, node[v]) = v
  BY <1>5
<1>7. node \in [V -> N]
  BY <1>6
<1> HIDE DEF node
<1>8. \A n \in N : node[NodeId(W, n)] = n
  BY <1>1, <1>6
<1>. QED
  BY <1>6, <1>7, <1>8 DEF N, V

\* No route over edges is shorter than the roads.
LEMMA NoShortcut ==
    ASSUME NEW W, AreWays(W), NEW at, AreLocations(W, at),
           NEW roads, Measures(References(W), RoadHops(W, at), roads),
           NEW edges, AreShortest(NodeIdsOn(W), SpanHops(W, at), edges),
           NEW m \in Retained(W), NEW n \in Retained(W)
    PROVE  roads[<<m, n>>] <= edges[<<NodeId(W, m), NodeId(W, n)>>]
<1> DEFINE V == NodeIdsOn(W)
           R == References(W)
<1>1. PICK node \in [V -> Retained(W)] :
        /\ \A v \in V : NodeId(W, node[v]) = v
        /\ \A a \in Retained(W) : node[NodeId(W, a)] = a
  BY NodesById
<1>2. /\ Retained(W) \subseteq R
      /\ \A a \in Retained(W) : NodeId(W, a) \in V
  BY RetainedNodes, NodeIds DEF NodeIdsOn
<1> DEFINE g == [p \in V \X V |-> roads[<<node[p[1]], node[p[2]]>>]]
<1>3. \A v \in V : node[v] \in R
  BY <1>1, <1>2
<1>4. \A u, v \in V : g[<<u, v>>] = roads[<<node[u], node[v]>>]
  OBVIOUS
<1>5. g \in [V \X V -> 0..Far]
  <2>1. \A p \in V \X V : roads[<<node[p[1]], node[p[2]]>>] \in 0..Far
    <3> SUFFICES ASSUME NEW p \in V \X V
                 PROVE  roads[<<node[p[1]], node[p[2]]>>] \in 0..Far
      OBVIOUS
    <3>1. node[p[1]] \in R /\ node[p[2]] \in R
      BY <1>3
    <3>2. roads \in [R \X R -> 0..Far]
      BY DEF Measures
    <3> HIDE DEF V, R
    <3>. QED
      BY <3>1, <3>2
  <2>. QED
    BY <2>1
<1>6. \A v \in V : g[<<v, v>>] = 0
  BY <1>3, <1>4 DEF Measures
<1>7. \A u, v, w \in V : g[<<u, w>>] <= g[<<u, v>>] + g[<<v, w>>]
  BY <1>3, <1>4 DEF Measures
<1> HIDE DEF g
<1>8. ASSUME NEW hop \in SpanHops(W, at) PROVE g[<<hop[1], hop[2]>>] <= hop[3]
  <2>1. PICK way \in W : \E i, j \in Cuts(W, way) :
               /\ MayRun(way, i, j)
               /\ hop = <<NodeId(W, way.refs[i]), NodeId(W, way.refs[j]),
                          Apart(at, way, i, j)>>
    BY DEF SpanHops
  <2>2. PICK i \in Cuts(W, way), j \in Cuts(W, way) :
               /\ MayRun(way, i, j)
               /\ hop = <<NodeId(W, way.refs[i]), NodeId(W, way.refs[j]),
                          Apart(at, way, i, j)>>
    BY <2>1
  <2>3. /\ i \in DOMAIN way.refs /\ j \in DOMAIN way.refs
        /\ way.refs[i] \in Retained(W) /\ way.refs[j] \in Retained(W)
    BY WayCuts
  <2>4. roads[<<way.refs[i], way.refs[j]>>] <= Apart(at, way, i, j)
    BY <2>2, <2>3, RoadsAlong
  <2>5. /\ hop[1] \in V /\ node[hop[1]] = way.refs[i]
        /\ hop[2] \in V /\ node[hop[2]] = way.refs[j]
        /\ hop[3] = Apart(at, way, i, j)
    BY <1>1, <1>2, <2>2, <2>3
  <2>6. g[<<hop[1], hop[2]>>] = roads[<<way.refs[i], way.refs[j]>>]
    BY <1>4, <2>5
  <2>. QED
    BY <2>4, <2>5, <2>6
<1>9. Measures(V, SpanHops(W, at), g)
  BY <1>5, <1>6, <1>7, <1>8 DEF Measures
<1>10. \A p \in V \X V : g[p] <= edges[p]
  BY <1>9 DEF AreShortest
<1>11. g[<<NodeId(W, m), NodeId(W, n)>>] = roads[<<m, n>>]
  BY <1>1, <1>2, <1>4
<1>. QED
  BY <1>2, <1>10, <1>11

\* A node that is not kept is one place of one way.
LEMMA OnlyOnce ==
    ASSUME NEW W, AreWays(W), NEW v \in W, NEW w \in W,
           NEW i \in DOMAIN v.refs, NEW j \in DOMAIN w.refs,
           v.refs[i] = w.refs[j], ~IsRetained(W, v.refs[i])
    PROVE  v = w /\ i = j
<1>1. <<v.id, i>> = <<w.id, j>>
  BY DEF IsRetained
<1>. QED
  BY <1>1 DEF AreWays

\* The least of some numbers, and of Far.
Nearest(S) == Min({Far} \cup S)

\* The nearest is below all of the set, and of the set or Far.
LEMMA NearestIs ==
    ASSUME NEW S \in SUBSET Nat
    PROVE  /\ Nearest(S) \in 0..Far
           /\ \A n \in S : Nearest(S) <= n
           /\ Nearest(S) = Far \/ Nearest(S) \in S
<1> DEFINE A == {Far} \cup S
<1>1. A \in SUBSET Nat /\ A # {} /\ Far \in A
  BY UpToFar, FarAssumption
<1> HIDE DEF A
<1>2. PICK n \in A : \A m \in A : n <= m
  BY <1>1, Least
<1>3. Min(A) \in A /\ \A m \in A : Min(A) <= m
  BY <1>2 DEF Min
<1>4. Min(A) \in 0..Far
  BY <1>1, <1>3, UpToFar
<1>. QED
  BY <1>3, <1>4 DEF A, Nearest

(* How far a node of the ways is from the kept node with id s, over edges  *)
(* to a cut beside it and then along its way.                              *)
Approaches(W, at, D, s, n) ==
    {l \in Nat :
       \E way \in W : \E i \in DOMAIN way.refs : \E c \in Cuts(W, way) :
         /\ way.refs[i] = n /\ Unbroken(W, way, c, i) /\ MayRun(way, c, i)
         /\ l = D[<<s, NodeId(W, way.refs[c])>>] + Apart(at, way, c, i)}

Reach(W, at, D, s, n) == Nearest(Approaches(W, at, D, s, n))

\* Reach is below the length of every approach, and one of them or Far.
LEMMA ReachIs ==
    ASSUME NEW W, NEW at, NEW D, NEW s, NEW n
    PROVE  /\ Reach(W, at, D, s, n) \in 0..Far
           /\ \A l \in Approaches(W, at, D, s, n) : Reach(W, at, D, s, n) <= l
           /\ \/ Reach(W, at, D, s, n) = Far
              \/ Reach(W, at, D, s, n) \in Approaches(W, at, D, s, n)
<1> DEFINE S == Approaches(W, at, D, s, n)
<1>1. S \in SUBSET Nat
  BY DEF Approaches
<1> HIDE DEF S
<1>2. /\ Nearest(S) \in 0..Far /\ \A l \in S : Nearest(S) <= l
      /\ Nearest(S) = Far \/ Nearest(S) \in S
  BY <1>1, NearestIs
<1>. QED
  BY <1>2 DEF S, Reach

\* What an approach is made of, and that each is one.
LEMMA ApproachIs ==
    ASSUME NEW W, AreWays(W), NEW at, AreLocations(W, at),
           NEW D, Measures(NodeIdsOn(W), SpanHops(W, at), D),
           NEW s \in NodeIdsOn(W), NEW way \in W,
           NEW i \in DOMAIN way.refs, NEW c \in Cuts(W, way),
           Unbroken(W, way, c, i), MayRun(way, c, i)
    PROVE  D[<<s, NodeId(W, way.refs[c])>>] + Apart(at, way, c, i)
             \in Approaches(W, at, D, s, way.refs[i])
<1>1. c \in DOMAIN way.refs /\ way.refs[c] \in Retained(W)
  BY WayCuts
<1>2. NodeId(W, way.refs[c]) \in NodeIdsOn(W)
  BY <1>1, NodeIds DEF NodeIdsOn
<1>3. D[<<s, NodeId(W, way.refs[c])>>] \in Nat
  BY <1>2, UpToFar DEF Measures
<1>4. PICK T : Spaced(at, way, T)
  BY PlacesAreSpaced
<1>5. Apart(at, way, c, i) \in Nat
  BY <1>1, <1>4 DEF Spaced
<1>6. D[<<s, NodeId(W, way.refs[c])>>] + Apart(at, way, c, i) \in Nat
  BY <1>3, <1>5
<1>. QED
  BY <1>6 DEF Approaches

\* A kept node is as far as over edges alone.
LEMMA ReachOfKept ==
    ASSUME NEW W, AreWays(W), NEW at, AreLocations(W, at),
           NEW D, Measures(NodeIdsOn(W), SpanHops(W, at), D),
           NEW s \in NodeIdsOn(W), NEW n \in Retained(W)
    PROVE  Reach(W, at, D, s, n) = D[<<s, NodeId(W, n)>>]
<1> DEFINE V == NodeIdsOn(W)
           h == Reach(W, at, D, s, n)
           d == D[<<s, NodeId(W, n)>>]
<1>1. NodeId(W, n) \in V /\ d \in Nat /\ d <= Far
  <2>1. NodeId(W, n) \in V
    BY NodeIds DEF NodeIdsOn
  <2>2. D[<<s, NodeId(W, n)>>] \in 0..Far
    BY <2>1 DEF Measures
  <2>. QED
    BY <2>1, <2>2, UpToFar
<1>2. h \in Nat /\ h <= Far
  <2>1. h \in 0..Far
    BY ReachIs
  <2>. QED
    BY <2>1, UpToFar
<1>3. h <= d
  <2>1. PICK way \in W : \E i \in DOMAIN way.refs : way.refs[i] = n
    BY RetainedNodes DEF References, ToSet
  <2>2. PICK i \in DOMAIN way.refs : way.refs[i] = n
    BY <2>1
  <2>3. i \in Cuts(W, way) /\ i \in Nat
    BY <2>2, WayPlaces DEF Cuts, Retained
  <2>4. Unbroken(W, way, i, i) /\ MayRun(way, i, i) /\ Apart(at, way, i, i) = 0
    <3>1. \A k \in Cuts(W, way) : k \in Nat
      BY WayCuts
    <3>. QED
      BY <2>3, <3>1 DEF Unbroken, MayRun, Apart
  <2>5. d + 0 \in Approaches(W, at, D, s, way.refs[i])
    BY <2>2, <2>3, <2>4, ApproachIs
  <2>6. h <= d + 0
    BY <2>2, <2>5, ReachIs
  <2> HIDE DEF h, d
  <2>. QED
    BY <1>1, <1>2, <2>6
<1>4. ASSUME h \in Approaches(W, at, D, s, n) PROVE d <= h
  <2>1. PICK way \in W : \E i \in DOMAIN way.refs : \E c \in Cuts(W, way) :
               /\ way.refs[i] = n /\ Unbroken(W, way, c, i) /\ MayRun(way, c, i)
               /\ h = D[<<s, NodeId(W, way.refs[c])>>] + Apart(at, way, c, i)
    BY <1>4 DEF Approaches
  <2>2. PICK i \in DOMAIN way.refs, c \in Cuts(W, way) :
               /\ way.refs[i] = n /\ Unbroken(W, way, c, i) /\ MayRun(way, c, i)
               /\ h = D[<<s, NodeId(W, way.refs[c])>>] + Apart(at, way, c, i)
    BY <2>1
  <2> DEFINE m == way.refs[c]
  <2>3. c \in DOMAIN way.refs /\ m \in Retained(W) /\ i \in Cuts(W, way)
    BY <2>2, WayCuts DEF Cuts, Retained
  <2>4. NodeId(W, m) \in V
    BY <2>3, NodeIds DEF NodeIdsOn
  <2>5. PICK T : Spaced(at, way, T)
    BY PlacesAreSpaced
  <2>6. Apart(at, way, c, i) \in Nat /\ (c = i => Apart(at, way, c, i) = 0)
    BY <2>3, <2>5 DEF Spaced
  <2>7. D[<<s, NodeId(W, m)>>] \in Nat
    BY <2>4, UpToFar DEF Measures
  <2>8. CASE c = i
    <3> DEFINE e == D[<<s, NodeId(W, m)>>]
    <3>1. m = n /\ e = d /\ h = e + Apart(at, way, c, i)
      BY <2>2, <2>8
    <3>2. e \in Nat /\ Apart(at, way, c, i) = 0
      BY <2>6, <2>7, <2>8
    <3> HIDE DEF e, d, h
    <3>. QED
      BY <3>1, <3>2
  <2>9. CASE c # i
    <3> DEFINE hop == <<NodeId(W, m), NodeId(W, n), Apart(at, way, c, i)>>
               a == D[<<s, NodeId(W, m)>>]
               b == D[<<NodeId(W, m), NodeId(W, n)>>]
               l == Apart(at, way, c, i)
    <3>1. hop \in SpanHops(W, at)
      BY <1>1, <2>2, <2>3, <2>4, <2>6, <2>9 DEF SpanHops
    <3>2. D[<<hop[1], hop[2]>>] <= hop[3]
      BY <3>1 DEF Measures
    <3>3. b <= l
      BY <3>2
    <3>4. d <= a + b
      BY <1>1, <2>4 DEF Measures
    <3>5. a \in Nat /\ l \in Nat /\ h = a + l
      BY <2>2, <2>6, <2>7
    <3>6. b \in Nat
      BY <1>1, <2>4, UpToFar DEF Measures
    <3> HIDE DEF a, b, l, d, h
    <3>. QED
      BY <1>1, <3>3, <3>4, <3>5, <3>6
  <2>. QED
    BY <2>8, <2>9
<1>5. h = Far \/ h \in Approaches(W, at, D, s, n)
  BY ReachIs
<1>6. d <= h
  <2> HIDE DEF d, h
  <2>. QED
    BY <1>1, <1>4, <1>5
<1> HIDE DEF d, h
<1>7. h = d
  BY <1>1, <1>2, <1>3, <1>6
<1>. QED
  BY <1>7 DEF d, h

\* A place beside one that is not cut is approached from the same cut.
LEMMA ApproachGoesOn ==
    ASSUME NEW W, AreWays(W), NEW at, AreLocations(W, at), NEW way \in W,
           NEW i \in DOMAIN way.refs, NEW j \in DOMAIN way.refs, Follows(i, j),
           MayRun(way, i, j), i \notin Cuts(W, way),
           NEW c \in Cuts(W, way), Unbroken(W, way, c, i), MayRun(way, c, i)
    PROVE  /\ Unbroken(W, way, c, j) /\ MayRun(way, c, j)
           /\ Apart(at, way, c, j) <= Apart(at, way, c, i) + Apart(at, way, i, j)
<1>1. /\ i \in Nat /\ j \in Nat /\ c \in Nat /\ c # i /\ c \in DOMAIN way.refs
      /\ \A k \in Cuts(W, way) : k \in Nat /\ k # i
  BY WayCuts, WayPlaces
<1>2. j = i + 1 \/ i = j + 1
  BY DEF Follows
<1>3. Unbroken(W, way, c, j)
  <2> SUFFICES ASSUME NEW k \in Cuts(W, way)
               PROVE  ~(c < k /\ k < j) /\ ~(j < k /\ k < c)
    BY DEF Unbroken
  <2>1. ~(c < k /\ k < i) /\ ~(i < k /\ k < c) /\ k \in Nat /\ k # i
    BY <1>1 DEF Unbroken
  <2>. QED
    BY <1>1, <1>2, <2>1
<1>4. MayRun(way, c, j)
  <2>1. /\ c < i => PolicyOf(way).forward
        /\ i < c => PolicyOf(way).reverse
        /\ i < j => PolicyOf(way).forward
        /\ j < i => PolicyOf(way).reverse
    BY DEF MayRun
  <2>2. c < j => c < i \/ i < j
    BY <1>1
  <2>3. j < c => i < c \/ j < i
    BY <1>1
  <2>. QED
    BY <2>1, <2>2, <2>3 DEF MayRun
<1>5. PICK T : Spaced(at, way, T)
  BY PlacesAreSpaced
<1> DEFINE cj == Apart(at, way, c, j)
           ci == Apart(at, way, c, i)
           ij == Apart(at, way, i, j)
<1>6. /\ T[i] \in Nat /\ T[j] \in Nat /\ T[c] \in Nat
      /\ cj \in Nat /\ ci \in Nat /\ ij \in Nat
      /\ c < j => T[c] <= T[j] /\ cj = T[j] - T[c]
      /\ j < c => T[j] <= T[c] /\ cj = T[c] - T[j]
      /\ c = j => cj = 0
      /\ c < i => T[c] <= T[i] /\ ci = T[i] - T[c]
      /\ i < c => T[i] <= T[c] /\ ci = T[c] - T[i]
      /\ i < j => T[i] <= T[j] /\ ij = T[j] - T[i]
      /\ j < i => T[j] <= T[i] /\ ij = T[i] - T[j]
  BY <1>1, <1>5 DEF Spaced
<1> HIDE DEF cj, ci, ij
<1>7. cj <= ci + ij
  <2>1. CASE c < j /\ c < i
    BY <1>1, <1>2, <1>6, <2>1
  <2>2. CASE j < c /\ i < c
    BY <1>1, <1>2, <1>6, <2>2
  <2>3. CASE c = j
    BY <1>6, <2>3
  <2>. QED
    BY <1>1, <1>2, <2>1, <2>2, <2>3
<1>. QED
  BY <1>3, <1>4, <1>7 DEF cj, ci, ij

\* One hop along a road adds at most its length.
LEMMA ReachOverAHop ==
    ASSUME NEW W, AreWays(W), NEW at, AreLocations(W, at),
           NEW D, Measures(NodeIdsOn(W), SpanHops(W, at), D),
           NEW s \in NodeIdsOn(W), NEW hop \in RoadHops(W, at)
    PROVE  Reach(W, at, D, s, hop[2]) <= Reach(W, at, D, s, hop[1]) + hop[3]
<1> DEFINE h(n) == Reach(W, at, D, s, n)
<1>1. PICK way \in W : \E i, j \in DOMAIN way.refs :
             /\ Follows(i, j) /\ MayRun(way, i, j)
             /\ hop = <<way.refs[i], way.refs[j], Apart(at, way, i, j)>>
  BY DEF RoadHops
<1>2. PICK i \in DOMAIN way.refs, j \in DOMAIN way.refs :
             /\ Follows(i, j) /\ MayRun(way, i, j)
             /\ hop = <<way.refs[i], way.refs[j], Apart(at, way, i, j)>>
  BY <1>1
<1> DEFINE m == way.refs[i]
           n == way.refs[j]
           l == Apart(at, way, i, j)
<1>3. hop[1] = m /\ hop[2] = n /\ hop[3] = l /\ l \in Nat
  BY <1>2, HopsJoinNodes
<1>4. \A x : h(x) \in Nat /\ h(x) <= Far
  <2>1. \A x : h(x) \in 0..Far
    BY ReachIs
  <2>. QED
    BY <2>1, UpToFar
<1>5. CASE h(m) = Far
  <2>1. h(n) <= h(m) /\ h(n) \in Nat /\ h(m) \in Nat
    BY <1>4, <1>5
  <2> HIDE DEF h, l
  <2>2. h(n) <= h(m) + l
    BY <1>3, <2>1
  <2>. QED
    BY <1>3, <2>2 DEF h
<1>6. CASE m \in Retained(W)
  <2>1. i \in Cuts(W, way)
    BY <1>6 DEF Cuts, Retained
  <2>2. Unbroken(W, way, i, j)
    <3>1. j = i + 1 \/ i = j + 1
      BY <1>2 DEF Follows
    <3>2. i \in Nat /\ j \in Nat
      BY WayPlaces
    <3>3. \A k \in Cuts(W, way) : k \in Nat
      BY WayCuts
    <3>. QED
      BY <3>1, <3>2, <3>3 DEF Unbroken
  <2>3. D[<<s, NodeId(W, m)>>] + l \in Approaches(W, at, D, s, n)
    BY <1>2, <2>1, <2>2, ApproachIs
  <2>4. h(m) = D[<<s, NodeId(W, m)>>]
    BY <1>6, ReachOfKept
  <2>5. h(n) <= h(m) + l
    BY <2>3, <2>4, ReachIs
  <2>. QED
    BY <1>3, <2>5
<1>7. CASE m \notin Retained(W) /\ h(m) \in Approaches(W, at, D, s, m)
  <2>1. PICK w \in W : \E k \in DOMAIN w.refs : \E c \in Cuts(W, w) :
               /\ w.refs[k] = m /\ Unbroken(W, w, c, k) /\ MayRun(w, c, k)
               /\ h(m) = D[<<s, NodeId(W, w.refs[c])>>] + Apart(at, w, c, k)
    BY <1>7 DEF Approaches
  <2>2. PICK k \in DOMAIN w.refs, c \in Cuts(W, w) :
               /\ w.refs[k] = m /\ Unbroken(W, w, c, k) /\ MayRun(w, c, k)
               /\ h(m) = D[<<s, NodeId(W, w.refs[c])>>] + Apart(at, w, c, k)
    BY <2>1
  <2>3. ~IsRetained(W, m)
    <3>1. m \in References(W)
      BY DEF References, ToSet
    <3>. QED
      BY <1>7, <3>1 DEF Retained
  <2>4. w = way /\ k = i
    BY <2>2, <2>3, OnlyOnce
  <2>5. i \notin Cuts(W, way)
    BY <2>3 DEF Cuts
  <2>6. c \in Cuts(W, way) /\ Unbroken(W, way, c, i) /\ MayRun(way, c, i)
    BY <2>2, <2>4
  <2> DEFINE e == D[<<s, NodeId(W, way.refs[c])>>]
             ci == Apart(at, way, c, i)
             cj == Apart(at, way, c, j)
  <2>7. /\ Unbroken(W, way, c, j) /\ MayRun(way, c, j)
        /\ cj <= ci + l
    BY <1>2, <2>5, <2>6, ApproachGoesOn
  <2>8. e + cj \in Approaches(W, at, D, s, n)
    BY <2>6, <2>7, ApproachIs
  <2>9. h(n) <= e + cj
    BY <2>8, ReachIs
  <2>10. h(m) = e + ci
    BY <2>2, <2>4
  <2>11. e \in Nat /\ ci \in Nat /\ cj \in Nat
    <3>1. c \in DOMAIN way.refs /\ way.refs[c] \in Retained(W)
      BY <2>6, WayCuts
    <3>2. NodeId(W, way.refs[c]) \in NodeIdsOn(W)
      BY <3>1, NodeIds DEF NodeIdsOn
    <3>3. PICK T : Spaced(at, way, T)
      BY PlacesAreSpaced
    <3>4. e \in Nat
      BY <3>2, UpToFar DEF Measures
    <3>. QED
      BY <3>1, <3>3, <3>4 DEF Spaced
  <2>12. h(n) \in Nat /\ h(m) \in Nat
    BY <1>4
  <2> HIDE DEF h, e, ci, cj, l
  <2>13. h(n) <= h(m) + l
    BY <1>3, <2>7, <2>9, <2>10, <2>11, <2>12
  <2>. QED
    BY <1>3, <2>13 DEF h
<1>8. h(m) = Far \/ h(m) \in Approaches(W, at, D, s, m)
  BY ReachIs
<1>. QED
  BY <1>5, <1>6, <1>7, <1>8

\* No road is lost: none is shorter than the routes over edges.
LEMMA NoneLost ==
    ASSUME NEW W, AreWays(W), NEW at, AreLocations(W, at),
           NEW roads, AreShortest(References(W), RoadHops(W, at), roads),
           NEW edges, Measures(NodeIdsOn(W), SpanHops(W, at), edges),
           NEW m \in Retained(W), NEW n \in Retained(W)
    PROVE  edges[<<NodeId(W, m), NodeId(W, n)>>] <= roads[<<m, n>>]
<1> DEFINE R == References(W)
           s == NodeId(W, m)
           h(x) == Reach(W, at, edges, s, x)
           g == [p \in R \X R |-> IF h(p[1]) <= h(p[2]) THEN h(p[2]) - h(p[1]) ELSE 0]
<1>1. s \in NodeIdsOn(W)
  BY NodeIds DEF NodeIdsOn
<1>2. \A x : h(x) \in Nat /\ h(x) <= Far
  <2>1. \A x : h(x) \in 0..Far
    BY ReachIs
  <2>. QED
    BY <2>1, UpToFar
<1>3. \A hop \in RoadHops(W, at) : h(hop[2]) <= h(hop[1]) + hop[3]
  BY <1>1, ReachOverAHop
<1>4. h(m) = 0
  <2>1. h(m) = edges[<<s, s>>]
    BY <1>1, ReachOfKept
  <2>. QED
    BY <1>1, <2>1 DEF Measures
<1>5. h(n) = edges[<<s, NodeId(W, n)>>]
  BY <1>1, ReachOfKept
<1> HIDE DEF h
<1>6. \A x, y \in R : g[<<x, y>>] = IF h(x) <= h(y) THEN h(y) - h(x) ELSE 0
  OBVIOUS
<1>7. g \in [R \X R -> 0..Far]
  <2> SUFFICES ASSUME NEW p \in R \X R
               PROVE  (IF h(p[1]) <= h(p[2]) THEN h(p[2]) - h(p[1]) ELSE 0) \in 0..Far
    OBVIOUS
  <2> DEFINE a == h(p[1])
             b == h(p[2])
  <2>1. a \in Nat /\ b \in Nat /\ b <= Far
    BY <1>2
  <2> HIDE DEF a, b
  <2>2. (IF a <= b THEN b - a ELSE 0) \in 0..Far
    BY <2>1, FarAssumption
  <2>. QED
    BY <2>2 DEF a, b
<1> HIDE DEF g
<1>8. \A x \in R : g[<<x, x>>] = 0
  BY <1>2, <1>6
<1>9. ASSUME NEW hop \in RoadHops(W, at) PROVE g[<<hop[1], hop[2]>>] <= hop[3]
  <2>1. hop[1] \in R /\ hop[2] \in R /\ hop[3] \in Nat
    BY HopsJoinNodes
  <2>2. h(hop[1]) \in Nat /\ h(hop[2]) \in Nat /\ h(hop[2]) <= h(hop[1]) + hop[3]
    BY <1>2, <1>3
  <2>3. g[<<hop[1], hop[2]>>]
          = IF h(hop[1]) <= h(hop[2]) THEN h(hop[2]) - h(hop[1]) ELSE 0
    BY <1>6, <2>1
  <2>. QED
    BY <2>1, <2>2, <2>3
<1>10. ASSUME NEW x \in R, NEW y \in R, NEW z \in R
       PROVE  g[<<x, z>>] <= g[<<x, y>>] + g[<<y, z>>]
  <2>1. h(x) \in Nat /\ h(y) \in Nat /\ h(z) \in Nat
    BY <1>2
  <2>2. /\ g[<<x, z>>] = IF h(x) <= h(z) THEN h(z) - h(x) ELSE 0
        /\ g[<<x, y>>] = IF h(x) <= h(y) THEN h(y) - h(x) ELSE 0
        /\ g[<<y, z>>] = IF h(y) <= h(z) THEN h(z) - h(y) ELSE 0
    BY <1>6
  <2>. QED
    BY <2>1, <2>2
<1>11. Measures(R, RoadHops(W, at), g)
  BY <1>7, <1>8, <1>9, <1>10 DEF Measures
<1>12. m \in R /\ n \in R
  BY RetainedNodes
<1>13. g[<<m, n>>] <= roads[<<m, n>>]
  BY <1>11, <1>12 DEF AreShortest
<1>14. g[<<m, n>>] = h(n)
  <2>1. g[<<m, n>>] = IF h(m) <= h(n) THEN h(n) - h(m) ELSE 0
    BY <1>6, <1>12
  <2>2. h(n) \in Nat
    BY <1>2
  <2>. QED
    BY <1>4, <2>1, <2>2
<1>. QED
  BY <1>5, <1>13, <1>14

(* Cutting ways into edges changes no distance between the nodes that      *)
(* are kept.                                                               *)
LEMMA CutsKeepDistances ==
    ASSUME NEW W, AreWays(W), NEW at, AreLocations(W, at),
           NEW roads, AreShortest(References(W), RoadHops(W, at), roads),
           NEW edges, AreShortest(NodeIdsOn(W), SpanHops(W, at), edges),
           NEW m \in Retained(W), NEW n \in Retained(W)
    PROVE  edges[<<NodeId(W, m), NodeId(W, n)>>] = roads[<<m, n>>]
<1>1. /\ Measures(References(W), RoadHops(W, at), roads)
      /\ Measures(NodeIdsOn(W), SpanHops(W, at), edges)
  BY DEF AreShortest
<1> DEFINE a == edges[<<NodeId(W, m), NodeId(W, n)>>]
           b == roads[<<m, n>>]
<1>2. b <= a
  BY <1>1, NoShortcut
<1>3. a <= b
  BY <1>1, NoneLost
<1>4. a \in Nat /\ b \in Nat
  <2>1. NodeId(W, m) \in NodeIdsOn(W) /\ NodeId(W, n) \in NodeIdsOn(W)
    BY NodeIds DEF NodeIdsOn
  <2>2. m \in References(W) /\ n \in References(W)
    BY RetainedNodes
  <2>. QED
    BY <1>1, <2>1, <2>2, UpToFar DEF Measures
<1> HIDE DEF a, b
<1>5. a = b
  BY <1>2, <1>3, <1>4
<1>. QED
  BY <1>5 DEF a, b

-----------------------------------------------------------------------------
(* The hops of RoutesAreRoads are these.                                   *)

LengthsFrom(Hops, u, v) == {l \in Nat : <<u, v, l>> \in Hops}

\* A table that takes the nearest of the hops between two nodes is ShortestHops.
LEMMA ShortestOfHops ==
    ASSUME NEW V, NEW Hops \in SUBSET (V \X V \X Nat), NEW len,
           len = [p \in V \X V |->
                    IF p[1] = p[2] THEN 0 ELSE Nearest(LengthsFrom(Hops, p[1], p[2]))]
    PROVE  ShortestHops(V, Hops, len)
<1>1. \A u, v \in V : len[<<u, v>>] = IF u = v THEN 0
                                      ELSE Nearest(LengthsFrom(Hops, u, v))
  OBVIOUS
<1>2. ASSUME NEW u, NEW v
      PROVE  LET S == LengthsFrom(Hops, u, v)
             IN  /\ Nearest(S) \in 0..Far
                 /\ \A n \in S : Nearest(S) <= n
                 /\ Nearest(S) = Far \/ Nearest(S) \in S
  <2> DEFINE S == LengthsFrom(Hops, u, v)
  <2>1. S \in SUBSET Nat
    BY DEF LengthsFrom
  <2> HIDE DEF S
  <2>2. /\ Nearest(S) \in 0..Far
        /\ \A n \in S : Nearest(S) <= n
        /\ Nearest(S) = Far \/ Nearest(S) \in S
    BY <2>1, NearestIs
  <2>. QED
    BY <2>2 DEF S
<1>3. 0 \in 0..Far
  BY FarAssumption
<1>4. len \in [V \X V -> 0..Far]
  BY <1>2, <1>3
<1>5. \A v \in V : len[<<v, v>>] = 0
  BY <1>1
<1>6. ASSUME NEW hop \in Hops PROVE len[<<hop[1], hop[2]>>] <= hop[3]
  <2>1. /\ hop[1] \in V /\ hop[2] \in V /\ hop[3] \in Nat
        /\ <<hop[1], hop[2], hop[3]>> \in Hops
    OBVIOUS
  <2>2. CASE hop[1] = hop[2]
    BY <1>5, <2>1, <2>2
  <2>3. CASE hop[1] # hop[2]
    <3>1. hop[3] \in LengthsFrom(Hops, hop[1], hop[2])
      BY <2>1 DEF LengthsFrom
    <3>. QED
      BY <1>1, <1>2, <2>1, <2>3, <3>1
  <2>. QED
    BY <2>2, <2>3
<1>7. ASSUME NEW u \in V, NEW v \in V, u # v
      PROVE  len[<<u, v>>] = Far \/ <<u, v, len[<<u, v>>]>> \in Hops
  <2> DEFINE l == len[<<u, v>>]
  <2>1. l = Nearest(LengthsFrom(Hops, u, v))
    BY <1>1, <1>7
  <2>2. l = Far \/ l \in LengthsFrom(Hops, u, v)
    BY <1>2, <2>1
  <2> HIDE DEF l
  <2>3. l = Far \/ <<u, v, l>> \in Hops
    BY <2>2 DEF LengthsFrom
  <2>. QED
    BY <2>3 DEF l
<1>. QED
  BY <1>4, <1>5, <1>6, <1>7 DEF ShortestHops

\* The length of a step, there and back.
LEMMA PairLength ==
    ASSUME NEW a \in Int \X Int, NEW b \in Int \X Int
    PROVE  LengthOf(<<a, b>>) = Abs(b[1] - a[1]) + Abs(b[2] - a[2])
<1> DEFINE line == <<a, b>>
<1>1. line \in Line /\ Len(line) - 1 = 1 /\ line[1] = a /\ line[1 + 1] = b
  BY DEF Line
<1>2. PICK upto : SumsSteps(line, upto)
  BY <1>1, LengthsSumSteps
<1>3. /\ LengthOf(line) = upto[1] /\ upto[0] = 0 /\ StepAt(line, 1) \in Nat
      /\ upto[1] = upto[0] + StepAt(line, 1)
  <2>1. 1 \in 1..(Len(line) - 1) /\ 1 - 1 = 0
    BY <1>1
  <2>. QED
    BY <1>1, <1>2, <2>1 DEF SumsSteps
<1>4. StepAt(line, 1) = Abs(b[1] - a[1]) + Abs(b[2] - a[2])
  BY <1>1 DEF StepAt
<1> HIDE DEF line
<1>5. LengthOf(line) = StepAt(line, 1)
  BY <1>3
<1>. QED
  BY <1>4, <1>5 DEF line

\* Two points are as far apart one way as the other.
LEMMA PairLengthIsSymmetric ==
    ASSUME NEW a \in Int \X Int, NEW b \in Int \X Int
    PROVE  LengthOf(<<a, b>>) = LengthOf(<<b, a>>)
<1>1. ASSUME NEW x \in Int, NEW y \in Int PROVE Abs(y - x) = Abs(x - y)
  <2>1. y - x < 0 \/ y - x = 0 \/ y - x > 0
    OBVIOUS
  <2>. QED
    BY <2>1 DEF Abs
<1>2. a[1] \in Int /\ a[2] \in Int /\ b[1] \in Int /\ b[2] \in Int
  OBVIOUS
<1>3. Abs(b[1] - a[1]) = Abs(a[1] - b[1]) /\ Abs(b[2] - a[2]) = Abs(a[2] - b[2])
  BY <1>1, <1>2
<1>. QED
  BY <1>3, PairLength

\* Two places that follow each other are as far as their locations.
LEMMA ApartOfNeighbors ==
    ASSUME NEW W, AreWays(W), NEW at, AreLocations(W, at), NEW way \in W,
           NEW i \in DOMAIN way.refs, NEW j \in DOMAIN way.refs, Follows(i, j)
    PROVE  Apart(at, way, i, j) = LengthOf(<<at[way.refs[i]], at[way.refs[j]]>>)
<1>1. PICK T : Milestones(at, way, T)
  BY WaysHaveMilestones
<1>2. /\ DOMAIN way.refs = 1..Len(way.refs) /\ Len(way.refs) \in Nat
      /\ i \in Nat /\ j \in Nat
  BY WayPlaces
<1>3. at[way.refs[i]] \in Int \X Int /\ at[way.refs[j]] \in Int \X Int
  <2>1. way.refs[i] \in References(W) /\ way.refs[j] \in References(W)
    BY DEF References, ToSet
  <2>. QED
    BY <2>1 DEF AreLocations
<1>4. CASE j = i + 1
  <2>1. i \in 1..(Len(way.refs) - 1) /\ i < j
    BY <1>2, <1>4
  <2>2. LengthOf(<<at[way.refs[i]], at[way.refs[i + 1]]>>) = T[i + 1] - T[i]
    BY <1>1, <2>1 DEF Milestones
  <2>3. LengthOf(Points(at, way, i, j)) = T[j] - T[i]
    BY <1>1, <1>2, <2>1 DEF Milestones
  <2>. QED
    BY <1>4, <2>1, <2>2, <2>3 DEF Apart
<1>5. CASE i = j + 1
  <2>1. j \in 1..(Len(way.refs) - 1) /\ j < i /\ ~(i < j)
    BY <1>2, <1>5
  <2>2. LengthOf(<<at[way.refs[j]], at[way.refs[j + 1]]>>) = T[j + 1] - T[j]
    BY <1>1, <2>1 DEF Milestones
  <2>3. LengthOf(Points(at, way, j, i)) = T[i] - T[j]
    BY <1>1, <1>2, <2>1 DEF Milestones
  <2>4. LengthOf(<<at[way.refs[i]], at[way.refs[j]]>>)
          = LengthOf(<<at[way.refs[j]], at[way.refs[i]]>>)
    BY <1>3, PairLengthIsSymmetric
  <2>. QED
    BY <1>5, <2>1, <2>2, <2>3, <2>4 DEF Apart
<1>. QED
  BY <1>4, <1>5 DEF Follows

\* RoadHop leads along the ways.
LEMMA RoadHopsAre ==
    ASSUME AreWays(Ways), AreLocations(Ways, coordinates),
           eligible \in Seq(Way),
           NEW u \in References(Ways), NEW v \in References(Ways)
    PROVE  RoadHop(u, v) = LengthsFrom(RoadHops(Ways, coordinates), u, v)
<1> DEFINE W == Ways
           at == coordinates
           Beside(way, m, n) == \E i \in 1..(Len(way.refs) - 1) :
                                    <<m, n>> = <<way.refs[i], way.refs[i + 1]>>
           Leads(way) == \/ PolicyOf(way).forward /\ Beside(way, u, v)
                         \/ PolicyOf(way).reverse /\ Beside(way, v, u)
           l == LengthOf(<<at[u], at[v]>>)
<1>1. RoadHop(u, v) = {l : w \in {w \in DOMAIN eligible : Leads(eligible[w])}}
  BY DEF RoadHop
<1>2. \A w \in DOMAIN eligible : eligible[w] \in W
  BY DEF Ways, ToSet
<1>3. \A way \in W : \E w \in DOMAIN eligible : eligible[w] = way
  BY DEF Ways, ToSet
<1>4. l \in Nat
  <2> DEFINE line == <<at[u], at[v]>>
  <2>1. at[u] \in Int \X Int /\ at[v] \in Int \X Int
    BY DEF AreLocations
  <2>2. line \in Line
    BY <2>1 DEF Line
  <2> HIDE DEF line
  <2>3. LengthOf(line) \in Nat
    BY <2>2, LengthsAreNatural
  <2>. QED
    BY <2>3 DEF line
<1> HIDE DEF W, at, l, Leads, Beside
<1>5. ASSUME NEW way \in W
      PROVE  Leads(way) <=> \E i, j \in DOMAIN way.refs :
                /\ Follows(i, j) /\ MayRun(way, i, j)
                /\ way.refs[i] = u /\ way.refs[j] = v
  <2>1. DOMAIN way.refs = 1..Len(way.refs) /\ Len(way.refs) \in Nat
    BY WayPlaces DEF W
  <2>2. ASSUME NEW i \in 1..(Len(way.refs) - 1)
        PROVE  /\ i \in DOMAIN way.refs /\ i + 1 \in DOMAIN way.refs
               /\ Follows(i, i + 1) /\ Follows(i + 1, i)
               /\ (MayRun(way, i, i + 1) <=> PolicyOf(way).forward)
               /\ (MayRun(way, i + 1, i) <=> PolicyOf(way).reverse)
    <3>1. /\ i \in DOMAIN way.refs /\ i + 1 \in DOMAIN way.refs
          /\ i < i + 1 /\ ~(i + 1 < i)
      BY <2>1
    <3>2. Follows(i, i + 1) /\ Follows(i + 1, i)
      BY DEF Follows
    <3>3. MayRun(way, i, i + 1) <=> PolicyOf(way).forward
      BY <3>1, Zenon DEF MayRun
    <3>4. MayRun(way, i + 1, i) <=> PolicyOf(way).reverse
      BY <3>1, Zenon DEF MayRun
    <3>. QED
      BY <3>1, <3>2, <3>3, <3>4
  <2>3. ASSUME Leads(way)
        PROVE  \E i, j \in DOMAIN way.refs :
                 /\ Follows(i, j) /\ MayRun(way, i, j)
                 /\ way.refs[i] = u /\ way.refs[j] = v
    <3>1. CASE PolicyOf(way).forward /\ Beside(way, u, v)
      <4>1. PICK i \in 1..(Len(way.refs) - 1) :
                   way.refs[i] = u /\ way.refs[i + 1] = v
        BY <3>1 DEF Beside
      <4>. QED
        BY <2>2, <3>1, <4>1
    <3>2. CASE PolicyOf(way).reverse /\ Beside(way, v, u)
      <4>1. PICK i \in 1..(Len(way.refs) - 1) :
                   way.refs[i] = v /\ way.refs[i + 1] = u
        BY <3>2 DEF Beside
      <4>. QED
        BY <2>2, <3>2, <4>1
    <3>. QED
      BY <2>3, <3>1, <3>2 DEF Leads
  <2>4. ASSUME NEW i \in DOMAIN way.refs, NEW j \in DOMAIN way.refs,
               Follows(i, j), MayRun(way, i, j), way.refs[i] = u, way.refs[j] = v
        PROVE  Leads(way)
    <3>1. CASE j = i + 1
      <4>1. i \in 1..(Len(way.refs) - 1)
        BY <2>1, <3>1
      <4>2. PolicyOf(way).forward
        BY <2>2, <2>4, <3>1, <4>1
      <4>3. Beside(way, u, v)
        BY <2>4, <3>1, <4>1 DEF Beside
      <4>. QED
        BY <4>2, <4>3 DEF Leads
    <3>2. CASE i = j + 1
      <4>1. j \in 1..(Len(way.refs) - 1)
        BY <2>1, <3>2
      <4>2. PolicyOf(way).reverse
        BY <2>2, <2>4, <3>2, <4>1
      <4>3. Beside(way, v, u)
        BY <2>4, <3>2, <4>1 DEF Beside
      <4>. QED
        BY <4>2, <4>3 DEF Leads
    <3>. QED
      BY <2>4, <3>1, <3>2 DEF Follows
  <2>. QED
    BY <2>3, <2>4
<1>6. ASSUME NEW x \in RoadHop(u, v) PROVE x \in LengthsFrom(RoadHops(W, at), u, v)
  <2>1. PICK w \in DOMAIN eligible : Leads(eligible[w]) /\ x = l
    BY <1>1, <1>6
  <2> DEFINE way == eligible[w]
  <2>2. way \in W
    BY <1>2
  <2>3. PICK i \in DOMAIN way.refs, j \in DOMAIN way.refs :
               /\ Follows(i, j) /\ MayRun(way, i, j)
               /\ way.refs[i] = u /\ way.refs[j] = v
    BY <1>5, <2>1, <2>2
  <2>4. Apart(at, way, i, j) = x
    BY <2>1, <2>2, <2>3, ApartOfNeighbors DEF W, at, l
  <2>5. <<u, v, x>> \in References(W) \X References(W) \X Nat
    BY <1>4, <2>1 DEF W
  <2>6. <<u, v, x>> \in RoadHops(W, at)
    BY <2>2, <2>3, <2>4, <2>5 DEF RoadHops
  <2>. QED
    BY <1>4, <2>1, <2>6 DEF LengthsFrom
<1>7. ASSUME NEW x \in LengthsFrom(RoadHops(W, at), u, v) PROVE x \in RoadHop(u, v)
  <2>1. <<u, v, x>> \in RoadHops(W, at)
    BY DEF LengthsFrom
  <2>2. PICK way \in W : \E i, j \in DOMAIN way.refs :
               /\ Follows(i, j) /\ MayRun(way, i, j)
               /\ <<u, v, x>> = <<way.refs[i], way.refs[j], Apart(at, way, i, j)>>
    BY <2>1 DEF RoadHops
  <2>3. PICK i \in DOMAIN way.refs, j \in DOMAIN way.refs :
               /\ Follows(i, j) /\ MayRun(way, i, j)
               /\ way.refs[i] = u /\ way.refs[j] = v /\ x = Apart(at, way, i, j)
    BY <2>2
  <2>4. x = l
    BY <2>3, ApartOfNeighbors DEF W, at, l
  <2>5. Leads(way)
    BY <1>5, <2>3
  <2>6. PICK w \in DOMAIN eligible : eligible[w] = way
    BY <1>3
  <2>. QED
    BY <1>1, <2>4, <2>5, <2>6
<1>. QED
  BY <1>6, <1>7 DEF W, at

\* The edges of G are the segments of S.
Carries(G, S) ==
    \A e \in 1..Len(S) : /\ G.cost[e] = LengthOf(S[e].points)
                         /\ G.direction[e] = DirectionOf(S[e].direction)

\* A way may be driven in one of the directions at least.
LEMMA SomeDirection == \A way : PolicyOf(way).forward \/ PolicyOf(way).reverse
BY DEF PolicyOf

\* An edge leads from u to v.
EdgeLeads(G, e, u, v) ==
    /\ Neighbor(G, e, u) = v /\ TraversableFrom(G, {}, e, u) /\ v \in Ends(G, e)

\* It does where the way may be driven so between the two places p.
LeadsAlong(W, way, p, u, v) ==
    \/ /\ u = NodeId(W, way.refs[p[1]]) /\ v = NodeId(W, way.refs[p[2]])
       /\ PolicyOf(way).forward
    \/ /\ u = NodeId(W, way.refs[p[2]]) /\ v = NodeId(W, way.refs[p[1]])
       /\ PolicyOf(way).reverse

\* The edge of a piece leads where the way does, as far.
LEMMA EdgeOfAPiece ==
    ASSUME NEW W, NEW at, NEW way, NEW S, NEW G, NEW n, Joins(G, S, Len(S), n),
           Carries(G, S), NEW e \in 1..Len(S), NEW p,
           S[e] = Piece(W, at, way, p), NEW u, NEW v, u # v
    PROVE  /\ G.cost[e] = LengthOf(Points(at, way, p[1], p[2]))
           /\ EdgeLeads(G, e, u, v) <=> LeadsAlong(W, way, p, u, v)
<1> DEFINE from == NodeId(W, way.refs[p[1]])
           to   == NodeId(W, way.refs[p[2]])
           policy == PolicyOf(way)
           d == G.direction[e]
<1>1. /\ S[e].from = from /\ S[e].to = to
      /\ S[e].points = Points(at, way, p[1], p[2]) /\ S[e].direction = policy
  BY DEF Piece
<1>2. G.ends[e][1] = from /\ G.ends[e][2] = to /\ Ends(G, e) = {from, to}
  BY <1>1 DEF Joins, Joined
<1>3. G.cost[e] = LengthOf(Points(at, way, p[1], p[2])) /\ d = DirectionOf(policy)
  BY <1>1 DEF Carries
<1>4. policy.forward \/ policy.reverse
  BY SomeDirection
<1>5. /\ d = "Bidirectional" <=> policy.forward /\ policy.reverse
      /\ d = "Forward" <=> policy.forward /\ ~policy.reverse
      /\ d = "Reverse" <=> ~policy.forward
  <2> HIDE DEF policy, d
  <2>1. CASE policy.forward /\ policy.reverse
    BY <1>3, <2>1 DEF DirectionOf
  <2>2. CASE policy.forward /\ ~policy.reverse
    BY <1>3, <2>2 DEF DirectionOf
  <2>3. CASE ~policy.forward
    BY <1>3, <2>3 DEF DirectionOf
  <2>. QED
    BY <2>1, <2>2, <2>3
<1> HIDE DEF from, to, policy, d
<1>6. TraversableFrom(G, {}, e, u) <=> \/ d = "Bidirectional" /\ u \in {from, to}
                                       \/ d = "Forward" /\ u = from
                                       \/ d = "Reverse" /\ u = to
  BY <1>2 DEF TraversableFrom, d
<1>7. Neighbor(G, e, u) = IF from = u THEN to ELSE from
  BY <1>2 DEF Neighbor
<1>8. (/\ Neighbor(G, e, u) = v /\ TraversableFrom(G, {}, e, u) /\ v \in Ends(G, e))
        <=> \/ u = from /\ v = to /\ policy.forward
            \/ u = to /\ v = from /\ policy.reverse
  <2>1. CASE u = from
    BY <1>2, <1>5, <1>6, <1>7, <2>1
  <2>2. CASE u = to /\ u # from
    BY <1>2, <1>4, <1>5, <1>6, <1>7, <2>2
  <2>3. CASE u # from /\ u # to
    BY <1>6, <2>3
  <2>. QED
    BY <2>1, <2>2, <2>3
<1>. QED
  BY <1>3, <1>8 DEF EdgeLeads, LeadsAlong, from, to, policy

\* EdgeHop leads from cut to cut.
LEMMA EdgeHopsAre ==
    ASSUME NEW W, AreWays(W), NEW at, AreLocations(W, at),
           NEW S, Sorts(S, Pieces(W, at)),
           Joins(outcome.graph, S, Len(S), Cardinality(Retained(W))),
           Carries(outcome.graph, S),
           NEW u \in NodeIdsOn(W), NEW v \in NodeIdsOn(W), u # v
    PROVE  EdgeHop(u, v) = LengthsFrom(SpanHops(W, at), u, v)
<1> DEFINE G == outcome.graph
           Leads(e) == EdgeLeads(G, e, u, v)
<1>1. EdgeHop(u, v) = {G.cost[e] : e \in {e \in EdgeIds(G) : Leads(e)}}
  BY DEF EdgeHop, EdgeLeads
<1>2. EdgeIds(G) = 1..Len(S) /\ DOMAIN S = 1..Len(S)
  BY DEF Joins, Sorts
<1> HIDE DEF G, Leads
<1>3. ASSUME NEW x \in EdgeHop(u, v) PROVE x \in LengthsFrom(SpanHops(W, at), u, v)
  <2>1. PICK e \in 1..Len(S) : Leads(e) /\ x = G.cost[e]
    BY <1>1, <1>2, <1>3
  <2>2. S[e] \in Pieces(W, at)
    BY <1>2 DEF Sorts
  <2>3. PICK way \in W : \E p \in Spans(W, way) : S[e] = Piece(W, at, way, p)
    BY <2>2, PieceOf
  <2>4. PICK p \in Spans(W, way) : S[e] = Piece(W, at, way, p)
    BY <2>3
  <2> DEFINE a == p[1]
             b == p[2]
  <2>5. /\ a < b /\ a \in Cuts(W, way) /\ b \in Cuts(W, way)
        /\ a \in Nat /\ b \in Nat
        /\ \A k \in Cuts(W, way) : k \in Nat /\ (k <= a \/ b <= k)
    BY SpanEnds, WayCuts
  <2>6. Unbroken(W, way, a, b) /\ Unbroken(W, way, b, a)
    BY <2>5 DEF Unbroken
  <2>7. /\ x = LengthOf(Points(at, way, a, b))
        /\ \/ /\ u = NodeId(W, way.refs[a]) /\ v = NodeId(W, way.refs[b])
              /\ PolicyOf(way).forward
           \/ /\ u = NodeId(W, way.refs[b]) /\ v = NodeId(W, way.refs[a])
              /\ PolicyOf(way).reverse
    BY <2>1, <2>4, EdgeOfAPiece DEF G, Leads, LeadsAlong
  <2>8. x = Apart(at, way, a, b) /\ x = Apart(at, way, b, a)
    BY <2>5, <2>7 DEF Apart
  <2>9. x \in Nat
    <3>1. PICK T : Spaced(at, way, T)
      BY PlacesAreSpaced
    <3>2. a \in DOMAIN way.refs /\ b \in DOMAIN way.refs
      BY <2>5, WayCuts
    <3>. QED
      BY <2>8, <3>1, <3>2 DEF Spaced
  <2>10. (PolicyOf(way).forward => MayRun(way, a, b))
         /\ (PolicyOf(way).reverse => MayRun(way, b, a)) /\ a # b
    <3>1. a < b /\ ~(b < a) /\ a # b
      BY <2>5
    <3>. QED
      BY <3>1, Zenon DEF MayRun
  <2> HIDE DEF a, b
  <2>11. <<u, v, x>> \in SpanHops(W, at)
    <3>1. <<u, v, x>> \in NodeIdsOn(W) \X NodeIdsOn(W) \X Nat
      BY <2>9
    <3>2. CASE /\ u = NodeId(W, way.refs[a]) /\ v = NodeId(W, way.refs[b])
               /\ PolicyOf(way).forward
      BY <2>5, <2>6, <2>8, <2>10, <3>1, <3>2 DEF SpanHops
    <3>3. CASE /\ u = NodeId(W, way.refs[b]) /\ v = NodeId(W, way.refs[a])
               /\ PolicyOf(way).reverse
      BY <2>5, <2>6, <2>8, <2>10, <3>1, <3>3 DEF SpanHops
    <3>. QED
      BY <2>7, <3>2, <3>3
  <2>. QED
    BY <2>9, <2>11 DEF LengthsFrom
<1>4. ASSUME NEW x \in LengthsFrom(SpanHops(W, at), u, v) PROVE x \in EdgeHop(u, v)
  <2>1. <<u, v, x>> \in SpanHops(W, at)
    BY DEF LengthsFrom
  <2>2. PICK way \in W : \E i, j \in Cuts(W, way) :
               /\ i # j /\ Unbroken(W, way, i, j) /\ MayRun(way, i, j)
               /\ <<u, v, x>> = <<NodeId(W, way.refs[i]), NodeId(W, way.refs[j]),
                                  Apart(at, way, i, j)>>
    BY <2>1 DEF SpanHops
  <2>3. PICK i \in Cuts(W, way), j \in Cuts(W, way) :
               /\ i # j /\ Unbroken(W, way, i, j) /\ MayRun(way, i, j)
               /\ u = NodeId(W, way.refs[i]) /\ v = NodeId(W, way.refs[j])
               /\ x = Apart(at, way, i, j)
    BY <2>2
  <2> DEFINE a == IF i < j THEN i ELSE j
             b == IF i < j THEN j ELSE i
             p == <<a, b>>
  <2>4. \A k \in Cuts(W, way) : k \in Nat
    BY WayCuts
  <2>5. /\ a \in Cuts(W, way) /\ b \in Cuts(W, way) /\ a < b
        /\ x = LengthOf(Points(at, way, a, b))
        /\ \A k \in Cuts(W, way) : k <= a \/ b <= k
    <3>1. CASE i < j
      BY <2>3, <2>4, <3>1 DEF Apart, Unbroken
    <3>2. CASE j < i
      BY <2>3, <2>4, <3>2 DEF Apart, Unbroken
    <3>. QED
      BY <2>3, <2>4, <3>1, <3>2
  <2>6. \/ /\ u = NodeId(W, way.refs[a]) /\ v = NodeId(W, way.refs[b])
           /\ PolicyOf(way).forward
        \/ /\ u = NodeId(W, way.refs[b]) /\ v = NodeId(W, way.refs[a])
           /\ PolicyOf(way).reverse
    <3>1. CASE i < j
      BY <2>3, <3>1 DEF MayRun
    <3>2. CASE j < i
      <4>1. ~(i < j)
        BY <2>4, <3>2
      <4>. QED
        BY <2>3, <3>2, <4>1 DEF MayRun
    <3>. QED
      BY <2>3, <2>4, <3>1, <3>2
  <2>7. p \in Spans(W, way) /\ p[1] = a /\ p[2] = b
    BY <2>5 DEF Spans
  <2> HIDE DEF p, a, b
  <2>8. Piece(W, at, way, p) \in Pieces(W, at)
    BY <2>7 DEF Pieces
  <2>9. PICK e \in 1..Len(S) : S[e] = Piece(W, at, way, p)
    BY <1>2, <2>8 DEF Sorts
  <2>10. Leads(e) /\ G.cost[e] = x
    <3>1. /\ G.cost[e] = LengthOf(Points(at, way, p[1], p[2]))
          /\ EdgeLeads(G, e, u, v) <=> LeadsAlong(W, way, p, u, v)
      BY <2>9, EdgeOfAPiece DEF G
    <3>2. LeadsAlong(W, way, p, u, v)
      BY <2>6, <2>7 DEF LeadsAlong
    <3>. QED
      BY <2>5, <2>7, <3>1, <3>2 DEF Leads
  <2>. QED
    BY <1>1, <1>2, <2>10
<1>. QED
  BY <1>3, <1>4

\* There are finitely many nodes to measure between.
LEMMA FinitelyManyNodes ==
    ASSUME NEW W, AreWays(W)
    PROVE  IsFiniteSet(References(W)) /\ IsFiniteSet(NodeIdsOn(W))
<1>1. IsFiniteSet(References(W))
  <2> DEFINE refs == [way \in W |-> ToSet(way.refs)]
             parts == {refs[way] : way \in DOMAIN refs}
  <2>1. IsFiniteSet(W) /\ \A way \in W : IsFiniteSet(refs[way])
    BY WayPlaces, ElementsAreFinite DEF AreWays
  <2>2. References(W) = UNION parts /\ DOMAIN refs = W
    BY DEF References
  <2> HIDE DEF refs
  <2>3. IsFiniteSet(parts) /\ \A A \in parts : IsFiniteSet(A)
    BY <2>1, <2>2, ValuesAreFinite
  <2> HIDE DEF parts
  <2>4. IsFiniteSet(UNION parts)
    BY <2>3, FS_UNION
  <2>. QED
    BY <2>2, <2>4
<1>2. IsFiniteSet(NodeIdsOn(W))
  <2>1. 0 \in Int /\ Cardinality(Retained(W)) - 1 \in Int
    BY RetainedNodes
  <2>. QED
    BY <2>1, FS_Interval DEF NodeIdsOn
<1>. QED
  BY <1>1, <1>2

\* Distances of the roads, as RoutesAreRoads measures them.
LEMMA RoadsMeasured ==
    ASSUME AreWays(Ways), AreLocations(Ways, coordinates), eligible \in Seq(Way)
    PROVE  AreShortest(References(Ways), RoadHops(Ways, coordinates),
                       Distances(References(Ways), HopLengths(References(Ways), RoadHop)))
<1> DEFINE R == References(Ways)
           Hops == RoadHops(Ways, coordinates)
           len == HopLengths(R, RoadHop)
<1>1. len = [p \in R \X R |-> IF p[1] = p[2] THEN 0
                              ELSE Nearest(RoadHop(p[1], p[2]))]
  BY DEF HopLengths, Nearest
<1>2. \A u, v \in R : RoadHop(u, v) = LengthsFrom(Hops, u, v)
  BY RoadHopsAre
<1> HIDE DEF len, R
<1>3. len = [p \in R \X R |-> IF p[1] = p[2] THEN 0
                              ELSE Nearest(LengthsFrom(Hops, p[1], p[2]))]
  <2>1. \A p \in R \X R : RoadHop(p[1], p[2]) = LengthsFrom(Hops, p[1], p[2])
    BY <1>2
  <2>. QED
    BY <1>1, <2>1
<1>4. Hops \in SUBSET (R \X R \X Nat)
  BY DEF RoadHops, R
<1>5. \A hop \in Hops : hop[1] \in R /\ hop[2] \in R /\ hop[3] \in Nat
  BY HopsJoinNodes DEF R
<1>6. IsFiniteSet(R)
  BY FinitelyManyNodes DEF R
<1> HIDE DEF Hops
<1>7. ShortestHops(R, Hops, len)
  BY <1>3, <1>4, ShortestOfHops
<1>8. AreShortest(R, Hops, Distances(R, len))
  BY <1>5, <1>6, <1>7, DistancesAreShortest
<1>. QED
  BY <1>8 DEF R, Hops, len

\* And of the edges.
LEMMA EdgesMeasured ==
    ASSUME NEW W, AreWays(W), NEW at, AreLocations(W, at),
           NEW S, Sorts(S, Pieces(W, at)),
           Joins(outcome.graph, S, Len(S), Cardinality(Retained(W))),
           Carries(outcome.graph, S)
    PROVE  AreShortest(NodeIdsOn(W), SpanHops(W, at),
                       Distances(NodeIdsOn(W), HopLengths(NodeIdsOn(W), EdgeHop)))
<1> DEFINE V == NodeIdsOn(W)
           Hops == SpanHops(W, at)
           len == HopLengths(V, EdgeHop)
<1>1. len = [p \in V \X V |-> IF p[1] = p[2] THEN 0
                              ELSE Nearest(EdgeHop(p[1], p[2]))]
  BY DEF HopLengths, Nearest
<1>2. \A u, v \in V : u # v => EdgeHop(u, v) = LengthsFrom(Hops, u, v)
  BY EdgeHopsAre
<1> HIDE DEF len, V
<1>3. len = [p \in V \X V |-> IF p[1] = p[2] THEN 0
                              ELSE Nearest(LengthsFrom(Hops, p[1], p[2]))]
  <2>1. \A p \in V \X V : p[1] # p[2] =>
          EdgeHop(p[1], p[2]) = LengthsFrom(Hops, p[1], p[2])
    BY <1>2
  <2>2. \A p \in V \X V :
          (IF p[1] = p[2] THEN 0 ELSE Nearest(EdgeHop(p[1], p[2])))
            = IF p[1] = p[2] THEN 0 ELSE Nearest(LengthsFrom(Hops, p[1], p[2]))
    BY <2>1
  <2>. QED
    BY <1>1, <2>2
<1>4. Hops \in SUBSET (V \X V \X Nat)
  BY DEF SpanHops, V
<1>5. \A hop \in Hops : hop[1] \in V /\ hop[2] \in V /\ hop[3] \in Nat
  BY HopsJoinNodes DEF V
<1>6. IsFiniteSet(V)
  BY FinitelyManyNodes DEF V
<1> HIDE DEF Hops
<1>7. ShortestHops(V, Hops, len)
  BY <1>3, <1>4, ShortestOfHops
<1>8. AreShortest(V, Hops, Distances(V, len))
  BY <1>5, <1>6, <1>7, DistancesAreShortest
<1>. QED
  BY <1>8 DEF V, Hops, len

(* For every extract that becomes a map: a route over its edges from one   *)
(* kept node to another is a way along the roads of the file, in their     *)
(* directions, and as long, and no such way is lost.  The distances on     *)
(* both sides are those of any length up to Far.                           *)
THEOREM ImportedRoutesAreRoads == Spec => []RoutesAreRoads
<1>1. Importing => RoutesAreRoads
  <2> SUFFICES ASSUME Importing, outcome.kind = "map" PROVE RoutesAreRoads
    BY DEF RoutesAreRoads
  <2> DEFINE W == Ways
             at == coordinates
             S == segments
             G == outcome.graph
  <2>1. IsFile(file) /\ eligible \in Seq(Way) /\ Delivers(outcome)
    BY DEF Importing, Pending
  <2>2. IsCut /\ outcome = MapOf(W, at, S)
    BY <2>1 DEF Delivers
  <2>3. AreWays(W) /\ AreLocations(W, at) /\ AreSegments(W, at, S)
    BY <2>1, <2>2, SegmentsCut
  <2>4. Sorts(S, Pieces(W, at))
    <3>1. S = EdgeOrder(Pieces(W, at))
      BY <2>2 DEF IsCut
    <3>. QED
      BY <2>3, <3>1, EdgeOrderSorts
  <2>5. G = GraphOf(S, Len(S), Cardinality(Retained(W)))
    BY <2>2 DEF MapOf, Built, FullGraph
  <2>6. Joins(G, S, Len(S), Cardinality(Retained(W)))
    BY <2>3, <2>5, GraphParts DEF AreSegments
  <2>7. Carries(G, S)
    BY <2>5 DEF GraphOf, Carries
  <2>8. G.nodes = NodeIdsOn(W)
    BY <2>6 DEF Joins, NodeIdsOn
  <2> DEFINE roads == Distances(References(W), HopLengths(References(W), RoadHop))
             edges == Distances(NodeIdsOn(W), HopLengths(NodeIdsOn(W), EdgeHop))
  <2>9. AreShortest(References(W), RoadHops(W, at), roads)
    BY <2>1, <2>3, RoadsMeasured
  <2>10. AreShortest(NodeIdsOn(W), SpanHops(W, at), edges)
    BY <2>3, <2>4, <2>6, <2>7, EdgesMeasured
  <2> HIDE DEF roads, edges, W, at
  <2>11. ASSUME NEW m \in Retained(W), NEW n \in Retained(W)
         PROVE  edges[<<NodeId(W, m), NodeId(W, n)>>] = roads[<<m, n>>]
    BY <2>3, <2>9, <2>10, CutsKeepDistances
  <2>. QED
    BY <2>8, <2>11 DEF RoutesAreRoads, roads, edges, W
<1>. QED
  BY <1>1, ImportsProceed, PTL
=============================================================================
