---------------------------- MODULE PlannerProofs ---------------------------
(***************************************************************************)
(* The search of Planner, for every graph, view, pair of ends and          *)
(* heuristic that plan() accepts.                                          *)
(*                                                                         *)
(* LInv says what labels mean at every step: an entry of the open list is  *)
(* never below its node's label, a labelled node hangs below its parent by *)
(* a hop that costs no more than the label gained over it, and a node      *)
(* whose label was expanded has told its neighbours (Relaxed).  It gives   *)
(* that no entry is pushed twice, that the parents lead back to the start, *)
(* and optimality, the last by walking a best route up to its first node   *)
(* still open.                                                             *)
(*                                                                         *)
(* LInv does not say that the goal's label is the sum of the edges read    *)
(* back: a node's label may improve after its child was reached over it.   *)
(* For that DInv keeps, per label, the nodes it was derived over: one of   *)
(* them that is open again comes before the label in the open list, so     *)
(* that when the goal is popped none on the way back is open, and none has *)
(* been improved unnoticed.                                                *)
(*                                                                         *)
(* SInv is the order of settlement without a heuristic, and gives the      *)
(* tie-break of ADR-003.                                                   *)
(*                                                                         *)
(* Last, the search runs down: no entry is popped twice, and what can be   *)
(* pushed is finite.                                                       *)
(***************************************************************************)
EXTENDS Planner, OperatorLemmas

Nodes == query.graph.nodes

\* a leads from u to v.
Hop(a, u, v) ==
    /\ a \in EdgeIds(query.graph) /\ Ends(query.graph, a) = {u, v}
    /\ TraversableFrom(query.graph, query.blocked, a, u)

Entries == [f : Nat, g : Nat, node : Nodes]

(* Types.                                                                  *)
TypeInv ==
    /\ query \in Queries
    /\ g \in [Nodes -> Nat]
    /\ parent \in [Nodes -> Int \X Int]
    /\ open \subseteq Entries /\ open \subseteq pushed
    /\ pushed \subseteq Entries
    /\ phase \in {"searching", "reached", "exhausted"}

\* A graph's edges are numbered, and each costs something.
LEMMA CostsOfAGraph ==
    ASSUME NEW G, IsGraph(G)
    PROVE  /\ Len(G.cost) \in Nat /\ EdgeIds(G) = 1..Len(G.cost)
           /\ \A k \in 1..Len(G.cost) : G.cost[k] \in Nat \ {0}
<1>1. G.ends \in Seq(G.nodes \X G.nodes) /\ G.cost \in [DOMAIN G.ends -> Nat \ {0}]
  BY DEF IsGraph, EdgeIds
<1>2. Len(G.ends) \in Nat /\ DOMAIN G.ends = 1..Len(G.ends)
  BY <1>1
<1>3. Len(G.cost) = Len(G.ends)
  <2> DEFINE k == Len(G.ends)
             c == G.cost
  <2>1. k \in Nat /\ c \in [1..k -> Nat \ {0}]
    BY <1>1, <1>2
  <2> HIDE DEF k, c
  <2>2. Len(c) = k
    BY <2>1, FunctionIsSequence
  <2>. QED
    BY <2>2 DEF k, c
<1>. QED
  BY <1>1, <1>2, <1>3 DEF EdgeIds

\* What is more than any route costs, is a number.
LEMMA InfinityIsANumber ==
    ASSUME NEW G, IsGraph(G)
    PROVE  /\ Infinity(G) \in Nat \ {0}
           /\ \E f : /\ f[0] = 1 /\ \A n \in 0..Len(G.cost) : f[n] \in Nat \ {0}
                     /\ \A n \in 1..Len(G.cost) : f[n] = f[n - 1] + G.cost[n]
                     /\ Infinity(G) = f[Len(G.cost)]
<1> DEFINE n == Len(G.cost)
           D == Nat \ {0}
           step == [i \in 1..n |-> [x \in D |-> x + G.cost[i]]]
           Sum(t) == t = [k \in 0..n |-> IF k = 0 THEN 1 ELSE t[k - 1] + G.cost[k]]
           total == CHOOSE t : Sum(t)
<1>1. n \in Nat /\ \A i \in 1..n : G.cost[i] \in D
  BY CostsOfAGraph
<1>2. step \in [1..n -> [D -> D]]
  BY <1>1
<1>3. PICK f : Recurs(f, n, D, 1, step)
  <2>1. 1 \in D
    OBVIOUS
  <2> HIDE DEF n, D, step
  <2>2. \E f : Recurs(f, n, D, 1, step)
    BY <1>1, <1>2, <2>1, Recursion
  <2>. QED
    BY <2>2
<1>4. /\ f \in [0..n -> D] /\ f[0] = 1
      /\ \A k \in 1..n : f[k] = f[k - 1] + G.cost[k]
  <2>1. f \in [0..n -> D] /\ f[0] = 1 /\ \A k \in 1..n : f[k] = step[k][f[k - 1]]
    BY <1>3 DEF Recurs
  <2>2. \A k \in 1..n : k - 1 \in 0..n
    BY <1>1
  <2>. QED
    BY <2>1, <2>2
<1>5. Sum(f)
  <2>1. \A k \in 0..n : k # 0 => k \in 1..n
    BY <1>1
  <2>. QED
    BY <1>4, <2>1
<1>6. Sum(total)
  BY <1>5
<1>7. Infinity(G) = total[n]
  BY DEF Infinity
<1> HIDE DEF total
<1>8. /\ total[0] = 1 /\ \A k \in 1..n : total[k] = total[k - 1] + G.cost[k]
  <2>1. 0 \in 0..n /\ \A k \in 1..n : k \in 0..n /\ k # 0
    BY <1>1
  <2>. QED
    BY <1>6, <2>1
<1> DEFINE T == {k \in Nat : k <= n => total[k] \in D}
<1>9. 0 \in T
  BY <1>8
<1>10. ASSUME NEW k \in Nat, k \in T PROVE k + 1 \in T
  <2>1. SUFFICES ASSUME k + 1 <= n PROVE total[k + 1] \in D
    OBVIOUS
  <2>2. k + 1 \in 1..n /\ (k + 1) - 1 = k /\ total[k] \in D
    BY <1>1, <1>10, <2>1
  <2>3. total[k + 1] = total[k] + G.cost[k + 1] /\ G.cost[k + 1] \in D
    BY <1>1, <1>8, <2>2
  <2>. QED
    BY <2>2, <2>3
<1>11. Nat \subseteq T
  <2> HIDE DEF T
  <2>. QED
    BY <1>9, <1>10, Ind
<1>12. \A k \in 0..n : total[k] \in D
  BY <1>1, <1>11
<1>. QED
  BY <1>1, <1>7, <1>8, <1>12

\* The costs of the edges of S, added up.
PartSum(G, S, w) ==
    /\ w \in [0..Len(G.cost) -> Nat] /\ w[0] = 0
    /\ \A k \in 1..Len(G.cost) : w[k] = w[k - 1] + (IF k \in S THEN G.cost[k] ELSE 0)

\* There is such a sum for every set of edges.
LEMMA PartSumExists ==
    ASSUME NEW G, IsGraph(G), NEW S
    PROVE  \E w : PartSum(G, S, w)
<1> DEFINE n == Len(G.cost)
           D == Nat
           step == [i \in 1..n |-> [x \in D |-> x + (IF i \in S THEN G.cost[i] ELSE 0)]]
<1>1. n \in Nat /\ \A i \in 1..n : G.cost[i] \in Nat \ {0}
  BY CostsOfAGraph
<1>2. step \in [1..n -> [D -> D]] /\ 0 \in D
  BY <1>1
<1>3. PICK w : Recurs(w, n, D, 0, step)
  <2> HIDE DEF n, D, step
  <2>1. \E w : Recurs(w, n, D, 0, step)
    BY <1>1, <1>2, Recursion
  <2>. QED
    BY <2>1
<1>4. w \in [0..n -> Nat] /\ w[0] = 0 /\ \A k \in 1..n : w[k] = step[k][w[k - 1]]
  BY <1>3 DEF Recurs
<1>5. \A k \in 1..n : k - 1 \in 0..n
  BY <1>1
<1>. QED
  BY <1>4, <1>5 DEF PartSum

\* No part of a graph costs as much as Infinity.
LEMMA PartIsLess ==
    ASSUME NEW G, IsGraph(G), NEW S, NEW w, PartSum(G, S, w)
    PROVE  w[Len(G.cost)] \in Nat /\ w[Len(G.cost)] < Infinity(G)
<1> DEFINE n == Len(G.cost)
<1>1. PICK f : /\ f[0] = 1 /\ \A k \in 0..n : f[k] \in Nat \ {0}
               /\ \A k \in 1..n : f[k] = f[k - 1] + G.cost[k]
               /\ Infinity(G) = f[n]
  BY InfinityIsANumber
<1>2. n \in Nat /\ \A i \in 1..n : G.cost[i] \in Nat \ {0}
  BY CostsOfAGraph
<1>3. /\ \A k \in 0..n : w[k] \in Nat
      /\ w[0] = 0
      /\ \A k \in 1..n : w[k] = w[k - 1] + (IF k \in S THEN G.cost[k] ELSE 0)
  BY DEF PartSum
<1> DEFINE T == {k \in Nat : k <= n => w[k] < f[k]}
<1>4. 0 \in T
  BY <1>1, <1>3
<1>5. ASSUME NEW k \in Nat, k \in T PROVE k + 1 \in T
  <2>1. SUFFICES ASSUME k + 1 <= n PROVE w[k + 1] < f[k + 1]
    OBVIOUS
  <2>2. /\ k + 1 \in 1..n /\ (k + 1) - 1 = k /\ k \in 0..n
        /\ w[k] < f[k] /\ w[k] \in Nat /\ f[k] \in Nat
    BY <1>1, <1>2, <1>3, <1>5, <2>1
  <2>3. G.cost[k + 1] \in Nat
    BY <1>2, <2>2
  <2>4. f[k + 1] = f[k] + G.cost[k + 1]
    BY <1>1, <2>2
  <2>5. w[k + 1] = w[k] + (IF k + 1 \in S THEN G.cost[k + 1] ELSE 0)
    BY <1>3, <2>2
  <2>. QED
    BY <2>2, <2>3, <2>4, <2>5
<1>6. Nat \subseteq T
  <2> HIDE DEF T
  <2>. QED
    BY <1>4, <1>5, Ind
<1>7. n \in T /\ n \in 0..n
  BY <1>2, <1>6
<1>. QED
  BY <1>1, <1>3, <1>7

\* One edge more costs as much more.
LEMMA OneEdgeMore ==
    ASSUME NEW G, IsGraph(G), NEW S, NEW e \in EdgeIds(G), e \notin S,
           NEW w, PartSum(G, S, w), NEW more, PartSum(G, S \cup {e}, more)
    PROVE  more[Len(G.cost)] = w[Len(G.cost)] + G.cost[e]
<1> DEFINE n == Len(G.cost)
<1>2. n \in Nat /\ e \in 1..n /\ \A i \in 1..n : G.cost[i] \in Nat \ {0}
  BY CostsOfAGraph
<1>3. /\ \A k \in 0..n : w[k] \in Nat
      /\ w[0] = 0
      /\ \A k \in 1..n : w[k] = w[k - 1] + (IF k \in S THEN G.cost[k] ELSE 0)
  BY DEF PartSum
<1>4. /\ \A k \in 0..n : more[k] \in Nat
      /\ more[0] = 0
      /\ \A k \in 1..n : more[k] = more[k - 1] + (IF k \in S \cup {e} THEN G.cost[k] ELSE 0)
  BY DEF PartSum
<1> DEFINE T == {k \in Nat : k <= n => more[k] = w[k] + (IF e <= k THEN G.cost[e] ELSE 0)}
<1>5. 0 \in T
  <2>1. more[0] = 0 /\ w[0] = 0 /\ ~(e <= 0)
    BY <1>2, <1>3, <1>4
  <2>. QED
    BY <2>1
<1>6. ASSUME NEW k \in Nat, k \in T PROVE k + 1 \in T
  <2>1. SUFFICES ASSUME k + 1 <= n
                 PROVE  more[k + 1] = w[k + 1] + (IF e <= k + 1 THEN G.cost[e] ELSE 0)
    OBVIOUS
  <2>2. /\ k + 1 \in 1..n /\ (k + 1) - 1 = k /\ k \in 0..n
        /\ w[k] \in Nat /\ more[k] \in Nat
        /\ more[k] = w[k] + (IF e <= k THEN G.cost[e] ELSE 0)
    BY <1>2, <1>3, <1>4, <1>6, <2>1
  <2>3. G.cost[k + 1] \in Nat /\ G.cost[e] \in Nat
    BY <1>2, <2>2
  <2>4. more[k + 1] = more[k] + (IF k + 1 \in S \cup {e} THEN G.cost[k + 1] ELSE 0)
    BY <1>4, <2>2
  <2>5. w[k + 1] = w[k] + (IF k + 1 \in S THEN G.cost[k + 1] ELSE 0)
    BY <1>3, <2>2
  <2>6. CASE k + 1 = e
    BY <1>2, <2>2, <2>3, <2>4, <2>5, <2>6
  <2>7. CASE k + 1 # e
    BY <1>2, <2>2, <2>3, <2>4, <2>5, <2>7
  <2>. QED
    BY <2>6, <2>7
<1>7. Nat \subseteq T
  <2> HIDE DEF T
  <2>. QED
    BY <1>5, <1>6, Ind
<1>8. n \in T
  BY <1>2, <1>7
<1>. QED
  BY <1>2, <1>8

\* A walk takes no edge twice, so it costs less than Infinity.
LEMMA WalkIsFinite ==
    ASSUME NEW G, IsGraph(G), NEW blocked, NEW start, NEW goal,
           NEW p, IsWalk(G, blocked, start, goal, p)
    PROVE  Cost(G, p) < Infinity(G)
<1> DEFINE n == Len(G.cost)
           edge(j) == EdgeBetween(G, p[j], p[j + 1])
           used(i) == {edge(j) : j \in 1..(i - 1)}
<1>1. /\ Len(p) \in Nat \ {0} /\ CostTo(G, p, 1) = 0
      /\ \A k \in 1..Len(p) : CostTo(G, p, k) \in Nat
      /\ \A k \in 1..(Len(p) - 1) : CostTo(G, p, k + 1) = CostTo(G, p, k) + G.cost[edge(k)]
  <2>1. \A k \in 1..(Len(p) - 1) : Leg(G, p, k) = G.cost[edge(k)]
    BY DEF Leg
  <2>2. /\ Len(p) \in Nat \ {0} /\ CostTo(G, p, 1) = 0
        /\ \A k \in 1..Len(p) : CostTo(G, p, k) \in Nat
        /\ \A k \in 1..(Len(p) - 1) : CostTo(G, p, k + 1) = CostTo(G, p, k) + Leg(G, p, k)
    BY WalkCosts
  <2> HIDE DEF edge
  <2>. QED
    BY <2>1, <2>2
<1>2. \A i, j \in 1..Len(p) : p[i] = p[j] => i = j
  BY DEF IsWalk, IsPath
<1>3. \A k \in 1..(Len(p) - 1) : edge(k) \in EdgeIds(G) /\ Ends(G, edge(k)) = {p[k], p[k + 1]}
  <2> SUFFICES ASSUME NEW k \in 1..(Len(p) - 1)
               PROVE  edge(k) \in EdgeIds(G) /\ Ends(G, edge(k)) = {p[k], p[k + 1]}
    OBVIOUS
  <2>1. IsHop(G, blocked, p[k], p[k + 1])
    BY DEF IsWalk
  <2>. QED
    BY <2>1, HopHasItsEdge
<1>4. \A k \in 1..(Len(p) - 1) : edge(k) \notin used(k)
  <2> SUFFICES ASSUME NEW k \in 1..(Len(p) - 1), NEW j \in 1..(k - 1), edge(j) = edge(k)
               PROVE  FALSE
    OBVIOUS
  <2>1. /\ j \in 1..(Len(p) - 1) /\ j \in 1..Len(p) /\ j + 1 \in 1..Len(p)
        /\ k \in 1..Len(p) /\ k + 1 \in 1..Len(p) /\ j # k /\ j # k + 1
    BY <1>1
  <2>2. p[j] # p[k] /\ p[j] # p[k + 1]
    BY <1>2, <2>1
  <2>3. Ends(G, edge(j)) = {p[j], p[j + 1]} /\ Ends(G, edge(k)) = {p[k], p[k + 1]}
    BY <1>3, <2>1
  <2> HIDE DEF edge
  <2>. QED
    BY <2>2, <2>3
<1>5. \A k \in 1..(Len(p) - 1) : used(k + 1) = used(k) \cup {edge(k)}
  <2> SUFFICES ASSUME NEW k \in 1..(Len(p) - 1)
               PROVE  used(k + 1) = used(k) \cup {edge(k)}
    OBVIOUS
  <2>1. 1..((k + 1) - 1) = (1..(k - 1)) \cup {k}
    BY <1>1
  <2> HIDE DEF edge
  <2>. QED
    BY <2>1
<1> DEFINE T == {i \in Nat : i + 1 <= Len(p) =>
                   \A w : PartSum(G, used(i + 1), w) => CostTo(G, p, i + 1) <= w[n]}
<1>6. 0 \in T
  <2> SUFFICES ASSUME NEW w, PartSum(G, used(0 + 1), w) PROVE CostTo(G, p, 0 + 1) <= w[n]
    OBVIOUS
  <2>1. w[n] \in Nat
    <3> HIDE DEF used
    <3>. QED
      BY PartIsLess
  <2>. QED
    BY <1>1, <2>1
<1>7. ASSUME NEW i \in Nat, i \in T PROVE i + 1 \in T
  <2> SUFFICES ASSUME (i + 1) + 1 <= Len(p),
                      NEW more, PartSum(G, used((i + 1) + 1), more)
               PROVE  CostTo(G, p, (i + 1) + 1) <= more[n]
    OBVIOUS
  <2> DEFINE k == i + 1
  <2>1. k \in 1..(Len(p) - 1) /\ k \in 1..Len(p) /\ k <= Len(p)
    BY <1>1
  <2>2. PICK w : PartSum(G, used(k), w)
    <3> HIDE DEF used
    <3>. QED
      BY PartSumExists
  <2>3. CostTo(G, p, k) <= w[n]
    BY <1>7, <2>1, <2>2
  <2>4. PartSum(G, used(k) \cup {edge(k)}, more)
    <3>1. used(k + 1) = used(k) \cup {edge(k)} /\ PartSum(G, used(k + 1), more)
      BY <1>5, <2>1
    <3> HIDE DEF used, edge, k
    <3>. QED
      BY <3>1
  <2>5. edge(k) \in EdgeIds(G) /\ edge(k) \notin used(k)
    BY <1>3, <1>4, <2>1
  <2>6. CostTo(G, p, k + 1) = CostTo(G, p, k) + G.cost[edge(k)] /\ CostTo(G, p, k) \in Nat
    BY <1>1, <2>1
  <2> DEFINE S == used(k)
             a == edge(k)
  <2>7. PartSum(G, S, w) /\ PartSum(G, S \cup {a}, more) /\ a \in EdgeIds(G) /\ a \notin S
    BY <2>2, <2>4, <2>5
  <2>8. CostTo(G, p, k + 1) = CostTo(G, p, k) + G.cost[a] /\ CostTo(G, p, k) <= w[n]
    BY <2>3, <2>6
  <2>9. G.cost[a] \in Nat /\ n \in Nat
    BY <2>5, CostsOfAGraph
  <2> HIDE DEF S, a
  <2>10. more[Len(G.cost)] = w[Len(G.cost)] + G.cost[a]
    BY <2>7, OneEdgeMore
  <2>11. w[Len(G.cost)] \in Nat
    BY <2>7, PartIsLess
  <2>. QED
    BY <2>6, <2>8, <2>9, <2>10, <2>11
<1>8. Nat \subseteq T
  <2> HIDE DEF T
  <2>. QED
    BY <1>6, <1>7, Ind
<1>9. Len(p) - 1 \in T /\ (Len(p) - 1) + 1 = Len(p)
  <2>1. Len(p) - 1 \in Nat /\ (Len(p) - 1) + 1 = Len(p)
    BY <1>1
  <2> HIDE DEF T
  <2>. QED
    BY <1>8, <2>1
<1>10. PICK w : PartSum(G, used(Len(p)), w)
  <2> HIDE DEF used
  <2>. QED
    BY PartSumExists
<1>11. CostTo(G, p, Len(p)) <= w[n]
  BY <1>1, <1>9, <1>10
<1>12. w[n] \in Nat /\ w[n] < Infinity(G)
  <2> HIDE DEF used
  <2>. QED
    BY <1>10, PartIsLess
<1>13. Infinity(G) \in Nat
  BY InfinityIsANumber
<1>. QED
  BY <1>1, <1>11, <1>12, <1>13 DEF Cost

Labelled(v) == g[v] < Infinity(query.graph)

\* Everything over the edges of v is known to be no better.
Relaxed(v) ==
    \A a, w : Hop(a, v, w) => g[w] <= g[v] + query.graph.cost[a]

(* Labels.                                                                 *)
LInv ==
    /\ g[query.start] = 0
    /\ \A v \in Nodes : g[v] <= Infinity(query.graph)
    /\ \A e \in pushed :
         /\ e.f = e.g + query.h[e.node]
         /\ g[e.node] <= e.g /\ e.g < Infinity(query.graph)
    /\ \A v \in Nodes : v # query.start /\ Labelled(v) =>
         /\ Hop(parent[v][2], parent[v][1], v)
         /\ g[v] >= g[parent[v][1]] + query.graph.cost[parent[v][2]]
    /\ \A v \in Nodes : Labelled(v) /\ Entry(v, g[v]) \notin open =>
         IF v = query.goal THEN phase = "reached" ELSE Relaxed(v)
    /\ phase = "searching" => query.start # query.goal
    /\ phase = "reached" => Labelled(query.goal) /\ \A o \in open : o.f >= g[query.goal]
    /\ phase = "exhausted" => open = {}

\* The graph asked about, and its nodes.
LEMMA Asked ==
    ASSUME TypeInv
    PROVE  /\ IsGraph(query.graph)
           /\ query.start \in Nodes /\ query.goal \in Nodes
           /\ query.h \in [Nodes -> Nat]
           /\ Nodes \subseteq Nat
           /\ Infinity(query.graph) \in Nat \ {0}
           /\ \A v \in Nodes : g[v] \in Nat
           /\ \A e \in pushed : e.f \in Nat /\ e.g \in Nat /\ e.node \in Nodes
           /\ \A e \in open : e \in pushed
<1>1. IsQuery(query)
  BY QueriesAssumption DEF TypeInv
<1>2. IsGraph(query.graph) /\ query.start \in Nodes /\ query.goal \in Nodes
  BY <1>1 DEF IsQuery, Nodes
<1>3. query.h \in [Nodes -> Nat] /\ Nodes \subseteq Nat
  BY <1>1 DEF IsQuery, IsGraph, Nodes
<1>4. Infinity(query.graph) \in Nat \ {0}
  BY <1>2, InfinityIsANumber
<1>5. \A v \in Nodes : g[v] \in Nat
  BY DEF TypeInv
<1>6. /\ \A e \in pushed : e.f \in Nat /\ e.g \in Nat /\ e.node \in Nodes
      /\ \A e \in open : e \in pushed
  BY DEF TypeInv, Entries
<1>. QED
  BY <1>2, <1>3, <1>4, <1>5, <1>6

\* A hop leads from a node to another, costs something, and has the only
\* edge there is between them.
LEMMA HopIs ==
    ASSUME TypeInv, NEW a, NEW u, NEW v, Hop(a, u, v)
    PROVE  /\ u \in Nodes /\ v \in Nodes /\ u # v
           /\ a \in EdgeIds(query.graph) /\ a \in Nat
           /\ query.graph.cost[a] \in Nat \ {0}
           /\ a = EdgeBetween(query.graph, u, v)
           /\ IsHop(query.graph, query.blocked, u, v)
<1>1. IsGraph(query.graph)
  BY Asked
<1> DEFINE G == query.graph
<1>2. a \in EdgeIds(G) /\ Ends(G, a) = {u, v} /\ TraversableFrom(G, query.blocked, a, u)
  BY DEF Hop
<1>3. IsHop(G, query.blocked, u, v)
  BY <1>2 DEF IsHop
<1>4. /\ EdgeBetween(G, u, v) \in EdgeIds(G) /\ Ends(G, EdgeBetween(G, u, v)) = {u, v}
  BY <1>2 DEF EdgeBetween
<1>5. a = EdgeBetween(G, u, v)
  BY <1>1, <1>2, <1>4 DEF IsGraph
<1>6. a \in Nat /\ query.graph.cost[a] \in Nat \ {0}
  <2>1. Len(G.cost) \in Nat /\ a \in 1..Len(G.cost) /\ G.cost[a] \in Nat \ {0}
    BY <1>1, <1>2, CostsOfAGraph
  <2>. QED
    BY <2>1
<1>7. u \in Nodes /\ v \in Nodes /\ u # v
  <2>1. G.ends \in Seq(G.nodes \X G.nodes) /\ a \in DOMAIN G.ends /\ G.ends[a][1] # G.ends[a][2]
    BY <1>1, <1>2 DEF IsGraph, EdgeIds
  <2>2. G.ends[a] \in G.nodes \X G.nodes
    BY <2>1
  <2>3. {u, v} = {G.ends[a][1], G.ends[a][2]}
    BY <1>2 DEF Ends
  <2>. QED
    BY <2>1, <2>2, <2>3 DEF Nodes
<1>. QED
  BY <1>2, <1>3, <1>5, <1>6, <1>7

\* The expansion of e leaves v as it is: it knew as good a way.
Kept(e, v) ==
    /\ g'[v] = g[v] /\ parent'[v] = parent[v]
    /\ \A a : Hop(a, e.node, v) => g[v] <= e.g + query.graph.cost[a]

\* The expansion of e finds a better way to v, over a.
Gained(e, v, a) ==
    /\ Hop(a, e.node, v)
    /\ g'[v] = e.g + query.graph.cost[a] /\ g'[v] < g[v]
    /\ parent'[v] = <<e.node, a>>
    /\ Entry(v, g'[v]) \in open'

\* What an expansion does.
Expanded(e) ==
    /\ e \in open /\ IsTop(e) /\ e.g = g[e.node] /\ e.node # query.goal
    /\ phase = "searching" /\ phase' = phase /\ query' = query
    /\ g' \in [Nodes -> Nat] /\ parent' \in [Nodes -> Int \X Int]
    /\ \A v \in Nodes : Kept(e, v) \/ \E a : Gained(e, v, a)
    /\ open \ {e} \subseteq open' /\ pushed \subseteq pushed' /\ open' \subseteq pushed'
    /\ e \notin open'
    /\ \A o \in open' : o \in open
                        \/ \E v, a : v \in Nodes /\ Gained(e, v, a) /\ o = Entry(v, g'[v])
    /\ \A o \in pushed' : o \in pushed
                        \/ \E v, a : v \in Nodes /\ Gained(e, v, a) /\ o = Entry(v, g'[v])

\* An Expand keeps a node's label or gains it a better one over one hop, and
\* only what is gained is pushed.
LEMMA Expansion ==
    ASSUME TypeInv, LInv, NEW e \in open, Expand(e)
    PROVE  Expanded(e)
<1> DEFINE G == query.graph
           Reached(a) == e.g + G.cost[a]
           Via(v) == {a \in Improving(e) : Neighbor(G, a, e.node) = v}
           new == {Entry(Neighbor(G, a, e.node), Reached(a)) : a \in Improving(e)}
<1>1. /\ phase = "searching" /\ IsTop(e) /\ ~IsOutdated(e) /\ e.node # query.goal
      /\ g' = [v \in DOMAIN g |-> IF Via(v) = {} THEN g[v]
                                  ELSE Reached(CHOOSE a \in Via(v) : TRUE)]
      /\ parent' = [v \in DOMAIN parent |-> IF Via(v) = {} THEN parent[v]
                                            ELSE <<e.node, CHOOSE a \in Via(v) : TRUE>>]
      /\ open' = (open \ {e}) \cup new
      /\ pushed' = pushed \cup new
      /\ query' = query /\ phase' = phase
  BY DEF Expand
<1>2. e \in pushed /\ e.g \in Nat /\ e.node \in Nodes /\ g[e.node] \in Nat /\ e.g = g[e.node]
  <2>1. e \in pushed /\ e.g \in Nat /\ e.node \in Nodes /\ g[e.node] \in Nat
    BY Asked
  <2>2. g[e.node] <= e.g
    BY <2>1 DEF LInv
  <2>3. ~(e.g > g[e.node])
    BY <1>1 DEF IsOutdated
  <2>. QED
    BY <2>1, <2>2, <2>3
<1>3. ASSUME NEW v, NEW a
      PROVE  a \in Via(v) <=> Hop(a, e.node, v) /\ Reached(a) < g[v]
  <2>1. ASSUME a \in EdgeIds(G), e.node \in Ends(G, a)
        PROVE  Neighbor(G, a, e.node) = v <=> Ends(G, a) = {e.node, v}
    <3>1. G.ends[a][1] # G.ends[a][2]
      BY <2>1, Asked DEF IsGraph
    <3>. QED
      BY <2>1, <3>1 DEF Ends, Neighbor
  <2>2. a \in Via(v) <=> /\ a \in EdgeIds(G) /\ e.node \in Ends(G, a)
                         /\ TraversableFrom(G, query.blocked, a, e.node)
                         /\ Reached(a) < g[Neighbor(G, a, e.node)]
                         /\ Neighbor(G, a, e.node) = v
    BY DEF Improving, Adjacency
  <2>3. Hop(a, e.node, v) <=> /\ a \in EdgeIds(G) /\ e.node \in Ends(G, a)
                              /\ TraversableFrom(G, query.blocked, a, e.node)
                              /\ Ends(G, a) = {e.node, v}
    BY DEF Hop
  <2> HIDE DEF Via
  <2>. QED
    BY <2>1, <2>2, <2>3
<1>4. \A v, a : a \in Via(v) => v \in Nodes /\ a \in Nat /\ Reached(a) \in Nat
  <2> SUFFICES ASSUME NEW v, NEW a, Hop(a, e.node, v)
               PROVE  v \in Nodes /\ a \in Nat /\ Reached(a) \in Nat
    BY <1>3
  <2>1. v \in Nodes /\ a \in Nat /\ G.cost[a] \in Nat
    BY HopIs
  <2>. QED
    BY <1>2, <2>1
<1>5. \A v, a, b : a \in Via(v) /\ b \in Via(v) => a = b
  <2> SUFFICES ASSUME NEW v, NEW a, NEW b, Hop(a, e.node, v), Hop(b, e.node, v) PROVE a = b
    BY <1>3
  <2>1. a = EdgeBetween(G, e.node, v) /\ b = EdgeBetween(G, e.node, v)
    BY HopIs
  <2>. QED
    BY <2>1
<1>6. \A v, a : a \in Via(v) => (CHOOSE b \in Via(v) : TRUE) = a
  <2> SUFFICES ASSUME NEW v, NEW a \in Via(v) PROVE (CHOOSE b \in Via(v) : TRUE) = a
    OBVIOUS
  <2>1. (CHOOSE b \in Via(v) : TRUE) \in Via(v)
    <3> HIDE DEF Via
    <3>. QED
      OBVIOUS
  <2>. QED
    BY <1>5, <2>1
<1>7. \A a \in Improving(e) : a \in Via(Neighbor(G, a, e.node))
  OBVIOUS
<1>8. \A v, a : a \in Via(v) => a \in Improving(e) /\ Neighbor(G, a, e.node) = v
  OBVIOUS
<1> HIDE DEF Via
<1>15. \A o \in new : o \in open'
  BY <1>1
<1>9. DOMAIN g = Nodes /\ DOMAIN parent = Nodes
  BY DEF TypeInv
<1>10. ASSUME NEW v \in Nodes PROVE Kept(e, v) \/ \E a : Gained(e, v, a)
  <2>1. CASE Via(v) = {}
    <3>1. g'[v] = g[v] /\ parent'[v] = parent[v]
      BY <1>1, <1>9, <2>1
    <3>2. ASSUME NEW a, Hop(a, e.node, v) PROVE g[v] <= e.g + G.cost[a]
      <4>1. ~(Reached(a) < g[v])
        BY <1>3, <2>1, <3>2
      <4>2. G.cost[a] \in Nat /\ g[v] \in Nat
        BY <3>2, HopIs, Asked
      <4>. QED
        BY <1>2, <4>1, <4>2
    <3>. QED
      BY <3>1, <3>2 DEF Kept
  <2>2. ASSUME NEW a \in Via(v) PROVE Gained(e, v, a)
    <3>1. g'[v] = Reached(a) /\ parent'[v] = <<e.node, a>>
      BY <1>1, <1>6, <1>9
    <3>2. Hop(a, e.node, v) /\ Reached(a) < g[v]
      BY <1>3
    <3>3. Entry(v, g'[v]) \in new
      BY <1>8, <3>1
    <3>4. Entry(v, g'[v]) \in open'
      BY <1>15, <3>3
    <3> HIDE DEF new
    <3>. QED
      BY <3>1, <3>2, <3>4 DEF Gained
  <2>. QED
    BY <2>1, <2>2
<1>11. ASSUME NEW o \in new
       PROVE  \E v, a : v \in Nodes /\ Gained(e, v, a) /\ o = Entry(v, g'[v])
  <2>1. PICK a \in Improving(e) : o = Entry(Neighbor(G, a, e.node), Reached(a))
    OBVIOUS
  <2> DEFINE v == Neighbor(G, a, e.node)
  <2>2. a \in Via(v) /\ v \in Nodes
    BY <1>4, <1>7
  <2>3. g'[v] = Reached(a) /\ parent'[v] = <<e.node, a>>
    BY <1>1, <1>6, <1>9, <2>2
  <2>4. Hop(a, e.node, v) /\ Reached(a) < g[v]
    BY <1>3, <2>2
  <2>5. o = Entry(v, g'[v])
    BY <2>1, <2>3
  <2>6. Entry(v, g'[v]) \in open'
    BY <1>15, <2>5
  <2> HIDE DEF new, v
  <2>7. Gained(e, v, a)
    BY <2>3, <2>4, <2>6 DEF Gained
  <2>. QED
    BY <2>2, <2>5, <2>7
<1>12. \A v \in Nodes : Via(v) # {} => Reached(CHOOSE a \in Via(v) : TRUE) \in Nat
                                      /\ (CHOOSE a \in Via(v) : TRUE) \in Nat
  BY <1>4, <1>6
<1>13. g' \in [Nodes -> Nat] /\ parent' \in [Nodes -> Int \X Int]
  <2>1. g \in [Nodes -> Nat] /\ parent \in [Nodes -> Int \X Int]
    BY DEF TypeInv
  <2>2. e.node \in Int
    BY <1>2, Asked
  <2>. QED
    BY <1>1, <1>9, <1>12, <2>1, <2>2
<1>14. e \notin new
  <2> SUFFICES ASSUME e \in new PROVE FALSE
    OBVIOUS
  <2>1. PICK v, a : v \in Nodes /\ Gained(e, v, a) /\ e = Entry(v, g'[v])
    BY <1>11
  <2>2. e.node # v
    BY <2>1, HopIs DEF Gained
  <2>. QED
    BY <2>1, <2>2 DEF Entry
<1>. QED
  <2>1. open \subseteq pushed
    BY DEF TypeInv
  <2> HIDE DEF new
  <2>. QED
    BY <1>1, <1>2, <1>10, <1>11, <1>13, <1>14, <2>1 DEF Expanded

\* What Entry makes of a node and a cost.
LEMMA EntryIs ==
    ASSUME TypeInv, NEW v \in Nodes, NEW c \in Nat
    PROVE  /\ Entry(v, c) \in Entries
           /\ Entry(v, c).f = c + query.h[v] /\ Entry(v, c).g = c /\ Entry(v, c).node = v
<1>1. query.h[v] \in Nat
  BY Asked
<1>. QED
  BY <1>1 DEF Entry, Entries

\* A call that has just begun.
LEMMA InitIsSound ==
    ASSUME Init
    PROVE  TypeInv /\ LInv
<1> DEFINE Inf == Infinity(query.graph)
<1>1. IsQuery(query)
  BY QueriesAssumption DEF Init
<1>2. /\ query.start \in Nodes /\ query.goal \in Nodes /\ Nodes \subseteq Nat
      /\ query.h \in [Nodes -> Nat]
  BY <1>1 DEF IsQuery, IsGraph, Nodes
<1>3. Inf \in Nat \ {0}
  BY <1>1, InfinityIsANumber DEF IsQuery
<1>4. /\ g = [v \in Nodes |-> IF v = query.start THEN 0 ELSE Inf]
      /\ parent = [v \in Nodes |-> NoHop]
      /\ open = IF query.start = query.goal THEN {} ELSE {Entry(query.start, 0)}
      /\ phase = IF query.start = query.goal THEN "reached" ELSE "searching"
      /\ pushed = open /\ query \in Queries
  BY DEF Init, Nodes
<1> HIDE DEF Inf
<1>5. /\ Entry(query.start, 0) \in Entries
      /\ Entry(query.start, 0).f = 0 + query.h[query.start]
      /\ Entry(query.start, 0).g = 0 /\ Entry(query.start, 0).node = query.start
  <2>1. query.h[query.start] \in Nat
    BY <1>2
  <2>. QED
    BY <1>2, <2>1 DEF Entry, Entries
<1>6. NoHop \in Int \X Int
  BY DEF NoHop
<1>7. TypeInv
  BY <1>3, <1>4, <1>5, <1>6 DEF TypeInv
<1>8. /\ g[query.start] = 0
      /\ \A v \in Nodes : g[v] <= Inf /\ (g[v] < Inf <=> v = query.start)
  BY <1>2, <1>3, <1>4
<1>9. \A e \in pushed : /\ e.f = e.g + query.h[e.node]
                        /\ g[e.node] <= e.g /\ e.g < Inf
  BY <1>3, <1>4, <1>5, <1>8
<1>10. \A v \in Nodes : g[v] < Inf /\ Entry(v, g[v]) \notin open =>
         IF v = query.goal THEN phase = "reached" ELSE Relaxed(v)
  BY <1>2, <1>4, <1>8
<1>11. phase = "reached" => g[query.goal] < Inf /\ \A o \in open : o.f >= g[query.goal]
  BY <1>2, <1>4, <1>8
<1>. QED
  BY <1>4, <1>7, <1>8, <1>9, <1>10, <1>11 DEF LInv, Labelled, Inf

\* An entry that is dropped, or leads to the goal, or is missing.
LEMMA QuietSteps ==
    ASSUME TypeInv, LInv,
           \/ \E e \in open : Discard(e) \/ Reach(e)
           \/ Exhaust
           \/ UNCHANGED vars
    PROVE  /\ TypeInv' /\ LInv'
           /\ query' = query /\ g' = g /\ parent' = parent /\ pushed' = pushed
           /\ open' \subseteq open
           /\ \A v \in Nodes : v # query.goal /\ Entry(v, g[v]) \in open =>
                                Entry(v, g[v]) \in open'
<1>1. ASSUME NEW e \in open, Discard(e) \/ Reach(e)
      PROVE  /\ query' = query /\ g' = g /\ parent' = parent /\ pushed' = pushed
             /\ open' = open \ {e} /\ phase = "searching"
             /\ \A v \in Nodes : v # query.goal => e # Entry(v, g[v])
             /\ \/ phase' = phase /\ \A v \in Nodes : e # Entry(v, g[v])
                \/ /\ phase' = "reached" /\ e.node = query.goal /\ e.g = g[query.goal]
                   /\ \A o \in open' : o.f >= g[query.goal]
  <2>1. /\ query' = query /\ g' = g /\ parent' = parent /\ pushed' = pushed
        /\ open' = open \ {e} /\ phase = "searching" /\ IsTop(e)
    BY <1>1 DEF Discard, Reach
  <2>2. e \in pushed /\ e.g \in Nat /\ e.f \in Nat /\ e.node \in Nodes /\ g[e.node] \in Nat
    BY Asked
  <2>3. e.f = e.g + query.h[e.node] /\ g[e.node] <= e.g /\ query.h[e.node] \in Nat
    BY <2>2, Asked DEF LInv
  <2>4. CASE Discard(e)
    <3>1. phase' = phase /\ e.g > g[e.node]
      BY <2>4 DEF Discard, IsOutdated
    <3>2. \A v \in Nodes : e # Entry(v, g[v])
      <4> SUFFICES ASSUME NEW v \in Nodes, e = Entry(v, g[v]) PROVE FALSE
        OBVIOUS
      <4>1. g[v] \in Nat /\ e.g = g[v] /\ e.node = v
        BY EntryIs, Asked
      <4>. QED
        BY <3>1, <4>1
    <3>. QED
      BY <2>1, <3>1, <3>2
  <2>5. CASE Reach(e)
    <3>1. phase' = "reached" /\ e.node = query.goal /\ ~(e.g > g[e.node])
      BY <2>5 DEF Reach, IsOutdated
    <3>2. e.g = g[query.goal]
      BY <2>2, <2>3, <3>1
    <3>3. \A o \in open' : o.f >= g[query.goal]
      <4> SUFFICES ASSUME NEW o \in open, o # e PROVE o.f >= g[query.goal]
        BY <2>1
      <4>1. o.f >= e.f
        <5>1. LessPromising(o, e) /\ o.f \in Nat
          BY <2>1, Asked DEF IsTop
        <5>. QED
          BY <2>2, <5>1 DEF LessPromising
      <4>2. o.f \in Nat
        BY Asked
      <4>. QED
        BY <2>2, <2>3, <3>2, <4>1, <4>2
    <3>4. ASSUME NEW v \in Nodes, v # query.goal PROVE e # Entry(v, g[v])
      <4>1. g[v] \in Nat /\ Entry(v, g[v]).node = v
        BY EntryIs, Asked
      <4>. QED
        BY <3>1, <3>4, <4>1
    <3>. QED
      BY <2>1, <3>1, <3>2, <3>3, <3>4
  <2>. QED
    BY <1>1, <2>4, <2>5
<1>2. CASE \E e \in open : Discard(e) \/ Reach(e)
  <2>1. PICK e \in open : Discard(e) \/ Reach(e)
    BY <1>2
  <2>2. /\ query' = query /\ g' = g /\ parent' = parent /\ pushed' = pushed
        /\ open' = open \ {e} /\ phase = "searching"
        /\ \A v \in Nodes : v # query.goal => e # Entry(v, g[v])
    BY <1>1, <2>1
  <2>3. \/ phase' = phase /\ \A v \in Nodes : e # Entry(v, g[v])
        \/ /\ phase' = "reached" /\ e.node = query.goal /\ e.g = g[query.goal]
           /\ \A o \in open' : o.f >= g[query.goal]
    BY <1>1, <2>1
  <2>4. /\ Nodes' = Nodes /\ Entries' = Entries
        /\ \A v : Labelled(v)' <=> Labelled(v)
        /\ \A v : Relaxed(v)' <=> Relaxed(v)
        /\ \A a, u, v : Hop(a, u, v)' <=> Hop(a, u, v)
        /\ \A v : Entry(v, g[v])' = Entry(v, g[v])
    BY <2>2 DEF Nodes, Entries, Labelled, Relaxed, Hop, Entry
  <2>5. TypeInv'
    BY <2>2, <2>3, <2>4 DEF TypeInv
  <2>6. e.node = query.goal /\ e.g = g[query.goal] => Labelled(query.goal)
    BY Asked DEF LInv, Labelled
  <2>7. \A v \in Nodes : v # query.goal /\ Entry(v, g[v]) \in open => Entry(v, g[v]) \in open'
    BY <2>2
  <2>8. LInv'
    <3>1. \A v \in Nodes : Labelled(v) /\ Entry(v, g[v]) \notin open' =>
            IF v = query.goal THEN phase' = "reached" ELSE Relaxed(v)
      BY <2>2, <2>3, <2>7 DEF LInv
    <3>2. (phase' = "reached" => Labelled(query.goal) /\ \A o \in open' : o.f >= g[query.goal])
          /\ (phase' = "exhausted" => open' = {})
          /\ (phase' = "searching" => query.start # query.goal)
      BY <2>2, <2>3, <2>6 DEF LInv
    <3>3. /\ g[query.start] = 0
          /\ \A v \in Nodes : g[v] <= Infinity(query.graph)
          /\ \A o \in pushed : /\ o.f = o.g + query.h[o.node]
                               /\ g[o.node] <= o.g /\ o.g < Infinity(query.graph)
          /\ \A v \in Nodes : v # query.start /\ Labelled(v) =>
               /\ Hop(parent[v][2], parent[v][1], v)
               /\ g[v] >= g[parent[v][1]] + query.graph.cost[parent[v][2]]
      BY DEF LInv
    <3>. QED
      BY <2>2, <2>4, <3>1, <3>2, <3>3 DEF LInv
  <2>. QED
    BY <2>2, <2>5, <2>7, <2>8
<1>3. CASE Exhaust \/ UNCHANGED vars
  <2>1. /\ query' = query /\ g' = g /\ parent' = parent /\ pushed' = pushed /\ open' = open
        /\ \/ phase' = phase
           \/ phase = "searching" /\ phase' = "exhausted" /\ open = {}
    BY <1>3 DEF Exhaust, vars
  <2>2. /\ Nodes' = Nodes /\ Entries' = Entries
        /\ \A v : Labelled(v)' <=> Labelled(v)
        /\ \A v : Relaxed(v)' <=> Relaxed(v)
        /\ \A a, u, v : Hop(a, u, v)' <=> Hop(a, u, v)
        /\ \A v : Entry(v, g[v])' = Entry(v, g[v])
    BY <2>1 DEF Nodes, Entries, Labelled, Relaxed, Hop, Entry
  <2>3. TypeInv'
    BY <2>1, <2>2 DEF TypeInv
  <2>4. LInv'
    BY <2>1, <2>2 DEF LInv
  <2>. QED
    BY <2>1, <2>3, <2>4
<1>. QED
  BY <1>2, <1>3

\* What an expansion leaves and what it finds.
LEMMA ExpandedLabels ==
    ASSUME TypeInv, LInv, NEW e, Expanded(e)
    PROVE  /\ e \in pushed /\ e.g \in Nat /\ e.node \in Nodes /\ e.g < Infinity(query.graph)
           /\ e = Entry(e.node, g[e.node])
           /\ Kept(e, e.node)
           /\ \A v \in Nodes : g'[v] <= g[v] /\ g'[v] \in Nat
           /\ \A v, a : Gained(e, v, a) =>
                /\ v \in Nodes /\ v # query.start
                /\ query.graph.cost[a] \in Nat \ {0} /\ g'[v] > e.g
                /\ Labelled(v)'
           /\ Nodes' = Nodes /\ Entries' = Entries
           /\ \A a, u, v : Hop(a, u, v)' <=> Hop(a, u, v)
<1>1. /\ e \in open /\ e.g = g[e.node] /\ query' = query /\ g' \in [Nodes -> Nat]
      /\ \A v \in Nodes : Kept(e, v) \/ \E a : Gained(e, v, a)
  BY DEF Expanded
<1>2. e \in pushed /\ e.g \in Nat /\ e.node \in Nodes
  BY <1>1, Asked
<1>3. e.g < Infinity(query.graph) /\ e.f = e.g + query.h[e.node]
  BY <1>2 DEF LInv
<1>4. e = Entry(e.node, g[e.node])
  <2>1. e \in [f : Nat, g : Nat, node : Nodes]
    BY <1>2 DEF TypeInv, Entries
  <2>. QED
    BY <1>1, <1>3, <2>1 DEF Entry
<1>5. ASSUME NEW v, NEW a, Gained(e, v, a)
      PROVE  /\ v \in Nodes /\ v # e.node /\ v # query.start
             /\ query.graph.cost[a] \in Nat \ {0} /\ g'[v] > e.g
             /\ g'[v] < g[v] /\ Labelled(v)'
  <2>1. Hop(a, e.node, v) /\ g'[v] = e.g + query.graph.cost[a] /\ g'[v] < g[v]
    BY <1>5 DEF Gained
  <2>2. v \in Nodes /\ v # e.node /\ query.graph.cost[a] \in Nat \ {0}
    BY <2>1, HopIs
  <2>3. g[query.start] = 0
    BY DEF LInv
  <2>4. v # query.start
    BY <1>2, <2>1, <2>2, <2>3
  <2>5. g'[v] < Infinity(query.graph)
    <3>1. g[v] <= Infinity(query.graph)
      BY <2>2 DEF LInv
    <3>2. g'[v] \in Nat /\ g[v] \in Nat /\ Infinity(query.graph) \in Nat
      BY <1>1, <2>2, Asked
    <3>. QED
      BY <2>1, <3>1, <3>2
  <2>. QED
    BY <1>1, <1>2, <2>1, <2>2, <2>4, <2>5 DEF Labelled
<1>6. \A v \in Nodes : g'[v] <= g[v] /\ g'[v] \in Nat
  <2> SUFFICES ASSUME NEW v \in Nodes PROVE g'[v] <= g[v] /\ g'[v] \in Nat
    OBVIOUS
  <2>1. g[v] \in Nat /\ g'[v] \in Nat
    BY <1>1, Asked
  <2>2. g'[v] = g[v] \/ g'[v] < g[v]
    BY <1>1 DEF Kept, Gained
  <2>. QED
    BY <2>1, <2>2
<1>7. Kept(e, e.node)
  BY <1>1, <1>2, <1>5
<1>8. Nodes' = Nodes /\ Entries' = Entries /\ \A a, u, v : Hop(a, u, v)' <=> Hop(a, u, v)
  BY <1>1 DEF Nodes, Entries, Hop
<1>. QED
  BY <1>2, <1>3, <1>4, <1>5, <1>6, <1>7, <1>8

\* An expansion leaves the labels sound.
LEMMA ExpansionIsSound ==
    ASSUME TypeInv, LInv, NEW e, Expanded(e)
    PROVE  TypeInv' /\ LInv'
<1> DEFINE G == query.graph
           Inf == Infinity(G)
<1>1. /\ e \in open /\ IsTop(e) /\ e.g = g[e.node] /\ e.node # query.goal
      /\ phase = "searching" /\ phase' = phase /\ query' = query
      /\ g' \in [Nodes -> Nat] /\ parent' \in [Nodes -> Int \X Int]
      /\ open \ {e} \subseteq open' /\ pushed \subseteq pushed' /\ open' \subseteq pushed'
      /\ e \notin open'
  BY DEF Expanded
<1>2. \A v \in Nodes : Kept(e, v) \/ \E a : Gained(e, v, a)
  BY DEF Expanded
<1>3. /\ e \in pushed /\ e.g \in Nat /\ e.node \in Nodes /\ e.g < Inf
      /\ e = Entry(e.node, g[e.node])
      /\ Kept(e, e.node)
      /\ \A v \in Nodes : g'[v] <= g[v] /\ g'[v] \in Nat
      /\ Nodes' = Nodes /\ Entries' = Entries
      /\ \A a, u, v : Hop(a, u, v)' <=> Hop(a, u, v)
  BY ExpandedLabels
<1>4. \A v, a : Gained(e, v, a) =>
        /\ v \in Nodes /\ v # query.start
        /\ G.cost[a] \in Nat \ {0} /\ g'[v] > e.g /\ g'[v] < Inf
  BY <1>1, ExpandedLabels DEF Labelled
<1>5. \A v : Entry(v, g[v])' = Entry(v, g'[v])
  BY <1>1 DEF Entry
<1>6. ASSUME NEW o \in pushed'
      PROVE  /\ o \in Entries
             /\ o.f = o.g + query.h[o.node]
             /\ g'[o.node] <= o.g /\ o.g < Inf
  <2>1. CASE o \in pushed
    <3>1. o \in Entries /\ o.node \in Nodes /\ o.g \in Nat
      BY <2>1, Asked DEF TypeInv
    <3>2. o.f = o.g + query.h[o.node] /\ g[o.node] <= o.g /\ o.g < Inf
      BY <2>1 DEF LInv
    <3>3. g'[o.node] <= g[o.node] /\ g'[o.node] \in Nat /\ g[o.node] \in Nat
      BY <1>3, <3>1, Asked
    <3>. QED
      BY <3>1, <3>2, <3>3
  <2>2. CASE o \notin pushed
    <3>1. PICK v, a : v \in Nodes /\ Gained(e, v, a) /\ o = Entry(v, g'[v])
      BY <2>2 DEF Expanded
    <3>2. /\ o \in Entries /\ o.f = g'[v] + query.h[v] /\ o.g = g'[v] /\ o.node = v
          /\ g'[v] \in Nat
      BY <1>3, <3>1, EntryIs
    <3>3. g'[v] < Inf
      BY <1>4, <3>1
    <3>. QED
      BY <3>2, <3>3
  <2>. QED
    BY <2>1, <2>2
<1>7. TypeInv'
  BY <1>1, <1>3, <1>6 DEF TypeInv
<1>8. ASSUME NEW v \in Nodes, v # query.start, g'[v] < Inf
      PROVE  /\ Hop(parent'[v][2], parent'[v][1], v)
             /\ g'[v] >= g'[parent'[v][1]] + G.cost[parent'[v][2]]
  <2>1. CASE Kept(e, v)
    <3> DEFINE u == parent[v][1]
               a == parent[v][2]
    <3>1. g'[v] = g[v] /\ parent'[v] = parent[v]
      BY <2>1 DEF Kept
    <3>2. Hop(a, u, v) /\ g[v] >= g[u] + G.cost[a]
      BY <1>8, <3>1 DEF LInv, Labelled
    <3>3. u \in Nodes /\ G.cost[a] \in Nat /\ g[u] \in Nat /\ g[v] \in Nat
      BY <3>2, HopIs, Asked
    <3>4. g'[u] <= g[u] /\ g'[u] \in Nat
      BY <1>3, <3>3
    <3> HIDE DEF u, a
    <3>5. g[v] >= g'[u] + G.cost[a]
      BY <3>2, <3>3, <3>4
    <3>. QED
      BY <3>1, <3>2, <3>5 DEF u, a
  <2>2. ASSUME NEW a, Gained(e, v, a)
        PROVE  /\ Hop(parent'[v][2], parent'[v][1], v)
               /\ g'[v] >= g'[parent'[v][1]] + G.cost[parent'[v][2]]
    <3>1. /\ Hop(a, e.node, v) /\ g'[v] = e.g + G.cost[a] /\ parent'[v] = <<e.node, a>>
      BY <2>2 DEF Gained
    <3>2. g'[e.node] = e.g
      BY <1>1, <1>3 DEF Kept
    <3>3. G.cost[a] \in Nat
      BY <1>4, <2>2
    <3>4. parent'[v][1] = e.node /\ parent'[v][2] = a
      BY <3>1
    <3>5. g'[v] >= e.g + G.cost[a]
      BY <1>3, <3>1, <3>3
    <3>. QED
      BY <3>1, <3>2, <3>4, <3>5
  <2>. QED
    BY <1>2, <2>1, <2>2
<1>9. ASSUME NEW v \in Nodes, g'[v] < Inf, Entry(v, g'[v]) \notin open'
      PROVE  v # query.goal /\ \A a, w : Hop(a, v, w) => g'[w] <= g'[v] + G.cost[a]
  <2>1. Kept(e, v)
    BY <1>2, <1>9 DEF Gained
  <2>2. g'[v] = g[v]
    BY <2>1 DEF Kept
  <2>3. CASE v = e.node
    <3>1. ASSUME NEW a, NEW w, Hop(a, v, w) PROVE g'[w] <= g'[v] + G.cost[a]
      <4>1. w \in Nodes /\ G.cost[a] \in Nat
        BY <3>1, HopIs
      <4>2. g'[w] <= g[w] /\ g'[w] \in Nat /\ g[w] \in Nat /\ g'[v] = e.g
        BY <1>1, <1>3, <2>2, <2>3, <4>1, Asked
      <4>3. CASE Kept(e, w)
        <5>1. g[w] <= e.g + G.cost[a]
          BY <2>3, <3>1, <4>3 DEF Kept
        <5>. QED
          BY <1>3, <4>1, <4>2, <5>1
      <4>4. ASSUME NEW b, Gained(e, w, b) PROVE g'[w] <= g'[v] + G.cost[a]
        <5>1. Hop(b, e.node, w) /\ g'[w] = e.g + G.cost[b]
          BY <4>4 DEF Gained
        <5>2. a = EdgeBetween(G, v, w) /\ b = EdgeBetween(G, v, w)
          BY <2>3, <3>1, <5>1, HopIs
        <5>. QED
          BY <1>3, <4>1, <4>2, <5>1, <5>2
      <4>. QED
        BY <1>2, <4>1, <4>3, <4>4
    <3>. QED
      BY <1>1, <2>3, <3>1
  <2>4. CASE v # e.node
    <3>1. Entry(v, g[v]) \notin open
      <4>1. Entry(v, g[v]).node = v
        BY EntryIs, Asked
      <4>. QED
        BY <1>1, <1>9, <2>2, <2>4, <4>1
    <3>2. v # query.goal /\ Relaxed(v)
      BY <1>1, <1>9, <2>2, <3>1 DEF LInv, Labelled
    <3>3. ASSUME NEW a, NEW w, Hop(a, v, w) PROVE g'[w] <= g'[v] + G.cost[a]
      <4>1. w \in Nodes /\ G.cost[a] \in Nat
        BY <3>3, HopIs
      <4>2. g[w] <= g[v] + G.cost[a]
        BY <3>2, <3>3 DEF Relaxed
      <4>3. g'[w] <= g[w] /\ g'[w] \in Nat /\ g[w] \in Nat /\ g[v] \in Nat
        BY <1>3, <4>1, Asked
      <4>. QED
        BY <2>2, <4>1, <4>2, <4>3
    <3>. QED
      BY <3>2, <3>3
  <2>. QED
    BY <2>3, <2>4
<1>10. /\ g'[query.start] = 0
       /\ \A v \in Nodes : g'[v] <= Inf
  <2>1. g[query.start] = 0 /\ query.start \in Nodes /\ \A v \in Nodes : g[v] <= Inf
    BY Asked DEF LInv
  <2>2. ASSUME NEW v \in Nodes PROVE g'[v] <= Inf
    <3>1. g'[v] <= g[v] /\ g'[v] \in Nat /\ g[v] \in Nat /\ g[v] <= Inf /\ Inf \in Nat
      BY <1>3, <2>1, Asked
    <3> HIDE DEF Inf
    <3>. QED
      BY <3>1
  <2>3. g'[query.start] <= g[query.start] /\ g'[query.start] \in Nat
    BY <1>3, <2>1
  <2>. QED
    BY <2>1, <2>2, <2>3
<1>11. phase = "searching" => query.start # query.goal
  BY DEF LInv
<1> HIDE DEF Inf
<1>12. \A v \in Nodes : v # query.start /\ Labelled(v)' =>
         /\ Hop(parent[v][2], parent[v][1], v)'
         /\ (g[v] >= g[parent[v][1]] + query.graph.cost[parent[v][2]])'
  <2> SUFFICES ASSUME NEW v \in Nodes, v # query.start, Labelled(v)'
               PROVE  /\ Hop(parent[v][2], parent[v][1], v)'
                      /\ (g[v] >= g[parent[v][1]] + query.graph.cost[parent[v][2]])'
    OBVIOUS
  <2>1. g'[v] < Inf
    BY <1>1 DEF Labelled, Inf
  <2>2. /\ Hop(parent'[v][2], parent'[v][1], v)
        /\ g'[v] >= g'[parent'[v][1]] + G.cost[parent'[v][2]]
    BY <1>8, <2>1
  <2>. QED
    BY <1>1, <2>2 DEF Hop
<1>13. \A v \in Nodes : Labelled(v)' /\ Entry(v, g'[v]) \notin open' =>
         v # query.goal /\ Relaxed(v)'
  <2> SUFFICES ASSUME NEW v \in Nodes, Labelled(v)', Entry(v, g'[v]) \notin open'
               PROVE  v # query.goal /\ Relaxed(v)'
    OBVIOUS
  <2>1. g'[v] < Inf
    BY <1>1 DEF Labelled, Inf
  <2>2. v # query.goal /\ \A a, w : Hop(a, v, w) => g'[w] <= g'[v] + G.cost[a]
    BY <1>9, <2>1
  <2>. QED
    BY <1>1, <1>3, <2>2 DEF Relaxed
<1>. QED
  BY <1>1, <1>3, <1>5, <1>6, <1>7, <1>10, <1>11, <1>12, <1>13 DEF LInv, Inf

(* The labels of every search are sound, whatever the heuristic.           *)
THEOREM LabelsAreSound == Spec => [](TypeInv /\ LInv)
<1>1. Init => TypeInv /\ LInv
  BY InitIsSound
<1>2. TypeInv /\ LInv /\ [Next]_vars => TypeInv' /\ LInv'
  <2> SUFFICES ASSUME TypeInv, LInv, [Next]_vars PROVE TypeInv' /\ LInv'
    OBVIOUS
  <2>1. CASE \E e \in open : Expand(e)
    <3>1. PICK e \in open : Expand(e)
      BY <2>1
    <3>2. Expanded(e)
      BY <3>1, Expansion
    <3>. QED
      BY <3>2, ExpansionIsSound
  <2>2. CASE \/ \E e \in open : Discard(e) \/ Reach(e)
             \/ Exhaust
             \/ UNCHANGED vars
    BY <2>2, QuietSteps
  <2>. QED
    BY <2>1, <2>2 DEF Next
<1>. QED
  BY <1>1, <1>2, PTL DEF Spec

\* As many pushes as there are different entries, all of them finite.
CountInv == IsFiniteSet(pushed) /\ NothingPushedTwice

\* What an expansion pushes: one entry for each improving edge, none of which
\* was pushed before.
LEMMA PushesAreNew ==
    ASSUME TypeInv, LInv, NEW e \in open
    PROVE  LET new == {Entry(Neighbor(query.graph, a, e.node), e.g + query.graph.cost[a]) :
                         a \in Improving(e)}
           IN  /\ IsFiniteSet(new) /\ Cardinality(new) = Cardinality(Improving(e))
               /\ Cardinality(Improving(e)) \in Nat
               /\ new \cap pushed = {}
<1> DEFINE G == query.graph
           far(a) == Neighbor(G, a, e.node)
           entry(a) == Entry(far(a), e.g + G.cost[a])
           new == {entry(a) : a \in Improving(e)}
           f == [a \in Improving(e) |-> entry(a)]
<1>1. e.g \in Nat /\ e.node \in Nodes /\ IsGraph(G)
  BY Asked
<1>2. /\ EdgeIds(G) = 1..Len(G.cost) /\ Len(G.cost) \in Nat
      /\ \A k \in 1..Len(G.cost) : G.cost[k] \in Nat \ {0}
  BY <1>1, CostsOfAGraph
<1>3. Improving(e) \subseteq EdgeIds(G)
  BY DEF Improving, Adjacency
<1>4. IsFiniteSet(Improving(e)) /\ Cardinality(Improving(e)) \in Nat
  <2>1. IsFiniteSet(1..Len(G.cost))
    BY <1>2, FS_Interval
  <2>2. IsFiniteSet(Improving(e))
    BY <1>2, <1>3, <2>1, FS_Subset
  <2>. QED
    BY <2>2, FS_CardinalityType
<1>5. ASSUME NEW a \in Improving(e)
      PROVE  /\ Hop(a, e.node, far(a)) /\ far(a) \in Nodes
             /\ e.g + G.cost[a] \in Nat /\ e.g + G.cost[a] < g[far(a)]
             /\ entry(a).node = far(a) /\ entry(a).g = e.g + G.cost[a]
             /\ a = EdgeBetween(G, e.node, far(a))
  <2>1. /\ a \in EdgeIds(G) /\ e.node \in Ends(G, a)
        /\ TraversableFrom(G, query.blocked, a, e.node)
        /\ e.g + G.cost[a] < g[far(a)]
    BY DEF Improving, Adjacency
  <2>2. Ends(G, a) = {e.node, far(a)}
    BY <2>1 DEF Ends, Neighbor
  <2>3. Hop(a, e.node, far(a))
    BY <2>1, <2>2 DEF Hop
  <2> HIDE DEF far
  <2>4. far(a) \in Nodes /\ a = EdgeBetween(G, e.node, far(a)) /\ G.cost[a] \in Nat
    BY <2>3, HopIs
  <2>5. e.g + G.cost[a] \in Nat
    BY <1>1, <2>4
  <2>6. entry(a).node = far(a) /\ entry(a).g = e.g + G.cost[a]
    BY <2>4, <2>5, EntryIs
  <2>. QED
    BY <2>1, <2>3, <2>4, <2>5, <2>6
<1>6. new \cap pushed = {}
  <2> SUFFICES ASSUME NEW a \in Improving(e), entry(a) \in pushed PROVE FALSE
    OBVIOUS
  <2> DEFINE o == entry(a)
  <2>1. o.node = far(a) /\ o.g \in Nat /\ o.g < g[far(a)] /\ far(a) \in Nodes
    BY <1>5
  <2>2. o \in pushed
    OBVIOUS
  <2> HIDE DEF o, far, entry
  <2>3. g[far(a)] <= o.g /\ g[far(a)] \in Nat
    BY <2>1, <2>2, Asked DEF LInv
  <2>. QED
    BY <2>1, <2>3
<1>7. \A a, b \in Improving(e) : entry(a) = entry(b) => a = b
  <2> SUFFICES ASSUME NEW a \in Improving(e), NEW b \in Improving(e), entry(a) = entry(b)
               PROVE  a = b
    OBVIOUS
  <2>1. far(a) = far(b)
    <3>1. entry(a).node = far(a) /\ entry(b).node = far(b)
      BY <1>5
    <3>. QED
      BY <3>1
  <2>2. a = EdgeBetween(G, e.node, far(a)) /\ b = EdgeBetween(G, e.node, far(b))
    BY <1>5
  <2>. QED
    BY <2>1, <2>2
<1>8. f \in Bijection(Improving(e), new)
  <2> HIDE DEF entry
  <2>1. f \in [Improving(e) -> new]
    OBVIOUS
  <2>2. \A a, b \in Improving(e) : f[a] = f[b] => a = b
    BY <1>7
  <2>3. \A n \in new : \E a \in Improving(e) : f[a] = n
    OBVIOUS
  <2>. QED
    BY <2>1, <2>2, <2>3 DEF Bijection, Injection, Surjection, IsInjective
<1>9. IsFiniteSet(new) /\ Cardinality(new) = Cardinality(Improving(e))
  <2> HIDE DEF new, f
  <2>1. ExistsBijection(Improving(e), new)
    BY <1>8 DEF ExistsBijection
  <2>. QED
    BY <1>4, <2>1, FS_Bijection
<1>. QED
  BY <1>4, <1>6, <1>9

\* No step counts a push that added no entry.
LEMMA PushesAreCounted ==
    ASSUME TypeInv, LInv, CountInv, [Next]_vars PROVE CountInv'
<1>1. CASE \E e \in open : Expand(e)
  <2>1. PICK e \in open : Expand(e)
    BY <1>1
  <2> DEFINE new == {Entry(Neighbor(query.graph, a, e.node), e.g + query.graph.cost[a]) :
                       a \in Improving(e)}
  <2>2. pushed' = pushed \cup new /\ pushes' = pushes + Cardinality(Improving(e))
    BY <2>1 DEF Expand
  <2>3. /\ IsFiniteSet(new) /\ Cardinality(new) = Cardinality(Improving(e))
        /\ Cardinality(Improving(e)) \in Nat
        /\ new \cap pushed = {}
    BY PushesAreNew
  <2> HIDE DEF new
  <2>4. IsFiniteSet(pushed) /\ pushes = Cardinality(pushed) /\ Cardinality(pushed) \in Nat
    BY FS_CardinalityType DEF CountInv, NothingPushedTwice
  <2>5. /\ IsFiniteSet(pushed \cup new)
        /\ Cardinality(pushed \cup new) =
             Cardinality(pushed) + Cardinality(new) - Cardinality(pushed \cap new)
    BY <2>3, <2>4, FS_Union
  <2>6. Cardinality(pushed \cap new) = 0
    BY <2>3, FS_EmptySet
  <2>7. Cardinality(pushed \cup new) = pushes + Cardinality(Improving(e))
    BY <2>3, <2>4, <2>5, <2>6
  <2>. QED
    BY <2>2, <2>5, <2>7 DEF CountInv, NothingPushedTwice
<1>2. CASE (\E e \in open : Discard(e) \/ Reach(e)) \/ Exhaust \/ UNCHANGED vars
  <2>1. pushed' = pushed /\ pushes' = pushes
    BY <1>2 DEF Discard, Reach, Exhaust, vars
  <2>. QED
    BY <2>1 DEF CountInv, NothingPushedTwice
<1>. QED
  BY <1>1, <1>2 DEF Next

(* Every push of AStarPlanner::plan is of an entry never pushed before,    *)
(* open or popped: it is made only on strict improvement, and no two edges *)
(* of a node lead to one neighbour.                                        *)
THEOREM NothingIsPushedTwice == Spec => []NothingPushedTwice
<1>1. Init => CountInv
  <2> SUFFICES ASSUME Init PROVE CountInv
    OBVIOUS
  <2>1. IsFiniteSet(open)
    BY FS_EmptySet, FS_Singleton DEF Init
  <2>. QED
    BY <2>1 DEF Init, CountInv, NothingPushedTwice
<1>2. TypeInv /\ LInv /\ CountInv /\ [Next]_vars => CountInv'
  BY PushesAreCounted
<1>3. CountInv => NothingPushedTwice
  BY DEF CountInv
<1>. QED
  BY <1>1, <1>2, <1>3, LabelsAreSound, PTL DEF Spec

-----------------------------------------------------------------------------
\* Labels are no worse than the way along a walk, as far as its nodes have
\* been expanded.
LEMMA LabelsAlong ==
    ASSUME TypeInv, LInv,
           NEW q, IsWalk(query.graph, query.blocked, query.start, query.goal, q),
           NEW n \in 1..Len(q),
           \A i \in 1..(n - 1) : g[q[i]] <= CostTo(query.graph, q, i) =>
               Labelled(q[i]) /\ Entry(q[i], g[q[i]]) \notin open
    PROVE  \A i \in 1..n : g[q[i]] <= CostTo(query.graph, q, i)
<1> DEFINE G == query.graph
           T == {i \in Nat : i + 1 <= n => g[q[i + 1]] <= CostTo(G, q, i + 1)}
<1>1. /\ IsGraph(G) /\ g[query.start] = 0
      /\ \A v \in Nodes : g[v] \in Nat
  BY Asked DEF LInv
<1>2. /\ Len(q) \in Nat \ {0} /\ q[1] = query.start /\ q[Len(q)] = query.goal
      /\ \A i \in 1..Len(q) : q[i] \in Nodes
      /\ \A i, j \in 1..Len(q) : q[i] = q[j] => i = j
      /\ \A i \in 1..(Len(q) - 1) : IsHop(G, query.blocked, q[i], q[i + 1])
  BY DEF IsWalk, IsPath, Nodes
<1>3. /\ CostTo(G, q, 1) = 0
      /\ \A k \in 1..Len(q) : CostTo(G, q, k) \in Nat
      /\ \A k \in 1..(Len(q) - 1) :
           /\ Leg(G, q, k) \in Nat
           /\ CostTo(G, q, k + 1) = CostTo(G, q, k) + Leg(G, q, k)
  BY <1>1, WalkCosts
<1>4. 0 \in T
  BY <1>1, <1>2, <1>3
<1>5. ASSUME NEW i \in Nat, i \in T PROVE i + 1 \in T
  <2> SUFFICES ASSUME (i + 1) + 1 <= n
               PROVE  g[q[(i + 1) + 1]] <= CostTo(G, q, (i + 1) + 1)
    OBVIOUS
  <2> DEFINE k == i + 1
             a == EdgeBetween(G, q[k], q[k + 1])
  <2>1. /\ k \in 1..(n - 1) /\ k \in 1..(Len(q) - 1) /\ k \in 1..Len(q)
        /\ k + 1 \in 1..Len(q) /\ k # Len(q) /\ Len(q) \in 1..Len(q)
        /\ g[q[k]] <= CostTo(G, q, k)
    BY <1>2, <1>5
  <2>2. Labelled(q[k]) /\ Entry(q[k], g[q[k]]) \notin open
    BY <2>1
  <2>3. q[k] # query.goal /\ q[k] \in Nodes /\ q[k + 1] \in Nodes
    BY <1>2, <2>1
  <2>4. Relaxed(q[k])
    BY <2>2, <2>3 DEF LInv
  <2>5. Hop(a, q[k], q[k + 1])
    <3>1. IsHop(G, query.blocked, q[k], q[k + 1])
      BY <1>2, <2>1
    <3>. QED
      BY <1>1, <3>1, HopHasItsEdge DEF Hop
  <2>6. g[q[k + 1]] <= g[q[k]] + Leg(G, q, k)
    BY <2>4, <2>5 DEF Relaxed, Leg
  <2>7. /\ g[q[k]] \in Nat /\ g[q[k + 1]] \in Nat /\ Leg(G, q, k) \in Nat
        /\ CostTo(G, q, k) \in Nat /\ CostTo(G, q, k + 1) = CostTo(G, q, k) + Leg(G, q, k)
    BY <1>1, <1>3, <2>1, <2>3
  <2>. QED
    BY <2>1, <2>6, <2>7
<1>6. Nat \subseteq T
  <2> HIDE DEF T
  <2>. QED
    BY <1>4, <1>5, Ind
<1>7. ASSUME NEW i \in 1..n PROVE g[q[i]] <= CostTo(G, q, i)
  <2>1. i - 1 \in Nat /\ (i - 1) + 1 = i /\ i <= n
    BY <1>2
  <2>2. i - 1 \in T
    BY <1>6, <2>1
  <2>. QED
    BY <2>1, <2>2
<1>. QED
  BY <1>7

\* The way along a walk costs no more than the whole, and its rest is a walk.
LEMMA CostOnTheWay ==
    ASSUME TypeInv,
           NEW q, IsWalk(query.graph, query.blocked, query.start, query.goal, q),
           NEW i \in 1..Len(q)
    PROVE  /\ CostTo(query.graph, q, i) \in Nat /\ Cost(query.graph, q) \in Nat
           /\ CostTo(query.graph, q, i) <= Cost(query.graph, q)
           /\ q[i] \in Nodes
           /\ Admissible(query) =>
                CostTo(query.graph, q, i) + query.h[q[i]] <= Cost(query.graph, q)
<1> DEFINE G == query.graph
           rest == SubSeq(q, i, Len(q))
<1>1. IsGraph(G) /\ query.h \in [Nodes -> Nat] /\ query.goal \in G.nodes
  BY Asked DEF Nodes
<1>2. /\ IsWalk(G, query.blocked, q[i], query.goal, rest)
      /\ Len(rest) = Len(q) - i + 1
      /\ \A j \in 1..Len(rest) :
           CostTo(G, q, i - 1 + j) = CostTo(G, q, i) + CostTo(G, rest, j)
  BY <1>1, RestOfAWalk
<1>3. /\ Len(q) \in Nat \ {0} /\ CostTo(G, q, i) \in Nat /\ Cost(G, q) \in Nat
  BY <1>1, WalkCosts
<1>4. q[i] \in Nodes /\ q[i] \in G.nodes
  BY DEF IsWalk, IsPath, Nodes
<1> HIDE DEF rest
<1>5. Cost(G, rest) \in Nat /\ Len(rest) \in Nat \ {0}
  BY <1>1, <1>2, WalkCosts
<1>6. Cost(G, q) = CostTo(G, q, i) + Cost(G, rest)
  <2>1. Len(rest) \in 1..Len(rest) /\ i - 1 + Len(rest) = Len(q)
    BY <1>2, <1>3, <1>5
  <2>. QED
    BY <1>2, <2>1 DEF Cost
<1>7. Admissible(query) => query.h[q[i]] <= Cost(G, rest)
  <2>1. rest \in Walks(G, query.blocked, q[i], query.goal)
    BY <1>1, <1>2, <1>4, WalksAreWalks
  <2>. QED
    BY <1>4, <2>1 DEF Admissible
<1>8. query.h[q[i]] \in Nat
  BY <1>1, <1>4
<1>. QED
  BY <1>3, <1>4, <1>5, <1>6, <1>7, <1>8

\* No walk costs less than what is reached first.
LEMMA ReachedIsLeast ==
    ASSUME TypeInv, LInv, phase = "reached", Admissible(query),
           NEW q, IsWalk(query.graph, query.blocked, query.start, query.goal, q)
    PROVE  Cost(query.graph, q) >= g[query.goal]
<1> DEFINE G == query.graph
<1>1. /\ IsGraph(G) /\ query.goal \in Nodes /\ g[query.goal] \in Nat
      /\ query.h \in [Nodes -> Nat]
      /\ Infinity(G) \in Nat /\ \A v \in Nodes : g[v] \in Nat
  BY Asked
<1>2. Len(q) \in Nat \ {0} /\ Cost(G, q) \in Nat /\ Len(q) \in 1..Len(q)
  BY <1>1, WalkCosts
<1> SUFFICES ASSUME Cost(G, q) < g[query.goal] PROVE FALSE
  BY <1>1, <1>2
<1>3. g[query.goal] < Infinity(G) /\ \A o \in open : o.f >= g[query.goal]
  BY DEF LInv, Labelled
<1>4. ASSUME NEW i \in 1..(Len(q) - 1), g[q[i]] <= CostTo(G, q, i)
      PROVE  Labelled(q[i]) /\ Entry(q[i], g[q[i]]) \notin open
  <2>1. i \in 1..Len(q)
    BY <1>2
  <2>2. /\ q[i] \in Nodes /\ CostTo(G, q, i) \in Nat /\ CostTo(G, q, i) <= Cost(G, q)
        /\ CostTo(G, q, i) + query.h[q[i]] <= Cost(G, q)
    BY <2>1, CostOnTheWay
  <2>3. g[q[i]] \in Nat /\ query.h[q[i]] \in Nat
    BY <1>1, <2>2
  <2>4. Labelled(q[i])
    BY <1>1, <1>2, <1>3, <1>4, <2>2, <2>3 DEF Labelled
  <2>5. Entry(q[i], g[q[i]]).f = g[q[i]] + query.h[q[i]]
    BY <2>2, <2>3, EntryIs
  <2>6. Entry(q[i], g[q[i]]).f < g[query.goal]
    BY <1>1, <1>2, <1>4, <2>2, <2>3, <2>5
  <2>7. Entry(q[i], g[q[i]]).f \in Nat
    BY <2>3, <2>5
  <2>. QED
    BY <1>1, <1>3, <2>4, <2>6, <2>7
<1>5. \A i \in 1..Len(q) : g[q[i]] <= CostTo(G, q, i)
  BY <1>2, <1>4, LabelsAlong
<1>6. g[query.goal] <= Cost(G, q)
  BY <1>2, <1>5 DEF Cost, IsWalk, IsPath
<1>. QED
  BY <1>1, <1>2, <1>6

\* The open list runs empty only where there is no walk.
LEMMA ExhaustedIsNoWalk ==
    ASSUME TypeInv, LInv, phase = "exhausted"
    PROVE  AllWalks = {}
<1> DEFINE G == query.graph
<1>1. /\ IsGraph(G) /\ query.start \in G.nodes /\ query.goal \in G.nodes
      /\ query.goal \in Nodes /\ g[query.goal] \in Nat
      /\ Infinity(G) \in Nat /\ \A v \in Nodes : g[v] \in Nat
  BY Asked DEF Nodes
<1> SUFFICES ASSUME NEW q, IsWalk(G, query.blocked, query.start, query.goal, q)
             PROVE  FALSE
  BY <1>1, WalksAreWalks DEF AllWalks
<1>2. /\ Len(q) \in Nat \ {0} /\ Cost(G, q) \in Nat /\ Len(q) \in 1..Len(q)
      /\ Cost(G, q) < Infinity(G)
  BY <1>1, WalkCosts, WalkIsFinite
<1>3. open = {}
  BY DEF LInv
<1>4. ASSUME NEW i \in 1..(Len(q) - 1), g[q[i]] <= CostTo(G, q, i)
      PROVE  Labelled(q[i]) /\ Entry(q[i], g[q[i]]) \notin open
  <2>1. i \in 1..Len(q)
    BY <1>2
  <2>2. q[i] \in Nodes /\ CostTo(G, q, i) \in Nat /\ CostTo(G, q, i) <= Cost(G, q)
    BY <2>1, CostOnTheWay
  <2>. QED
    BY <1>1, <1>2, <1>3, <1>4, <2>2 DEF Labelled
<1>5. \A i \in 1..Len(q) : g[q[i]] <= CostTo(G, q, i)
  BY <1>2, <1>4, LabelsAlong
<1>6. g[query.goal] <= Cost(G, q)
  BY <1>2, <1>5 DEF Cost, IsWalk, IsPath
<1>7. Labelled(query.goal) /\ Entry(query.goal, g[query.goal]) \notin open
  BY <1>1, <1>2, <1>3, <1>6 DEF Labelled
<1>. QED
  BY <1>1, <1>7 DEF LInv

-----------------------------------------------------------------------------
\* A piece of the way back from the goal, as the parents tell it.
Pieces == [nodes : Seq(Nodes), edges : Seq(EdgeIds(query.graph))]

Traced(r) ==
    /\ r \in Pieces
    /\ Len(r.nodes) = Len(r.edges) + 1 /\ r.nodes[Len(r.nodes)] = query.goal
    /\ \A i \in 1..Len(r.nodes) : Labelled(r.nodes[i])
    /\ \A i \in 1..Len(r.edges) :
         /\ r.nodes[i + 1] # query.start
         /\ parent[r.nodes[i + 1]] = <<r.nodes[i], r.edges[i]>>

\* The parent of a labelled node.
LEMMA ParentIs ==
    ASSUME TypeInv, LInv, NEW v \in Nodes, v # query.start, Labelled(v)
    PROVE  /\ parent[v] = <<parent[v][1], parent[v][2]>>
           /\ Hop(parent[v][2], parent[v][1], v)
           /\ parent[v][1] \in Nodes /\ parent[v][2] \in EdgeIds(query.graph)
           /\ Labelled(parent[v][1])
           /\ query.graph.cost[parent[v][2]] \in Nat \ {0}
           /\ g[v] >= g[parent[v][1]] + query.graph.cost[parent[v][2]]
<1> DEFINE u == parent[v][1]
           a == parent[v][2]
<1>1. parent[v] = <<u, a>>
  BY DEF TypeInv
<1>2. Hop(a, u, v) /\ g[v] >= g[u] + query.graph.cost[a]
  BY DEF LInv
<1> HIDE DEF u, a
<1>3. u \in Nodes /\ a \in EdgeIds(query.graph) /\ query.graph.cost[a] \in Nat \ {0}
  BY <1>2, HopIs
<1>4. g[u] \in Nat /\ g[v] \in Nat /\ Infinity(query.graph) \in Nat
  BY <1>3, Asked
<1>5. Labelled(u)
  BY <1>2, <1>3, <1>4 DEF Labelled
<1>. QED
  BY <1>1, <1>2, <1>3, <1>5 DEF u, a

\* One step further back.
LEMMA TracedBack ==
    ASSUME TypeInv, LInv, NEW r, Traced(r), Head(r.nodes) # query.start
    PROVE  LET hop == parent[Head(r.nodes)]
               back == [nodes |-> <<hop[1]>> \o r.nodes, edges |-> <<hop[2]>> \o r.edges]
           IN  Traced(back) /\ Len(back.nodes) = Len(r.nodes) + 1
<1> DEFINE v == Head(r.nodes)
           u == parent[v][1]
           a == parent[v][2]
           nodes == <<u>> \o r.nodes
           edges == <<a>> \o r.edges
           back == [nodes |-> nodes, edges |-> edges]
           E == EdgeIds(query.graph)
<1>1. /\ r.nodes \in Seq(Nodes) /\ r.edges \in Seq(E)
      /\ Len(r.nodes) = Len(r.edges) + 1 /\ r.nodes[Len(r.nodes)] = query.goal
      /\ \A i \in 1..Len(r.nodes) : Labelled(r.nodes[i])
      /\ \A i \in 1..Len(r.edges) :
           /\ r.nodes[i + 1] # query.start
           /\ parent[r.nodes[i + 1]] = <<r.nodes[i], r.edges[i]>>
  BY DEF Traced, Pieces
<1>2. Len(r.edges) \in Nat /\ 1 \in 1..Len(r.nodes) /\ v = r.nodes[1]
  BY <1>1
<1>3. v \in Nodes /\ v # query.start /\ Labelled(v)
  BY <1>1, <1>2
<1>4. parent[v] = <<u, a>> /\ u \in Nodes /\ a \in E /\ Labelled(u)
  BY <1>3, ParentIs
<1> HIDE DEF u, a, E
<1>5. /\ <<u>> \in Seq(Nodes) /\ Len(<<u>>) = 1 /\ <<u>>[1] = u
      /\ <<a>> \in Seq(E) /\ Len(<<a>>) = 1 /\ <<a>>[1] = a
  BY <1>4, OneElement
<1>6. /\ nodes \in Seq(Nodes) /\ Len(nodes) = Len(r.nodes) + 1 /\ nodes[1] = u
      /\ \A i \in 1..Len(r.nodes) : nodes[i + 1] = r.nodes[i]
  BY <1>1, <1>5, ConcatProperties
<1>7. /\ edges \in Seq(E) /\ Len(edges) = Len(r.edges) + 1 /\ edges[1] = a
      /\ \A i \in 1..Len(r.edges) : edges[i + 1] = r.edges[i]
  BY <1>1, <1>5, ConcatProperties
<1> HIDE DEF nodes, edges, v
<1>8. ASSUME NEW i \in 1..Len(nodes) PROVE Labelled(nodes[i])
  <2>1. CASE i = 1
    BY <1>4, <1>6, <2>1
  <2>2. CASE i # 1
    <3>1. i - 1 \in 1..Len(r.nodes) /\ (i - 1) + 1 = i
      BY <1>1, <1>2, <1>6, <2>2
    <3>2. nodes[(i - 1) + 1] = r.nodes[i - 1]
      BY <1>6, <3>1
    <3>. QED
      BY <1>1, <3>1, <3>2
  <2>. QED
    BY <2>1, <2>2
<1>9. ASSUME NEW i \in 1..Len(edges)
      PROVE  nodes[i + 1] # query.start /\ parent[nodes[i + 1]] = <<nodes[i], edges[i]>>
  <2>1. CASE i = 1
    <3>1. nodes[1 + 1] = r.nodes[1]
      BY <1>2, <1>6
    <3>. QED
      BY <1>2, <1>3, <1>4, <1>6, <1>7, <2>1, <3>1
  <2>2. CASE i # 1
    <3> DEFINE j == i - 1
    <3>0. /\ Len(r.nodes) = Len(r.edges) + 1 /\ Len(r.edges) \in Nat
          /\ Len(edges) = Len(r.edges) + 1
      BY <1>1, <1>2, <1>7
    <3>1. j \in 1..Len(r.edges) /\ j \in 1..Len(r.nodes) /\ j + 1 \in 1..Len(r.nodes) /\ j + 1 = i
      BY <3>0, <2>2
    <3>2. nodes[(j + 1) + 1] = r.nodes[j + 1] /\ nodes[j + 1] = r.nodes[j] /\ edges[j + 1] = r.edges[j]
      BY <1>6, <1>7, <3>1
    <3>3. r.nodes[j + 1] # query.start /\ parent[r.nodes[j + 1]] = <<r.nodes[j], r.edges[j]>>
      BY <1>1, <3>1
    <3>. QED
      BY <3>1, <3>2, <3>3
  <2>. QED
    BY <2>1, <2>2
<1>10. Len(nodes) = Len(edges) + 1 /\ nodes[Len(nodes)] = query.goal
  <2>1. Len(r.nodes) \in 1..Len(r.nodes)
    BY <1>1, <1>2
  <2>. QED
    BY <1>1, <1>2, <1>6, <1>7, <2>1
<1>11. Traced(back)
  BY <1>6, <1>7, <1>8, <1>9, <1>10 DEF Traced, Pieces, E
<1>. QED
  BY <1>6, <1>11 DEF nodes, edges, u, a, v

\* What a traced piece tells.
LEMMA TracedIs ==
    ASSUME TypeInv, LInv, NEW r, Traced(r)
    PROVE  /\ r.nodes \in Seq(Nodes) /\ Len(r.nodes) \in Nat \ {0}
           /\ r.edges \in Seq(EdgeIds(query.graph)) /\ Len(r.edges) = Len(r.nodes) - 1
           /\ \A i \in 1..Len(r.nodes) : r.nodes[i] \in Nodes /\ g[r.nodes[i]] \in Nat
           /\ \A i \in 1..(Len(r.nodes) - 1) :
                /\ Hop(r.edges[i], r.nodes[i], r.nodes[i + 1])
                /\ r.edges[i] = EdgeBetween(query.graph, r.nodes[i], r.nodes[i + 1])
                /\ query.graph.cost[r.edges[i]] \in Nat \ {0}
                /\ g[r.nodes[i + 1]] >= g[r.nodes[i]] + query.graph.cost[r.edges[i]]
           /\ \A i, j \in 1..Len(r.nodes) : i < j => g[r.nodes[i]] < g[r.nodes[j]]
           /\ \A i, j \in 1..Len(r.nodes) : r.nodes[i] = r.nodes[j] => i = j
           /\ Len(r.nodes) <= Cardinality(Nodes)
<1> DEFINE n == Len(r.nodes)
           nodes == r.nodes
           edges == r.edges
           E == EdgeIds(query.graph)
<1>1. /\ nodes \in Seq(Nodes) /\ edges \in Seq(E) /\ n = Len(edges) + 1
      /\ \A i \in 1..n : Labelled(nodes[i])
      /\ \A i \in 1..Len(edges) :
           /\ nodes[i + 1] # query.start
           /\ parent[nodes[i + 1]] = <<nodes[i], edges[i]>>
  BY DEF Traced, Pieces
<1>2. n \in Nat \ {0} /\ Len(edges) = n - 1
  BY <1>1
<1> HIDE DEF nodes, edges, n
<1>3. \A i \in 1..n : nodes[i] \in Nodes /\ g[nodes[i]] \in Nat
  BY <1>1, Asked DEF n, nodes
<1>4. ASSUME NEW i \in 1..(n - 1)
      PROVE  /\ Hop(edges[i], nodes[i], nodes[i + 1])
             /\ edges[i] = EdgeBetween(query.graph, nodes[i], nodes[i + 1])
             /\ query.graph.cost[edges[i]] \in Nat \ {0}
             /\ g[nodes[i + 1]] >= g[nodes[i]] + query.graph.cost[edges[i]]
  <2> DEFINE v == nodes[i + 1]
  <2>1. i \in 1..n /\ i + 1 \in 1..n /\ i \in 1..Len(edges)
    BY <1>2
  <2>2. v \in Nodes /\ v # query.start /\ Labelled(v) /\ parent[v] = <<nodes[i], edges[i]>>
    BY <1>1, <1>3, <2>1
  <2> HIDE DEF v
  <2>3. /\ Hop(parent[v][2], parent[v][1], v)
        /\ query.graph.cost[parent[v][2]] \in Nat \ {0}
        /\ g[v] >= g[parent[v][1]] + query.graph.cost[parent[v][2]]
    BY <2>2, ParentIs
  <2>4. parent[v][1] = nodes[i] /\ parent[v][2] = edges[i]
    BY <2>2
  <2>5. Hop(edges[i], nodes[i], v)
    BY <2>3, <2>4
  <2>6. edges[i] = EdgeBetween(query.graph, nodes[i], v)
    BY <2>5, HopIs
  <2>. QED
    BY <2>3, <2>4, <2>5, <2>6 DEF v
<1> DEFINE T == {d \in Nat : \A i \in 1..n : i + d + 1 <= n => g[nodes[i]] < g[nodes[i + d + 1]]}
<1>5. ASSUME NEW i \in 1..(n - 1) PROVE g[nodes[i]] < g[nodes[i + 1]]
  <2>1. /\ i \in 1..n /\ i + 1 \in 1..n
        /\ query.graph.cost[edges[i]] \in Nat \ {0}
        /\ g[nodes[i + 1]] >= g[nodes[i]] + query.graph.cost[edges[i]]
    BY <1>2, <1>4
  <2>2. g[nodes[i]] \in Nat /\ g[nodes[i + 1]] \in Nat
    BY <1>3, <2>1
  <2>. QED
    BY <2>1, <2>2
<1>6. 0 \in T
  <2> SUFFICES ASSUME NEW i \in 1..n, i + 0 + 1 <= n PROVE g[nodes[i]] < g[nodes[i + 0 + 1]]
    OBVIOUS
  <2>1. i \in 1..(n - 1) /\ i + 0 + 1 = i + 1
    BY <1>2
  <2>. QED
    BY <1>5, <2>1
<1>7. ASSUME NEW d \in Nat, d \in T PROVE d + 1 \in T
  <2> SUFFICES ASSUME NEW i \in 1..n, i + (d + 1) + 1 <= n
               PROVE  g[nodes[i]] < g[nodes[i + (d + 1) + 1]]
    OBVIOUS
  <2> DEFINE k == i + d + 1
  <2>1. k \in 1..(n - 1) /\ k \in 1..n /\ k + 1 \in 1..n /\ i + (d + 1) + 1 = k + 1 /\ k <= n
    BY <1>2
  <2>2. g[nodes[i]] < g[nodes[k]]
    BY <1>7, <2>1
  <2>3. g[nodes[k]] < g[nodes[k + 1]]
    BY <1>5, <2>1
  <2>4. g[nodes[i]] \in Nat /\ g[nodes[k]] \in Nat /\ g[nodes[k + 1]] \in Nat
    BY <1>3, <2>1
  <2> HIDE DEF k
  <2>. QED
    BY <2>1, <2>2, <2>3, <2>4
<1>8. Nat \subseteq T
  <2> HIDE DEF T
  <2>. QED
    BY <1>6, <1>7, Ind
<1>9. ASSUME NEW i \in 1..n, NEW j \in 1..n, i < j PROVE g[nodes[i]] < g[nodes[j]]
  <2> DEFINE d == j - i - 1
  <2>1. d \in Nat /\ i + d + 1 = j /\ j <= n
    BY <1>2, <1>9
  <2>2. d \in T
    BY <1>8, <2>1
  <2> HIDE DEF d
  <2>. QED
    BY <2>1, <2>2
<1>10. ASSUME NEW i \in 1..n, NEW j \in 1..n, nodes[i] = nodes[j] PROVE i = j
  <2>1. ~(g[nodes[i]] < g[nodes[j]]) /\ ~(g[nodes[j]] < g[nodes[i]])
    BY <1>3, <1>10
  <2>2. ~(i < j) /\ ~(j < i)
    BY <1>9, <2>1
  <2>. QED
    BY <1>2, <2>2
<1>11. n <= Cardinality(Nodes)
  <2>1. nodes \in [1..n -> Nodes]
    BY <1>1, <1>2 DEF n, nodes
  <2>2. nodes \in Injection(1..n, Nodes)
    BY <2>1, <1>10 DEF Injection, IsInjective
  <2>3. IsFiniteSet(Nodes)
    BY Asked DEF IsGraph, Nodes
  <2>4. Cardinality(1..n) <= Cardinality(Nodes)
    BY <2>2, <2>3, FS_Injection
  <2>5. Cardinality(1..n) = n
    <3>1. 1 \in Int /\ n \in Int
      BY <1>2
    <3>. QED
      BY <1>2, <3>1, FS_Interval
  <2>. QED
    BY <2>4, <2>5
<1>. QED
  BY <1>1, <1>2, <1>3, <1>4, <1>9, <1>10, <1>11 DEF n, nodes, edges

\* The way back from the goal ends at the start.
LEMMA ReconstructedIs ==
    ASSUME TypeInv, LInv, phase = "reached"
    PROVE  \E r : /\ Traced(r) /\ r.nodes[1] = query.start
                  /\ Reconstructed = [found |-> TRUE, nodes |-> r.nodes, edges |-> r.edges]
<1> DEFINE c == Cardinality(Nodes)
           D == {r \in Pieces : Traced(r)}
           first == [nodes |-> <<query.goal>>, edges |-> <<>>]
           Next1(r) == IF Head(r.nodes) = query.start THEN r
                       ELSE [nodes |-> <<parent[Head(r.nodes)][1]>> \o r.nodes,
                             edges |-> <<parent[Head(r.nodes)][2]>> \o r.edges]
           step == [i \in 1..c |-> [r \in D |-> Next1(r)]]
           Back(b) == b = [n \in 0..c |->
                             IF n = 0 THEN [nodes |-> <<query.goal>>, edges |-> <<>>]
                             ELSE LET r == b[n - 1]
                                      hop == parent[Head(r.nodes)]
                                  IN  IF Head(r.nodes) = query.start THEN r
                                      ELSE [nodes |-> <<hop[1]>> \o r.nodes,
                                            edges |-> <<hop[2]>> \o r.edges]]
           back == CHOOSE b : Back(b)
<1>1. c \in Nat
  <2>1. IsFiniteSet(Nodes)
    BY Asked DEF IsGraph, Nodes
  <2>. QED
    BY <2>1, FS_CardinalityType
<1>2. first \in D
  <2>1. query.goal \in Nodes /\ Labelled(query.goal)
    BY Asked DEF LInv
  <2>2. /\ <<query.goal>> \in Seq(Nodes) /\ Len(<<query.goal>>) = 1
        /\ <<query.goal>>[1] = query.goal
    BY <2>1, OneElement
  <2>3. <<>> \in Seq(EdgeIds(query.graph)) /\ Len(<<>>) = 0
    OBVIOUS
  <2>4. Traced(first)
    BY <2>1, <2>2, <2>3 DEF Traced, Pieces
  <2>. QED
    BY <2>4 DEF Traced
<1>3. ASSUME NEW r \in D
      PROVE  /\ Next1(r) \in D
             /\ Head(r.nodes) = r.nodes[1] /\ Len(r.nodes) \in Nat \ {0}
             /\ Head(r.nodes) # query.start => Len(Next1(r).nodes) = Len(r.nodes) + 1
             /\ Head(r.nodes) = query.start => Next1(r) = r
  <2>1. Traced(r)
    OBVIOUS
  <2>2. r.nodes \in Seq(Nodes) /\ Len(r.nodes) \in Nat \ {0}
    BY <2>1, TracedIs
  <2>3. Head(r.nodes) = r.nodes[1]
    BY <2>2
  <2>4. ASSUME Head(r.nodes) # query.start
        PROVE  Traced(Next1(r)) /\ Len(Next1(r).nodes) = Len(r.nodes) + 1
    BY <2>1, <2>4, TracedBack
  <2>5. Traced(Next1(r)) => Next1(r) \in D
    BY DEF Traced
  <2> HIDE DEF Next1
  <2>6. Head(r.nodes) = query.start => Next1(r) = r
    BY DEF Next1
  <2>. QED
    BY <2>1, <2>2, <2>3, <2>4, <2>5, <2>6
<1> HIDE DEF D, Next1, first
<1>4. step \in [1..c -> [D -> D]]
  BY <1>3
<1>5. PICK f : Recurs(f, c, D, first, step)
  <2> HIDE DEF c, step
  <2>1. \E f : Recurs(f, c, D, first, step)
    BY <1>1, <1>2, <1>4, Recursion
  <2>. QED
    BY <2>1
<1>6. /\ f \in [0..c -> D] /\ f[0] = first
      /\ \A i \in 1..c : f[i] = Next1(f[i - 1]) /\ f[i - 1] \in D
  <2>1. f \in [0..c -> D] /\ f[0] = first /\ \A i \in 1..c : f[i] = step[i][f[i - 1]]
    BY <1>5 DEF Recurs
  <2>2. \A i \in 1..c : i - 1 \in 0..c
    BY <1>1
  <2>. QED
    BY <2>1, <2>2
<1> HIDE DEF c, step
<1>7. Back(f)
  <2>1. \A n \in 0..c : n # 0 => n \in 1..c
    BY <1>1
  <2>2. \A n \in 0..c : f[n] = IF n = 0 THEN [nodes |-> <<query.goal>>, edges |-> <<>>]
                               ELSE Next1(f[n - 1])
    BY <1>6, <2>1 DEF first
  <2>. QED
    BY <1>6, <2>2 DEF Next1
<1>8. Back(back)
  BY <1>7
<1>9. Reconstructed = [found |-> TRUE, nodes |-> back[c].nodes, edges |-> back[c].edges]
  BY DEF Reconstructed, c, Nodes
<1> HIDE DEF back
<1>10. /\ back[0] = first
       /\ \A i \in 1..c : back[i] = Next1(back[i - 1])
  <2>1. \A n \in 1..c : n \in 0..c /\ n # 0
    BY <1>1
  <2>2. 0 \in 0..c
    BY <1>1
  <2>3. \A n \in 0..c : back[n] = IF n = 0 THEN [nodes |-> <<query.goal>>, edges |-> <<>>]
                                  ELSE Next1(back[n - 1])
    BY <1>8 DEF Next1
  <2>. QED
    BY <2>1, <2>2, <2>3 DEF first
<1> DEFINE T == {k \in Nat : k <= c =>
                   /\ back[k] \in D
                   /\ back[k].nodes[1] = query.start \/ Len(back[k].nodes) = k + 1}
<1>11. 0 \in T
  <2>1. first.nodes = <<query.goal>> /\ Len(<<query.goal>>) = 0 + 1
    BY OneElement DEF first
  <2>. QED
    BY <1>2, <1>10, <2>1
<1>12. ASSUME NEW k \in Nat, k \in T PROVE k + 1 \in T
  <2> SUFFICES ASSUME k + 1 <= c
               PROVE  /\ back[k + 1] \in D
                      /\ \/ back[k + 1].nodes[1] = query.start
                         \/ Len(back[k + 1].nodes) = (k + 1) + 1
    OBVIOUS
  <2> DEFINE r == back[k]
  <2>1. k + 1 \in 1..c /\ (k + 1) - 1 = k /\ k <= c
    BY <1>1
  <2>2. r \in D /\ (r.nodes[1] = query.start \/ Len(r.nodes) = k + 1)
    BY <1>12, <2>1
  <2>3. back[k + 1] = Next1(r)
    BY <1>10, <2>1
  <2> HIDE DEF r
  <2>4. /\ Next1(r) \in D /\ Head(r.nodes) = r.nodes[1]
        /\ Head(r.nodes) # query.start => Len(Next1(r).nodes) = Len(r.nodes) + 1
        /\ Head(r.nodes) = query.start => Next1(r) = r
    BY <1>3, <2>2
  <2>. QED
    BY <2>2, <2>3, <2>4
<1>13. Nat \subseteq T
  <2> HIDE DEF T
  <2>. QED
    BY <1>11, <1>12, Ind
<1>14. back[c] \in D /\ (back[c].nodes[1] = query.start \/ Len(back[c].nodes) = c + 1)
  <2>1. c \in T
    BY <1>1, <1>13
  <2>. QED
    BY <1>1, <2>1
<1> DEFINE r == back[c]
<1>15. Traced(r)
  BY <1>14 DEF D
<1>16. Len(r.nodes) \in Nat /\ Len(r.nodes) <= c
  BY <1>15, TracedIs DEF c
<1>17. r.nodes[1] = query.start
  BY <1>1, <1>14, <1>16
<1>. QED
  BY <1>9, <1>15, <1>17

-----------------------------------------------------------------------------
(* Derivations.  D[v] are the nodes on the way over which v got its label. *)

\* The label of v is one that is still to be expanded.
Current(v) == Labelled(v) /\ Entry(v, g[v]) \in open

\* The key of v's entry in the open list.
Key(v) == g[v] + query.h[v]

\* What D says of the labels.  The fourth conjunct: labels open before a node
\* that has been expanded agree whether they were got over it.
Derived(D) ==
    /\ D \in [Nodes -> SUBSET Nodes]
    /\ \A x \in Nodes : Labelled(x) =>
         /\ x \in D[x] /\ \A v \in D[x] : v = x \/ g[v] < g[x]
         /\ x # query.start =>
              /\ parent[x][1] \in D[x]
              /\ g[x] = g[parent[x][1]] + query.graph.cost[parent[x][2]] =>
                   D[parent[x][1]] \subseteq D[x]
    /\ \A x \in Nodes : Current(x) =>
         \A v \in D[x] : v # x /\ Current(v) => Key(v) < Key(x)
    /\ \A x, y, v \in Nodes :
         /\ Current(x) /\ Key(x) < Key(v) /\ Current(y) /\ Key(y) < Key(v)
         /\ Labelled(v) /\ ~Current(v) /\ v # query.goal
         => (v \in D[x] <=> v \in D[y])
    /\ phase = "reached" => \A v \in D[query.goal] : v # query.goal => ~Current(v)

\* Every label was got over some way: that way need not be the parents'.
DInv == \E D : Derived(D)

\* In the beginning only the start is labelled, over no other node.
LEMMA InitIsDerived ==
    ASSUME Init
    PROVE  DInv
<1>1. TypeInv /\ LInv
  BY InitIsSound
<1> DEFINE D == [v \in Nodes |-> {v}]
<1>2. \A v \in Nodes : Labelled(v) => v = query.start
  <2>1. g = [v \in Nodes |-> IF v = query.start THEN 0 ELSE Infinity(query.graph)]
    BY DEF Init, Nodes
  <2>2. Infinity(query.graph) \in Nat
    BY <1>1, Asked
  <2>. QED
    BY <2>1, <2>2 DEF Labelled
<1>3. D \in [Nodes -> SUBSET Nodes]
  OBVIOUS
<1>4. \A v \in Nodes : D[v] = {v}
  OBVIOUS
<1>5. \A x \in Nodes : Current(x) => x = query.start
  BY <1>2 DEF Current
<1>6. query.goal \in Nodes
  BY <1>1, Asked
<1> HIDE DEF D
<1>7. Derived(D)
  BY <1>2, <1>3, <1>4, <1>5, <1>6 DEF Derived
<1>. QED
  BY <1>7 DEF DInv

\* The first entry of all is a current one, or is dropped.
LEMMA TopIsLeast ==
    ASSUME TypeInv, LInv, NEW e \in open, IsTop(e), NEW x \in Nodes, Current(x)
    PROVE  e.g = g[e.node] => Key(e.node) <= Key(x)
<1>1. e \in pushed /\ e.f \in Nat /\ e.g \in Nat /\ e.node \in Nodes
  BY Asked
<1>2. e.f = e.g + query.h[e.node]
  BY <1>1 DEF LInv
<1>3. g[x] \in Nat /\ query.h[x] \in Nat
  BY Asked
<1>4. Entry(x, g[x]).f = Key(x) /\ Entry(x, g[x]) \in open /\ Key(x) \in Nat
  BY <1>3, EntryIs DEF Current, Key
<1>5. Entry(x, g[x]) = e \/ e.f <= Entry(x, g[x]).f
  <2> DEFINE o == Entry(x, g[x])
  <2>1. o \in open /\ o.f \in Nat
    BY <1>4
  <2> HIDE DEF o
  <2>2. o = e \/ LessPromising(o, e)
    BY <2>1 DEF IsTop
  <2>3. o = e \/ e.f <= o.f
    BY <1>1, <2>1, <2>2 DEF LessPromising
  <2>. QED
    BY <2>3 DEF o
<1>. QED
  BY <1>1, <1>2, <1>4, <1>5 DEF Key

\* Steps that expand nothing change no derivation.
LEMMA QuietIsDerived ==
    ASSUME TypeInv, LInv, DInv,
           \/ \E e \in open : Discard(e) \/ Reach(e)
           \/ Exhaust
           \/ UNCHANGED vars
    PROVE  DInv'
<1>1. PICK D : Derived(D)
  BY DEF DInv
<1>2. /\ query' = query /\ g' = g /\ parent' = parent /\ open' \subseteq open
      /\ \A v \in Nodes : v # query.goal /\ Entry(v, g[v]) \in open => Entry(v, g[v]) \in open'
  BY QuietSteps
<1>3. /\ Nodes' = Nodes
      /\ \A v : Labelled(v)' <=> Labelled(v)
      /\ \A v : Key(v)' = Key(v)
      /\ \A v : Entry(v, g[v])' = Entry(v, g[v])
  BY <1>2 DEF Nodes, Labelled, Key, Entry
<1>4. /\ \A v \in Nodes : Current(v)' => Current(v)
      /\ \A v \in Nodes : v # query.goal => (Current(v)' <=> Current(v))
  BY <1>2, <1>3 DEF Current
<1>5. phase' = "reached" => \A v \in D[query.goal] : v # query.goal => ~Current(v)'
  <2> SUFFICES ASSUME phase' = "reached",
                      NEW v \in D[query.goal], v # query.goal, Current(v)'
               PROVE  FALSE
    OBVIOUS
  <2>1. v \in Nodes /\ query.goal \in Nodes /\ Current(v)
    BY <1>1, <1>4, Asked DEF Derived
  <2>2. CASE phase = "reached"
    BY <1>1, <2>1, <2>2 DEF Derived
  <2>3. CASE phase # "reached"
    <3>1. PICK e \in open : Reach(e)
      BY <2>3 DEF Discard, Exhaust, vars
    <3>2. IsTop(e) /\ ~IsOutdated(e) /\ e.node = query.goal
      BY <3>1 DEF Reach
    <3>3. e.g = g[e.node] /\ e = Entry(e.node, g[e.node]) /\ Labelled(e.node)
      <4>1. e \in pushed /\ e.g \in Nat /\ e.node \in Nodes /\ g[e.node] \in Nat
        BY Asked
      <4>2. g[e.node] <= e.g /\ e.f = e.g + query.h[e.node] /\ e.g < Infinity(query.graph)
        BY <4>1 DEF LInv
      <4>3. e.g = g[e.node]
        BY <3>2, <4>1, <4>2 DEF IsOutdated
      <4>4. e \in [f : Nat, g : Nat, node : Nodes]
        BY <4>1 DEF TypeInv, Entries
      <4>. QED
        BY <4>2, <4>3, <4>4 DEF Entry, Labelled
    <3>4. Current(query.goal)
      BY <3>2, <3>3 DEF Current
    <3>5. Key(v) < Key(query.goal)
      BY <1>1, <2>1, <3>4 DEF Derived
    <3>6. Key(query.goal) <= Key(v)
      BY <2>1, <3>2, <3>3, TopIsLeast
    <3>7. Key(v) \in Nat /\ Key(query.goal) \in Nat
      BY <2>1, Asked DEF Key
    <3>. QED
      BY <3>5, <3>6, <3>7
  <2>. QED
    BY <2>2, <2>3
<1>6. Derived(D)'
  <2>1. \A x \in Nodes : Current(x) =>
          \A v \in D[x] : v # x /\ Current(v) => Key(v) < Key(x)
    BY <1>1 DEF Derived
  <2>2. \A x, y, v \in Nodes :
         /\ Current(x) /\ Key(x) < Key(v) /\ Current(y) /\ Key(y) < Key(v)
         /\ Labelled(v) /\ ~Current(v) /\ v # query.goal
         => (v \in D[x] <=> v \in D[y])
    BY <1>1 DEF Derived
  <2>3. D \in [Nodes -> SUBSET Nodes]
    BY <1>1 DEF Derived
  <2>4. \A x \in Nodes : Current(x)' =>
          \A v \in D[x] : v # x /\ Current(v)' => Key(v)' < Key(x)'
    BY <1>3, <1>4, <2>1, <2>3
  <2>5. \A x, y, v \in Nodes :
         /\ Current(x)' /\ Key(x)' < Key(v)' /\ Current(y)' /\ Key(y)' < Key(v)'
         /\ Labelled(v)' /\ ~Current(v)' /\ v # query'.goal
         => (v \in D[x] <=> v \in D[y])
    BY <1>2, <1>3, <1>4, <2>2
  <2>6. \A x \in Nodes : Labelled(x)' =>
         /\ x \in D[x] /\ \A v \in D[x] : v = x \/ g'[v] < g'[x]
         /\ x # query'.start =>
              /\ parent'[x][1] \in D[x]
              /\ g'[x] = g'[parent'[x][1]] + query'.graph.cost[parent'[x][2]] =>
                   D[parent'[x][1]] \subseteq D[x]
    BY <1>1, <1>2, <1>3 DEF Derived
  <2>. QED
    BY <1>2, <1>3, <1>5, <2>3, <2>4, <2>5, <2>6 DEF Derived
<1>. QED
  BY <1>6 DEF DInv

\* What is current after an expansion: all that was found, nothing that was
\* expanded, and what was current before.
LEMMA CurrentAfterExpansion ==
    ASSUME TypeInv, LInv, NEW e, Expanded(e)
    PROVE  /\ Current(e.node) /\ ~Current(e.node)'
           /\ \A v \in Nodes : Current(v) => Key(e.node) <= Key(v)
           /\ \A v \in Nodes : g'[v] < g[v] => Current(v)' /\ Labelled(v)'
           /\ \A v \in Nodes : /\ g'[v] = g[v] /\ v # e.node
                               => (Current(v)' <=> Current(v))
           /\ \A v \in Nodes : g'[v] = g[v] => (Labelled(v)' <=> Labelled(v))
           /\ \A v \in Nodes : g'[v] = g[v] \/ g'[v] < g[v]
           /\ g'[e.node] = g[e.node]
           /\ \A v \in Nodes : Key(v)' = g'[v] + query.h[v]
<1>1. /\ e \in open /\ IsTop(e) /\ e.g = g[e.node] /\ query' = query
      /\ \A v \in Nodes : Kept(e, v) \/ \E a : Gained(e, v, a)
      /\ open \ {e} \subseteq open' /\ e \notin open'
      /\ \A o \in open' : o \in open
                          \/ \E v, a : v \in Nodes /\ Gained(e, v, a) /\ o = Entry(v, g'[v])
  BY DEF Expanded
<1>2. /\ e.node \in Nodes /\ e = Entry(e.node, g[e.node]) /\ e.g < Infinity(query.graph)
      /\ Kept(e, e.node)
      /\ \A v \in Nodes : g'[v] <= g[v] /\ g'[v] \in Nat
      /\ \A v, a : Gained(e, v, a) => Labelled(v)'
  BY ExpandedLabels
<1>3. Current(e.node)
  <2>1. Labelled(e.node)
    BY <1>1, <1>2 DEF Labelled
  <2>. QED
    BY <1>1, <1>2, <2>1 DEF Current
<1>4. g'[e.node] = g[e.node]
  BY <1>2 DEF Kept
<1>5. ~Current(e.node)'
  <2>1. Entry(e.node, g'[e.node]) = e
    BY <1>2, <1>4
  <2>. QED
    BY <1>1, <2>1 DEF Current, Entry
<1>6. \A v \in Nodes : Current(v) => Key(e.node) <= Key(v)
  BY <1>1, TopIsLeast
<1>7. \A v \in Nodes : g[v] \in Nat /\ (g'[v] = g[v] \/ g'[v] < g[v])
  BY <1>2, Asked
<1>8. ASSUME NEW v \in Nodes, g'[v] < g[v] PROVE Current(v)' /\ Labelled(v)'
  <2>1. ~Kept(e, v)
    BY <1>7, <1>8 DEF Kept
  <2>2. PICK a : Gained(e, v, a)
    BY <1>1, <2>1
  <2>3. Entry(v, g'[v]) \in open' /\ Labelled(v)'
    BY <1>2, <2>2 DEF Gained
  <2>. QED
    BY <1>1, <2>3 DEF Current, Entry
<1>9. ASSUME NEW v \in Nodes, g'[v] = g[v] PROVE Labelled(v)' <=> Labelled(v)
  BY <1>1, <1>9 DEF Labelled
<1>10. ASSUME NEW v \in Nodes, g'[v] = g[v], v # e.node PROVE Current(v)' <=> Current(v)
  <2> DEFINE o == Entry(v, g[v])
  <2>1. Entry(v, g[v])' = o
    BY <1>1, <1>10 DEF Entry
  <2>2. o.node = v
    BY <1>7, EntryIs
  <2> HIDE DEF o
  <2>3. o \in open => o \in open'
    BY <1>1, <1>10, <2>2
  <2>4. ASSUME o \in open' PROVE o \in open
    <3>1. SUFFICES ASSUME NEW w \in Nodes, NEW a, Gained(e, w, a), o = Entry(w, g'[w])
                   PROVE  FALSE
      BY <1>1, <2>4
    <3>2. Entry(w, g'[w]).node = w
      BY <1>2, EntryIs
    <3>3. w = v
      BY <2>2, <3>1, <3>2
    <3>. QED
      BY <1>7, <1>10, <3>1, <3>3 DEF Gained
  <2>. QED
    BY <1>9, <1>10, <2>1, <2>3, <2>4 DEF Current, o
<1>11. \A v \in Nodes : Key(v)' = g'[v] + query.h[v]
  BY <1>1 DEF Key
<1>. QED
  BY <1>3, <1>4, <1>5, <1>6, <1>7, <1>8, <1>9, <1>10, <1>11

\* An expansion takes the derivation of the node expanded further.
LEMMA ExpansionIsDerived ==
    ASSUME TypeInv, LInv, DInv, NEW e, Expanded(e)
    PROVE  DInv'
<1>1. PICK D : Derived(D)
  BY DEF DInv
<1> DEFINE u == e.node
           E == [v \in Nodes |-> IF g'[v] < g[v] THEN D[u] \cup {v} ELSE D[v]]
           Old(x) == IF g'[x] < g[x] THEN u ELSE x
<1>2. /\ query' = query /\ Nodes' = Nodes /\ u \in Nodes /\ phase' = "searching"
      /\ phase = "searching" /\ u # query.goal /\ e.g = g[u]
  BY ExpandedLabels DEF Expanded
<1>3. /\ Current(u) /\ ~Current(u)'
      /\ \A v \in Nodes : Current(v) => Key(u) <= Key(v)
      /\ \A v \in Nodes : g'[v] < g[v] => Current(v)' /\ Labelled(v)'
      /\ \A v \in Nodes : g'[v] = g[v] /\ v # u => (Current(v)' <=> Current(v))
      /\ \A v \in Nodes : g'[v] = g[v] => (Labelled(v)' <=> Labelled(v))
      /\ \A v \in Nodes : g'[v] = g[v] \/ g'[v] < g[v]
      /\ g'[u] = g[u]
      /\ \A v \in Nodes : Key(v)' = g'[v] + query.h[v]
  BY CurrentAfterExpansion
<1>4. \A v \in Nodes : /\ g[v] \in Nat /\ g'[v] \in Nat /\ query.h[v] \in Nat
                       /\ Key(v) = g[v] + query.h[v]
  BY ExpandedLabels, Asked DEF Key
<1>5. Labelled(u)
  BY <1>3 DEF Current
<1>6. ASSUME NEW v \in Nodes, g'[v] < g[v]
      PROVE  /\ \E a : Gained(e, v, a)
             /\ g'[v] > g[u] /\ v # u /\ v \notin D[u]
  <2>1. ~Kept(e, v)
    BY <1>4, <1>6 DEF Kept
  <2>2. PICK a : Gained(e, v, a)
    BY <2>1 DEF Expanded
  <2>3. g'[v] > g[u]
    BY <1>2, <2>2, ExpandedLabels
  <2>4. v # u
    BY <1>2, <1>3, <1>4, <1>6
  <2>5. v \notin D[u]
    <3>1. v \in D[u] => v = u \/ g[v] < g[u]
      BY <1>1, <1>2, <1>5 DEF Derived
    <3>. QED
      BY <1>2, <1>4, <1>6, <2>3, <2>4, <3>1
  <2>. QED
    BY <2>2, <2>3, <2>4, <2>5
<1>7. /\ D \in [Nodes -> SUBSET Nodes]
      /\ \A x \in Nodes : Labelled(x) =>
           /\ x \in D[x] /\ \A v \in D[x] : v = x \/ g[v] < g[x]
           /\ x # query.start =>
                /\ parent[x][1] \in D[x]
                /\ g[x] = g[parent[x][1]] + query.graph.cost[parent[x][2]] =>
                     D[parent[x][1]] \subseteq D[x]
  BY <1>1 DEF Derived
<1>8. \A x \in Nodes : Current(x) =>
         \A v \in D[x] : v # x /\ Current(v) => Key(v) < Key(x)
  BY <1>1 DEF Derived
<1>9. \A x, y, v \in Nodes :
         /\ Current(x) /\ Key(x) < Key(v) /\ Current(y) /\ Key(y) < Key(v)
         /\ Labelled(v) /\ ~Current(v) /\ v # query.goal
         => (v \in D[x] <=> v \in D[y])
  BY <1>1 DEF Derived
<1>10. /\ E \in [Nodes -> SUBSET Nodes]
       /\ \A v \in Nodes : g'[v] < g[v] => E[v] = D[u] \cup {v}
       /\ \A v \in Nodes : g'[v] = g[v] => E[v] = D[v]
  <2>1. \A v \in Nodes : g'[v] = g[v] => ~(g'[v] < g[v])
    BY <1>4
  <2>. QED
    BY <1>2, <1>7, <2>1
<1> HIDE DEF u, E
<1>11. ASSUME NEW x \in Nodes, Labelled(x)'
       PROVE  /\ x \in E[x] /\ \A v \in E[x] : v = x \/ g'[v] < g'[x]
              /\ x # query.start =>
                   /\ parent'[x][1] \in E[x]
                   /\ g'[x] = g'[parent'[x][1]] + query.graph.cost[parent'[x][2]] =>
                        E[parent'[x][1]] \subseteq E[x]
  <2>1. CASE g'[x] < g[x]
    <3>1. PICK a : Gained(e, x, a)
      BY <1>6, <2>1
    <3>2. parent'[x] = <<u, a>>
      BY <3>1 DEF Gained, u
    <3>3. E[x] = D[u] \cup {x} /\ E[u] = D[u] /\ u \in D[u]
      BY <1>2, <1>3, <1>5, <1>7, <1>10, <2>1
    <3>4. ASSUME NEW v \in D[u] PROVE g'[v] < g'[x]
      <4>1. v \in Nodes /\ (v = u \/ g[v] < g[u])
        BY <1>2, <1>5, <1>7
      <4>2. g'[x] > g[u]
        BY <1>6, <2>1
      <4>3. g'[v] = g[v] \/ g'[v] < g[v]
        BY <1>3, <4>1
      <4>4. g'[v] \in Nat /\ g[v] \in Nat /\ g[u] \in Nat /\ g'[x] \in Nat
        BY <1>2, <1>4, <4>1
      <4>. QED
        BY <4>1, <4>2, <4>3, <4>4
    <3>5. parent'[x][1] = u
      BY <3>2
    <3>. QED
      BY <3>3, <3>4, <3>5
  <2>2. CASE g'[x] = g[x]
    <3>1. E[x] = D[x] /\ Labelled(x)
      BY <1>3, <1>10, <1>11, <2>2
    <3>2. parent'[x] = parent[x]
      <4>1. ~(\E a : Gained(e, x, a))
        BY <1>4, <2>2 DEF Gained
      <4>. QED
        BY <4>1 DEF Kept, Expanded
    <3>3. ASSUME NEW v \in D[x], v # x PROVE g'[v] < g'[x]
      <4>1. v \in Nodes /\ g[v] < g[x]
        BY <1>7, <3>1, <3>3
      <4>2. (g'[v] = g[v] \/ g'[v] < g[v]) /\ g'[v] \in Nat /\ g[v] \in Nat /\ g[x] \in Nat
        BY <1>3, <1>4, <4>1
      <4>. QED
        BY <2>2, <4>1, <4>2
    <3>4. ASSUME x # query.start,
                 g'[x] = g'[parent[x][1]] + query.graph.cost[parent[x][2]]
          PROVE  E[parent[x][1]] \subseteq E[x]
      <4> DEFINE w == parent[x][1]
                 c == query.graph.cost[parent[x][2]]
      <4>1. w \in Nodes /\ c \in Nat /\ g[x] >= g[w] + c
        BY <3>1, <3>4, ParentIs
      <4>2. g[x] = g[w] + c => D[w] \subseteq D[x]
        BY <1>7, <3>1, <3>4
      <4>3. g'[x] = g'[w] + c
        BY <3>4
      <4> HIDE DEF w, c
      <4>4. g'[w] = g[w]
        <5>1. g'[w] \in Nat /\ g[w] \in Nat /\ (g'[w] = g[w] \/ g'[w] < g[w]) /\ g[x] \in Nat
          BY <1>3, <1>4, <4>1
        <5>. QED
          BY <2>2, <4>1, <4>3, <5>1
      <4>5. E[w] = D[w]
        BY <1>10, <4>1, <4>4
      <4>. QED
        BY <2>2, <3>1, <4>2, <4>3, <4>4, <4>5 DEF w
    <3>. QED
      BY <1>7, <3>1, <3>2, <3>3, <3>4
  <2>. QED
    BY <1>3, <2>1, <2>2
<1>12. ASSUME NEW x \in Nodes, Current(x)', NEW v \in E[x], v # x, Current(v)'
       PROVE  g'[v] + query.h[v] < g'[x] + query.h[x]
  <2>1. v \in Nodes /\ v # u
    BY <1>3, <1>10, <1>12
  <2>2. CASE g'[x] < g[x]
    <3>1. v \in D[u] /\ ~(g'[v] < g[v])
      BY <1>6, <1>10, <1>12, <2>1, <2>2
    <3>2. g'[v] = g[v] /\ Current(v)
      BY <1>3, <1>12, <2>1, <3>1
    <3>3. Key(v) < Key(u) /\ Key(u) <= Key(v)
      BY <1>2, <1>3, <1>8, <2>1, <3>1, <3>2
    <3>4. Key(v) \in Nat /\ Key(u) \in Nat
      BY <1>2, <1>4, <2>1
    <3>. QED
      BY <3>3, <3>4
  <2>3. CASE g'[x] = g[x]
    <3>1. v \in D[x] /\ x # u /\ Current(x)
      BY <1>3, <1>10, <1>12, <2>3
    <3>2. CASE g'[v] = g[v]
      <4>1. Current(v)
        BY <1>3, <1>12, <2>1, <3>2
      <4>2. Key(v) < Key(x)
        BY <1>8, <1>12, <3>1, <4>1
      <4>. QED
        BY <1>4, <2>1, <2>3, <3>2, <4>2
    <3>3. CASE g'[v] < g[v]
      <4>1. Labelled(v)
        <5>1. g[v] < g[x] /\ g[x] < Infinity(query.graph)
          BY <1>7, <1>12, <3>1 DEF Current, Labelled
        <5>2. g[v] \in Nat /\ g[x] \in Nat /\ Infinity(query.graph) \in Nat
          BY <1>4, <2>1, Asked
        <5>. QED
          BY <5>1, <5>2 DEF Labelled
      <4>2. Key(v) <= Key(x)
        <5>1. CASE Current(v)
          <6>1. Key(v) < Key(x)
            BY <1>8, <1>12, <3>1, <5>1
          <6>. QED
            BY <1>4, <2>1, <6>1
        <5>2. CASE ~Current(v) /\ v # query.goal
          <6>1. Key(x) < Key(v) => Key(u) < Key(v)
            <7>1. Key(u) <= Key(x) /\ Key(u) \in Nat /\ Key(x) \in Nat /\ Key(v) \in Nat
              BY <1>2, <1>3, <1>4, <2>1, <3>1
            <7>. QED
              BY <7>1
          <6>2. v \notin D[u]
            BY <1>6, <2>1, <3>3
          <6>3. ~(Key(x) < Key(v))
            BY <1>2, <1>3, <1>9, <2>1, <3>1, <4>1, <5>2, <6>1, <6>2
          <6>. QED
            BY <1>4, <2>1, <6>3
        <5>3. CASE v = query.goal
          <6>1. Current(v)
            BY <1>2, <2>1, <4>1, <5>3 DEF LInv, Current
          <6>. QED
            BY <5>1, <6>1
        <5>. QED
          BY <5>1, <5>2, <5>3
      <4>. QED
        BY <1>4, <2>1, <2>3, <3>3, <4>2
    <3>. QED
      BY <1>3, <2>1, <3>2, <3>3
  <2>. QED
    BY <1>3, <2>2, <2>3
<1>13. ASSUME NEW v \in Nodes, Labelled(v)', ~Current(v)'
       PROVE  /\ g'[v] = g[v] /\ Labelled(v)
              /\ v # u => ~Current(v)
  <2>1. g'[v] = g[v]
    BY <1>3, <1>13
  <2>. QED
    BY <1>3, <1>13, <2>1
<1>14. ASSUME NEW x \in Nodes, NEW v \in Nodes, Current(x)', Labelled(v)', ~Current(v)',
              g'[x] + query.h[x] < g'[v] + query.h[v]
       PROVE  /\ v \in E[x] <=> v \in D[Old(x)]
              /\ Old(x) \in Nodes /\ Current(Old(x))
              /\ v = u => Old(x) = u
              /\ g'[x] = g[x] => Key(x) < Key(v)
  <2>1. g'[v] = g[v] /\ v # x
    BY <1>13, <1>14
  <2>2. CASE g'[x] < g[x]
    BY <1>2, <1>3, <1>10, <2>1, <2>2, <1>4
  <2>3. CASE g'[x] = g[x]
    <3>1. Old(x) = x /\ E[x] = D[x] /\ x # u /\ Current(x)
      BY <1>3, <1>4, <1>10, <1>14, <2>3
    <3>2. Key(x) < Key(v)
      BY <1>4, <1>14, <2>1, <2>3
    <3>3. v # u
      <4>1. Key(u) <= Key(x) /\ Key(u) \in Nat /\ Key(x) \in Nat
        BY <1>2, <1>3, <1>4, <3>1
      <4>. QED
        BY <3>2, <4>1
    <3>. QED
      BY <3>1, <3>2, <3>3
  <2>. QED
    BY <1>3, <2>2, <2>3
<1>15. ASSUME NEW x \in Nodes, NEW y \in Nodes, NEW v \in Nodes,
              Current(x)', g'[x] + query.h[x] < g'[v] + query.h[v],
              Current(y)', g'[y] + query.h[y] < g'[v] + query.h[v],
              Labelled(v)', ~Current(v)', v # query.goal
       PROVE  v \in E[x] <=> v \in E[y]
  <2> DEFINE a == Old(x)
             b == Old(y)
  <2>1. /\ v \in E[x] <=> v \in D[a]
        /\ v \in E[y] <=> v \in D[b]
        /\ a \in Nodes /\ Current(a) /\ b \in Nodes /\ Current(b)
        /\ v = u => a = b
        /\ g'[x] = g[x] => Key(x) < Key(v)
        /\ g'[y] = g[y] => Key(y) < Key(v)
    BY <1>14, <1>15
  <2>2. Labelled(v) /\ (v # u => ~Current(v))
    BY <1>13, <1>15
  <2>3. a # b => Key(a) < Key(v) /\ Key(b) < Key(v)
    <3>1. (a = u \/ (a = x /\ g'[x] = g[x])) /\ (b = u \/ (b = y /\ g'[y] = g[y]))
      BY <1>3
    <3>2. Key(u) <= Key(a) /\ Key(u) <= Key(b)
      BY <1>3, <2>1
    <3>3. Key(u) \in Nat /\ Key(a) \in Nat /\ Key(b) \in Nat /\ Key(v) \in Nat
      BY <1>2, <1>4, <2>1
    <3> HIDE DEF a, b
    <3>. QED
      BY <2>1, <3>1, <3>2, <3>3
  <2> HIDE DEF a, b
  <2>4. CASE a = b
    BY <2>1, <2>4
  <2>5. CASE a # b
    BY <1>9, <1>15, <2>1, <2>2, <2>3, <2>5
  <2>. QED
    BY <2>4, <2>5
<1>16. PICK H : H = E
  OBVIOUS
<1>17. Derived(H)'
  <2>1. \A x \in Nodes : Current(x)' =>
          \A v \in H[x] : v # x /\ Current(v)' => Key(v)' < Key(x)'
    <3>1. \A x \in Nodes : \A v \in H[x] : v \in Nodes
      BY <1>10, <1>16
    <3>. QED
      BY <1>3, <1>12, <1>16, <3>1
  <2>2. \A x, y, v \in Nodes :
         /\ Current(x)' /\ Key(x)' < Key(v)' /\ Current(y)' /\ Key(y)' < Key(v)'
         /\ Labelled(v)' /\ ~Current(v)' /\ v # query'.goal
         => (v \in H[x] <=> v \in H[y])
    BY <1>2, <1>3, <1>15, <1>16
  <2>3. H \in [Nodes' -> SUBSET Nodes']
    BY <1>2, <1>10, <1>16
  <2>4. \A x \in Nodes' : Labelled(x)' =>
         /\ x \in H[x] /\ \A v \in H[x] : v = x \/ g'[v] < g'[x]
         /\ x # query'.start =>
              /\ parent'[x][1] \in H[x]
              /\ g'[x] = g'[parent'[x][1]] + query'.graph.cost[parent'[x][2]] =>
                   H[parent'[x][1]] \subseteq H[x]
    BY <1>2, <1>11, <1>16
  <2>5. phase' # "reached"
    BY <1>2
  <2>. QED
    BY <1>2, <2>1, <2>2, <2>3, <2>4, <2>5 DEF Derived
<1>. QED
  BY <1>17 DEF DInv

(* Every label of every search has its derivation.                         *)
THEOREM LabelsAreDerived == Spec => [](TypeInv /\ LInv /\ DInv)
<1>1. Init => TypeInv /\ LInv /\ DInv
  BY InitIsSound, InitIsDerived
<1>2. TypeInv /\ LInv /\ DInv /\ [Next]_vars => TypeInv' /\ LInv' /\ DInv'
  <2> SUFFICES ASSUME TypeInv, LInv, DInv, [Next]_vars PROVE TypeInv' /\ LInv' /\ DInv'
    OBVIOUS
  <2>1. CASE \E e \in open : Expand(e)
    <3>1. PICK e \in open : Expand(e)
      BY <2>1
    <3>2. Expanded(e)
      BY <3>1, Expansion
    <3>. QED
      BY <3>2, ExpansionIsSound, ExpansionIsDerived
  <2>2. CASE \/ \E e \in open : Discard(e) \/ Reach(e)
             \/ Exhaust
             \/ UNCHANGED vars
    BY <2>2, QuietSteps, QuietIsDerived
  <2>. QED
    BY <2>1, <2>2 DEF Next
<1>. QED
  BY <1>1, <1>2, PTL DEF Spec

\* On the way back from the goal no label has been improved since it was used.
LEMMA NoLabelWasOutrun ==
    ASSUME TypeInv, LInv, DInv, phase = "reached", NEW r, Traced(r)
    PROVE  \A i \in 1..(Len(r.nodes) - 1) :
             g[r.nodes[i + 1]] = g[r.nodes[i]] + query.graph.cost[r.edges[i]]
<1>1. PICK D : Derived(D)
  BY DEF DInv
<1> DEFINE n == Len(r.nodes)
           p == r.nodes
           c(i) == query.graph.cost[r.edges[i]]
           Tight(i) == g[p[i + 1]] = g[p[i]] + c(i)
           T == {k \in Nat : k + 1 <= n =>
                   /\ D[p[n - k]] \subseteq D[query.goal]
                   /\ k >= 1 => Tight(n - k)}
<1>2. /\ n \in Nat \ {0} /\ p[n] = query.goal
      /\ \A i \in 1..n : Labelled(p[i])
      /\ \A i \in 1..(n - 1) : p[i + 1] # query.start /\ parent[p[i + 1]] = <<p[i], r.edges[i]>>
  BY TracedIs DEF Traced
<1>3. /\ \A i \in 1..n : p[i] \in Nodes /\ g[p[i]] \in Nat
      /\ \A i \in 1..(n - 1) : /\ Hop(r.edges[i], p[i], p[i + 1]) /\ c(i) \in Nat
                               /\ g[p[i + 1]] >= g[p[i]] + c(i)
      /\ \A i, j \in 1..n : p[i] = p[j] => i = j
  BY TracedIs
<1> HIDE DEF n, p
<1>4. ASSUME NEW i \in 1..(n - 1), D[p[i + 1]] \subseteq D[query.goal]
      PROVE  Tight(i) /\ D[p[i]] \subseteq D[query.goal]
  <2>1. i \in 1..n /\ i + 1 \in 1..n /\ n \in 1..n /\ i # n
    BY <1>2
  <2>2. p[i] \in Nodes /\ p[i + 1] \in Nodes /\ p[i] # query.goal
    BY <1>2, <1>3, <2>1
  <2>3. Labelled(p[i]) /\ Labelled(p[i + 1]) /\ p[i + 1] # query.start
    BY <1>2, <2>1
  <2>4. parent[p[i + 1]][1] = p[i] /\ parent[p[i + 1]][2] = r.edges[i]
    BY <1>2
  <2>5. /\ p[i] \in D[p[i + 1]]
        /\ Tight(i) => D[p[i]] \subseteq D[p[i + 1]]
    BY <1>1, <2>2, <2>3, <2>4 DEF Derived
  <2>6. ~Current(p[i])
    BY <1>1, <1>4, <2>2, <2>5 DEF Derived
  <2>7. Relaxed(p[i])
    BY <2>2, <2>3, <2>6 DEF LInv, Current
  <2>8. g[p[i + 1]] <= g[p[i]] + c(i)
    BY <1>3, <2>7 DEF Relaxed
  <2>9. g[p[i + 1]] >= g[p[i]] + c(i) /\ c(i) \in Nat /\ g[p[i]] \in Nat /\ g[p[i + 1]] \in Nat
    BY <1>3, <2>1
  <2>10. Tight(i)
    BY <2>8, <2>9
  <2>. QED
    BY <1>4, <2>5, <2>10
<1> HIDE DEF Tight
<1>5. 0 \in T
  BY <1>2
<1>6. ASSUME NEW k \in Nat, k \in T PROVE k + 1 \in T
  <2> SUFFICES ASSUME (k + 1) + 1 <= n
               PROVE  D[p[n - (k + 1)]] \subseteq D[query.goal] /\ Tight(n - (k + 1))
    OBVIOUS
  <2> DEFINE i == n - (k + 1)
  <2>1. i \in 1..(n - 1) /\ i + 1 = n - k /\ k + 1 <= n
    BY <1>2
  <2>2. D[p[i + 1]] \subseteq D[query.goal]
    BY <1>6, <2>1
  <2> HIDE DEF i
  <2>3. Tight(i) /\ D[p[i]] \subseteq D[query.goal]
    BY <1>4, <2>1, <2>2
  <2>. QED
    BY <2>3 DEF i
<1>7. Nat \subseteq T
  <2> HIDE DEF T
  <2>. QED
    BY <1>5, <1>6, Ind
<1>8. ASSUME NEW i \in 1..(n - 1) PROVE Tight(i)
  <2> DEFINE k == n - i
  <2>1. k \in Nat /\ k >= 1 /\ k + 1 <= n /\ n - k = i
    BY <1>2
  <2>2. k \in T
    BY <1>7, <2>1
  <2>. QED
    BY <2>1, <2>2
<1>. QED
  BY <1>8 DEF Tight, n, p

\* What is read back is a walk, with the edges along it, and its cost is what
\* the goal was labelled with.
LEMMA ResultIsAWalk ==
    ASSUME TypeInv, LInv, DInv, phase = "reached"
    PROVE  /\ IsWalk(query.graph, query.blocked, query.start, query.goal, Result.nodes)
           /\ Result = RouteAlong(query.graph, Result.nodes)
           /\ Cost(query.graph, Result.nodes) = g[query.goal]
           /\ \A i \in 1..Len(Result.nodes) :
                CostTo(query.graph, Result.nodes, i) = g[Result.nodes[i]]
           /\ \E r : Traced(r) /\ r.nodes = Result.nodes
<1> DEFINE G == query.graph
<1>1. PICK r : /\ Traced(r) /\ r.nodes[1] = query.start
               /\ Reconstructed = [found |-> TRUE, nodes |-> r.nodes, edges |-> r.edges]
  BY ReconstructedIs
<1> DEFINE p == r.nodes
           n == Len(r.nodes)
<1>2. Result = [found |-> TRUE, nodes |-> p, edges |-> r.edges] /\ Result.nodes = p
  BY <1>1 DEF Result
<1>3. /\ p \in Seq(Nodes) /\ n \in Nat \ {0}
      /\ r.edges \in Seq(EdgeIds(G)) /\ Len(r.edges) = n - 1
      /\ \A i \in 1..n : p[i] \in Nodes /\ g[p[i]] \in Nat
      /\ \A i \in 1..(n - 1) : /\ Hop(r.edges[i], p[i], p[i + 1])
                               /\ r.edges[i] = EdgeBetween(G, p[i], p[i + 1])
      /\ \A i, j \in 1..n : p[i] = p[j] => i = j
  BY <1>1, TracedIs
<1>4. p[n] = query.goal /\ p[1] = query.start
  BY <1>1 DEF Traced
<1>5. \A i \in 1..(n - 1) : g[p[i + 1]] = g[p[i]] + G.cost[r.edges[i]]
  BY <1>1, NoLabelWasOutrun
<1>6. IsGraph(G) /\ g[query.start] = 0
  BY Asked DEF LInv
<1>7. IsWalk(G, query.blocked, query.start, query.goal, p)
  <2>1. \A i \in 1..(n - 1) : IsHop(G, query.blocked, p[i], p[i + 1])
    BY <1>3, HopIs
  <2>2. p \in Seq(G.nodes) /\ p # <<>>
    BY <1>3 DEF Nodes
  <2>. QED
    BY <1>3, <1>4, <2>1, <2>2 DEF IsWalk, IsPath
<1>8. Result = RouteAlong(G, p)
  <2> DEFINE E == EdgeIds(G)
             ed == r.edges
             m == n - 1
             along == [i \in 1..m |-> EdgeBetween(G, p[i], p[i + 1])]
  <2>1. ed \in Seq(E) /\ Len(ed) = m /\ m \in Nat
    BY <1>3
  <2>2. \A i \in 1..m : ed[i] = EdgeBetween(G, p[i], p[i + 1])
    BY <1>3
  <2>3. RouteAlong(G, p) = [found |-> TRUE, nodes |-> p, edges |-> along]
    BY DEF RouteAlong
  <2> HIDE DEF p, n, m, ed, E
  <2>4. \A i \in 1..m : ed[i] \in E
    BY <2>1
  <2>5. along \in [1..m -> E] /\ \A i \in 1..m : along[i] = ed[i]
    BY <2>2, <2>4
  <2> HIDE DEF along
  <2>6. along \in Seq(E) /\ Len(along) = m
    BY <2>1, <2>5, FunctionIsSequence
  <2>7. ed = along
    BY <2>1, <2>5, <2>6, SeqEqual
  <2>. QED
    BY <1>2, <2>3, <2>7 DEF ed
<1>9. \A i \in 1..n : CostTo(G, p, i) = g[p[i]]
  <2>1. /\ CostTo(G, p, 1) = 0
        /\ \A k \in 1..n : CostTo(G, p, k) \in Nat
        /\ \A k \in 1..(n - 1) : CostTo(G, p, k + 1) = CostTo(G, p, k) + Leg(G, p, k)
    BY <1>6, <1>7, WalkCosts
  <2>2. \A k \in 1..(n - 1) : Leg(G, p, k) = G.cost[r.edges[k]]
    BY <1>3 DEF Leg
  <2> DEFINE T == {k \in Nat : k + 1 <= n => CostTo(G, p, k + 1) = g[p[k + 1]]}
  <2> HIDE DEF p, n
  <2>3. 0 \in T
    BY <1>4, <1>6, <2>1
  <2>4. ASSUME NEW k \in Nat, k \in T PROVE k + 1 \in T
    <3> SUFFICES ASSUME (k + 1) + 1 <= n
                 PROVE  CostTo(G, p, (k + 1) + 1) = g[p[(k + 1) + 1]]
      OBVIOUS
    <3>1. k + 1 \in 1..(n - 1) /\ k + 1 <= n
      BY <1>3
    <3>2. CostTo(G, p, (k + 1) + 1) = CostTo(G, p, k + 1) + G.cost[r.edges[k + 1]]
      BY <2>1, <2>2, <3>1
    <3>3. g[p[(k + 1) + 1]] = g[p[k + 1]] + G.cost[r.edges[k + 1]]
      BY <1>5, <3>1
    <3>4. CostTo(G, p, k + 1) = g[p[k + 1]]
      BY <2>4, <3>1
    <3>. QED
      BY <3>2, <3>3, <3>4
  <2>5. Nat \subseteq T
    <3> HIDE DEF T
    <3>. QED
      BY <2>3, <2>4, Ind
  <2>6. ASSUME NEW i \in 1..n PROVE CostTo(G, p, i) = g[p[i]]
    <3> DEFINE k == i - 1
    <3>1. k \in Nat /\ k + 1 = i /\ k + 1 <= n
      BY <1>3
    <3>2. k \in T
      <4> HIDE DEF T, k
      <4>. QED
        BY <2>5, <3>1
    <3>. QED
      BY <3>1, <3>2
  <2>. QED
    BY <2>6 DEF p, n
<1>10. Cost(G, p) = g[query.goal]
  <2>1. n \in 1..n
    BY <1>3
  <2>. QED
    BY <1>4, <1>9, <2>1 DEF Cost
<1>. QED
  BY <1>1, <1>2, <1>7, <1>8, <1>9, <1>10

(* What the search returns is a route, and its cost is the sum of its      *)
(* edges -- with any heuristic, though labels may improve after they were  *)
(* used.                                                                   *)
THEOREM ReachedIsARoute == Spec => []ResultIsARoute
<1>1. TypeInv /\ LInv /\ DInv => ResultIsARoute
  <2> SUFFICES ASSUME TypeInv, LInv, DInv, phase = "reached"
               PROVE  /\ IsRoute(query.graph, query.blocked, query.start, query.goal, Result)
                      /\ Cost(query.graph, Result.nodes) = g[query.goal]
    BY DEF ResultIsARoute
  <2> DEFINE G == query.graph
             b == query.blocked
             s == query.start
             t == query.goal
             p == Result.nodes
             route == Result
             m == Len(route.edges)
  <2>1. IsWalk(G, b, s, t, p) /\ route = RouteAlong(G, p) /\ Cost(G, p) = g[t] /\ IsGraph(G)
    BY ResultIsAWalk, Asked
  <2> HIDE DEF G, b, s, t, p, route
  <2>2. LET way == RouteAlong(G, p)
        IN  /\ way.found /\ way.nodes = p
            /\ way.nodes \in Seq(G.nodes) /\ way.edges \in Seq(EdgeIds(G))
            /\ Len(way.edges) \in Nat /\ Len(way.nodes) = Len(way.edges) + 1
            /\ way.nodes[1] = s /\ way.nodes[Len(way.nodes)] = t
            /\ \A i \in 1..Len(way.edges) :
                 /\ way.edges[i] = EdgeBetween(G, p[i], p[i + 1])
                 /\ way.edges[i] \in EdgeIds(G)
                 /\ Ends(G, way.edges[i]) = {way.nodes[i], way.nodes[i + 1]}
                 /\ TraversableFrom(G, b, way.edges[i], way.nodes[i])
    BY <2>1, RouteAlongAWalk
  <2>3. /\ route.edges \in Seq(EdgeIds(G)) /\ m \in Nat /\ Len(route.nodes) = m + 1
        /\ route.nodes[1] = s /\ route.nodes[Len(route.nodes)] = t
        /\ \A i \in 1..m :
             /\ Ends(G, route.edges[i]) = {route.nodes[i], route.nodes[i + 1]}
             /\ TraversableFrom(G, b, route.edges[i], route.nodes[i])
    BY <2>1, <2>2
  <2>4. route.nodes # <<>>
    <3>1. route.nodes = p /\ p # <<>>
      BY <2>1, <2>2 DEF IsWalk, IsPath
    <3>. QED
      BY <3>1
  <2>5. DOMAIN route.edges = 1..m
    BY <2>3
  <2>6. m = Len(route.nodes) - 1
    <3> HIDE DEF m
    <3>. QED
      BY <2>3
  <2> HIDE DEF m
  <2>7. IsRoute(G, b, s, t, route)
    <3>1. Len(route.edges) = Len(route.nodes) - 1
      BY <2>6 DEF m
    <3>. QED
      BY <2>3, <2>4, <2>5, <3>1 DEF IsRoute
  <2>. QED
    BY <2>1, <2>7 DEF G, b, s, t, route, p
<1>. QED
  BY <1>1, LabelsAreDerived, PTL

(* The search finds a best route if there is one and estimates are         *)
(* admissible, consistent or not, and never misses that there is one.      *)
THEOREM ReachedIsOptimal == Spec => []ResultIsOptimal
<1>1. TypeInv /\ LInv /\ DInv => ResultIsOptimal
  <2> SUFFICES ASSUME TypeInv, LInv, DInv PROVE ResultIsOptimal
    OBVIOUS
  <2>1. IsGraph(query.graph) /\ query.start \in query.graph.nodes /\ query.goal \in query.graph.nodes
    BY Asked DEF Nodes
  <2>2. \A p : p \in AllWalks <=>
                 IsWalk(query.graph, query.blocked, query.start, query.goal, p)
    BY <2>1, WalksAreWalks DEF AllWalks
  <2>3. phase = "reached" => \E p \in AllWalks : Cost(query.graph, p) = g[query.goal]
    BY <2>2, ResultIsAWalk
  <2>4. phase = "reached" /\ Admissible(query) =>
          \A p \in AllWalks : Cost(query.graph, p) >= g[query.goal]
    BY <2>2, ReachedIsLeast
  <2>. QED
    BY <2>3, <2>4, ExhaustedIsNoWalk DEF ResultIsOptimal
<1>. QED
  BY <1>1, LabelsAreDerived, PTL

\* Cost c at node u comes before cost d at node w.
Before(c, u, d, w) == c < d \/ (c = d /\ u < w)

\* The nodes that were expanded with the best cost found of them.
Settled == {v \in Nodes : Labelled(v) /\ ~Current(v) /\ v # query.goal}

(* Without a heuristic nodes are settled in their order, nearest first, and *)
(* for good, and a node hangs below the first of the nodes settled from     *)
(* which it is reached at its cost.                                         *)
SInv ==
    NoHeuristic =>
        /\ \A v \in Settled, o \in open : Before(g[v], v, o.g, o.node)
        /\ \A v \in Nodes : v # query.start /\ Labelled(v) =>
             /\ parent[v][1] \in Settled
             /\ g[v] = g[parent[v][1]] + query.graph.cost[parent[v][2]]
             /\ \A w, b : /\ w \in Settled /\ Hop(b, w, v)
                          /\ g[w] + query.graph.cost[b] <= g[v]
                          => \/ w = parent[v][1]
                             \/ Before(g[parent[v][1]], parent[v][1], g[w], w)

\* Nothing is settled when the search begins.
LEMMA InitIsSettled == Init => SInv
<1> SUFFICES ASSUME Init PROVE SInv
  OBVIOUS
<1>1. TypeInv /\ LInv
  BY InitIsSound
<1>2. /\ query.start \in Nodes /\ Infinity(query.graph) \in Nat \ {0}
  BY <1>1, Asked
<1>3. \A v \in Nodes : g[v] = IF v = query.start THEN 0 ELSE Infinity(query.graph)
  BY DEF Init, Nodes
<1>4. \A v \in Nodes : Labelled(v) => v = query.start
  BY <1>2, <1>3 DEF Labelled
<1>5. Settled = {}
  <2> SUFFICES ASSUME NEW v \in Settled PROVE FALSE
    OBVIOUS
  <2>1. v \in Nodes /\ Labelled(v) /\ ~Current(v) /\ v # query.goal
    BY DEF Settled
  <2>2. v = query.start
    BY <1>4, <2>1
  <2>3. g[v] = 0 /\ Entry(v, 0) \in open
    BY <1>3, <2>1, <2>2 DEF Init
  <2>. QED
    BY <2>1, <2>3 DEF Current
<1>. QED
  BY <1>4, <1>5 DEF SInv

\* Steps that expand nothing settle nothing.
LEMMA QuietIsSettled ==
    ASSUME TypeInv, LInv, SInv,
           \/ \E e \in open : Discard(e) \/ Reach(e)
           \/ Exhaust
           \/ UNCHANGED vars
    PROVE  SInv'
<1>1. /\ query' = query /\ g' = g /\ parent' = parent /\ open' \subseteq open
      /\ \A v \in Nodes : v # query.goal /\ Entry(v, g[v]) \in open => Entry(v, g[v]) \in open'
  BY QuietSteps
<1>2. /\ NoHeuristic' <=> NoHeuristic
      /\ Nodes' = Nodes
      /\ \A v : Labelled(v)' <=> Labelled(v)
      /\ \A a, u, v : Hop(a, u, v)' <=> Hop(a, u, v)
      /\ \A v : Entry(v, g[v])' = Entry(v, g[v])
  BY <1>1 DEF NoHeuristic, Nodes, Labelled, Hop, Entry
<1>3. Settled' = Settled
  BY <1>1, <1>2 DEF Settled, Current
<1>4. SUFFICES ASSUME NoHeuristic
               PROVE  /\ \A v \in Settled', o \in open' : Before(g[v], v, o.g, o.node)
                      /\ \A v \in Nodes : v # query.start /\ Labelled(v) =>
                           /\ parent[v][1] \in Settled'
                           /\ g[v] = g[parent[v][1]] + query.graph.cost[parent[v][2]]
                           /\ \A w, b : /\ w \in Settled' /\ Hop(b, w, v)
                                        /\ g[w] + query.graph.cost[b] <= g[v]
                                => \/ w = parent[v][1]
                                   \/ Before(g[parent[v][1]], parent[v][1], g[w], w)
  BY <1>1, <1>2 DEF SInv, Before
<1>5. ASSUME NEW v \in Settled', NEW o \in open'
      PROVE  Before(g[v], v, o.g, o.node)
  BY <1>1, <1>3, <1>4, <1>5 DEF SInv
<1>6. ASSUME NEW v \in Nodes, v # query.start, Labelled(v)
      PROVE  /\ parent[v][1] \in Settled'
             /\ g[v] = g[parent[v][1]] + query.graph.cost[parent[v][2]]
             /\ \A w, b : /\ w \in Settled' /\ Hop(b, w, v)
                          /\ g[w] + query.graph.cost[b] <= g[v]
                  => \/ w = parent[v][1]
                     \/ Before(g[parent[v][1]], parent[v][1], g[w], w)
  BY <1>3, <1>4, <1>6 DEF SInv
<1>. QED
  BY <1>5, <1>6

\* An expansion settles its node, and leaves what was settled before alone.
LEMMA SettledByExpansion ==
    ASSUME TypeInv, LInv, SInv, NoHeuristic, NEW e, Expanded(e)
    PROVE  /\ e.node \in Settled' /\ g'[e.node] = e.g
           /\ Settled' = Settled \cup {e.node}
           /\ \A v \in Settled : g'[v] = g[v] /\ Before(g[v], v, e.g, e.node)
           /\ \A o \in open \ {e} : Before(e.g, e.node, o.g, o.node)
<1>1. /\ e \in open /\ e \in pushed /\ e.g \in Nat /\ e.node \in Nodes
      /\ Nodes' = Nodes /\ e.g = g[e.node] /\ e.node # query.goal /\ query' = query
      /\ Labelled(e.node)
  BY ExpandedLabels DEF Expanded, Labelled
<1>2. /\ Current(e.node) /\ ~Current(e.node)'
      /\ \A v \in Nodes : g'[v] < g[v] => Current(v)'
      /\ \A v \in Nodes : g'[v] = g[v] /\ v # e.node => (Current(v)' <=> Current(v))
      /\ \A v \in Nodes : g'[v] = g[v] => (Labelled(v)' <=> Labelled(v))
      /\ \A v \in Nodes : g'[v] = g[v] \/ g'[v] < g[v]
      /\ g'[e.node] = g[e.node]
  BY CurrentAfterExpansion
<1>3. ASSUME NEW v \in Settled
      PROVE  g'[v] = g[v] /\ Before(g[v], v, e.g, e.node)
  <2>1. Before(g[v], v, e.g, e.node) /\ v \in Nodes
    BY <1>1 DEF SInv, Settled
  <2>2. g[v] <= e.g /\ g[v] \in Nat
    BY <1>1, <2>1, Asked DEF Before
  <2>3. ~\E a : Gained(e, v, a)
    <3> SUFFICES ASSUME NEW a, Gained(e, v, a) PROVE FALSE
      OBVIOUS
    <3>1. g'[v] > e.g /\ g'[v] < g[v] /\ g'[v] \in Nat
      BY ExpandedLabels DEF Gained
    <3>. QED
      BY <1>1, <2>2, <3>1
  <2>. QED
    BY <2>1, <2>3 DEF Expanded, Kept
<1>4. e.node \in Settled'
  BY <1>1, <1>2 DEF Settled
<1>5. ASSUME NEW v \in Nodes PROVE v \in Settled' <=> (v \in Settled \/ v = e.node)
  <2>1. v # e.node /\ g'[v] = g[v] => (v \in Settled' <=> v \in Settled)
    BY <1>1, <1>2 DEF Settled
  <2>2. g'[v] < g[v] => v \notin Settled'
    BY <1>2 DEF Settled
  <2>3. v \in Settled => g'[v] = g[v] /\ v # e.node
    BY <1>2, <1>3 DEF Settled
  <2>. QED
    BY <1>2, <1>4, <2>1, <2>2, <2>3
<1>6. ASSUME NEW o \in open \ {e} PROVE Before(e.g, e.node, o.g, o.node)
  <2>1. LessPromising(o, e)
    BY <1>6 DEF Expanded, IsTop
  <2>2. o \in pushed /\ o.g \in Nat /\ o.f \in Nat /\ o.node \in Nodes
    BY <1>6, Asked
  <2>3. o.f = o.g + query.h[o.node] /\ e.f = e.g + query.h[e.node]
    BY <1>1, <2>2 DEF LInv
  <2>4. query.h[o.node] = 0 /\ query.h[e.node] = 0
    BY <1>1, <2>2, Asked DEF NoHeuristic
  <2>5. o.node \in Nat /\ e.node \in Nat
    BY <1>1, <2>2, Asked
  <2>. QED
    BY <1>1, <2>1, <2>2, <2>3, <2>4, <2>5 DEF LessPromising, Before
<1>7. Settled' = Settled \cup {e.node}
  <2>1. Settled \subseteq Nodes /\ Settled' \subseteq Nodes
    BY <1>1 DEF Settled
  <2>. QED
    BY <1>1, <1>5, <2>1
<1>. QED
  BY <1>1, <1>2, <1>3, <1>4, <1>6, <1>7

\* An expansion keeps the order.
LEMMA ExpansionIsSettled ==
    ASSUME TypeInv, LInv, SInv, NEW e, Expanded(e)
    PROVE  SInv'
<1>1. /\ query' = query /\ e \in open /\ e.g \in Nat /\ e.node \in Nodes
      /\ e.g = g[e.node]
      /\ Nodes' = Nodes
      /\ \A a, u, v : Hop(a, u, v)' <=> Hop(a, u, v)
      /\ \A v \in Nodes : g'[v] <= g[v] /\ g'[v] \in Nat
  BY ExpandedLabels DEF Expanded
<1>2. NoHeuristic' <=> NoHeuristic
  BY <1>1 DEF NoHeuristic
<1>3. SUFFICES ASSUME NoHeuristic
               PROVE  /\ \A v \in Settled', o \in open' : Before(g'[v], v, o.g, o.node)
                      /\ \A v \in Nodes : v # query.start /\ Labelled(v)' =>
                           /\ parent'[v][1] \in Settled'
                           /\ g'[v] = g'[parent'[v][1]] + query.graph.cost[parent'[v][2]]
                           /\ \A w, b : /\ w \in Settled' /\ Hop(b, w, v)
                                        /\ g'[w] + query.graph.cost[b] <= g'[v]
                                => \/ w = parent'[v][1]
                                   \/ Before(g'[parent'[v][1]], parent'[v][1], g'[w], w)
  BY <1>1, <1>2 DEF SInv, Before
<1>4. /\ e.node \in Settled' /\ g'[e.node] = e.g
      /\ Settled' = Settled \cup {e.node} /\ Settled \subseteq Nodes
      /\ \A v \in Settled : g'[v] = g[v] /\ Before(g[v], v, e.g, e.node)
      /\ \A o \in open \ {e} : Before(e.g, e.node, o.g, o.node)
  BY <1>3, SettledByExpansion DEF Settled
<1>5. ASSUME NEW v \in Settled', NEW o \in open'
      PROVE  Before(g'[v], v, o.g, o.node)
  <2>1. v = e.node \/ (v \in Settled /\ g'[v] = g[v] /\ Before(g[v], v, e.g, e.node))
    BY <1>4, <1>5
  <2>2. CASE o \in open
    <3>1. o # e
      BY DEF Expanded
    <3>2. v = e.node => Before(g'[v], v, o.g, o.node)
      BY <1>4, <2>2, <3>1
    <3>3. v \in Settled => Before(g[v], v, o.g, o.node)
      BY <1>3, <2>2 DEF SInv
    <3>. QED
      BY <2>1, <3>2, <3>3
  <2>3. CASE o \notin open
    <3>1. PICK x, a : x \in Nodes /\ Gained(e, x, a) /\ o = Entry(x, g'[x])
      BY <2>3 DEF Expanded
    <3>2. g'[x] > e.g /\ g'[x] \in Nat
      BY <1>1, <3>1, ExpandedLabels
    <3>3. o.g = g'[x]
      BY <3>1 DEF Entry
    <3>4. g'[v] <= e.g /\ g'[v] \in Nat
      BY <1>1, <1>4, <2>1 DEF Before
    <3>. QED
      BY <1>1, <3>2, <3>3, <3>4 DEF Before
  <2>. QED
    BY <2>2, <2>3
<1>6. ASSUME NEW v \in Nodes, v # query.start, Labelled(v)'
      PROVE  /\ parent'[v][1] \in Settled'
             /\ g'[v] = g'[parent'[v][1]] + query.graph.cost[parent'[v][2]]
             /\ \A w, b : /\ w \in Settled' /\ Hop(b, w, v)
                          /\ g'[w] + query.graph.cost[b] <= g'[v]
                  => \/ w = parent'[v][1]
                     \/ Before(g'[parent'[v][1]], parent'[v][1], g'[w], w)
  <2>1. CASE Kept(e, v)
    <3> DEFINE u == parent[v][1]
    <3>1. g'[v] = g[v] /\ parent'[v] = parent[v] /\ Labelled(v)
      BY <2>1, <1>1, <1>6 DEF Kept, Labelled
    <3>2. u \in Nodes
      BY <1>6, <3>1, ParentIs
    <3>3. /\ u \in Settled /\ g[v] = g[u] + query.graph.cost[parent[v][2]]
          /\ \A w, b : /\ w \in Settled /\ Hop(b, w, v) /\ g[w] + query.graph.cost[b] <= g[v]
               => w = u \/ Before(g[u], u, g[w], w)
      BY <1>3, <1>6, <3>1 DEF SInv
    <3>4. u \in Settled' /\ g'[u] = g[u] /\ Before(g[u], u, e.g, e.node)
      BY <1>4, <3>2, <3>3
    <3> HIDE DEF u
    <3>5. ASSUME NEW w, NEW b, w \in Settled', Hop(b, w, v),
                 g'[w] + query.graph.cost[b] <= g'[v]
          PROVE  w = u \/ Before(g'[u], u, g'[w], w)
      <4>1. w \in Nodes
        BY <3>5, HopIs
      <4>2. CASE w \in Settled
        <5>1. g'[w] = g[w]
          BY <1>4, <4>1, <4>2
        <5>. QED
          BY <3>1, <3>3, <3>4, <3>5, <4>2, <5>1
      <4>3. CASE w = e.node
        BY <1>4, <3>4, <4>3
      <4>. QED
        BY <1>4, <3>5, <4>1, <4>2, <4>3
    <3>. QED
      BY <3>1, <3>3, <3>4, <3>5 DEF u
  <2>2. ASSUME NEW a, Gained(e, v, a)
        PROVE  /\ parent'[v][1] \in Settled'
               /\ g'[v] = g'[parent'[v][1]] + query.graph.cost[parent'[v][2]]
               /\ \A w, b : /\ w \in Settled' /\ Hop(b, w, v)
                            /\ g'[w] + query.graph.cost[b] <= g'[v]
                    => w = parent'[v][1]
    <3>1. /\ parent'[v] = <<e.node, a>> /\ g'[v] = e.g + query.graph.cost[a] /\ g'[v] < g[v]
      BY <2>2 DEF Gained
    <3>2. parent'[v][1] = e.node /\ parent'[v][2] = a
      BY <3>1
    <3>3. ASSUME NEW w, NEW b, w \in Settled', Hop(b, w, v),
                 g'[w] + query.graph.cost[b] <= g'[v]
          PROVE  w = e.node
      <4>1. w \in Nodes
        BY <3>3, HopIs
      <4>2. SUFFICES ASSUME w \in Settled PROVE FALSE
        BY <1>4, <3>3, <4>1
      <4>3. g'[w] = g[w]
        BY <1>4, <4>1, <4>2
      <4>4. Relaxed(w)
        BY <4>1, <4>2 DEF LInv, Settled, Current
      <4>5. g[v] <= g[w] + query.graph.cost[b]
        BY <3>3, <4>4 DEF Relaxed
      <4>6. /\ query.graph.cost[b] \in Nat /\ g[w] \in Nat /\ g[v] \in Nat /\ g'[v] \in Nat
        BY <1>1, <3>3, <4>1, HopIs, Asked
      <4>. QED
        BY <3>1, <3>3, <4>3, <4>5, <4>6
    <3>. QED
      BY <1>4, <3>1, <3>2, <3>3
  <2>. QED
    BY <2>1, <2>2 DEF Expanded
<1>. QED
  BY <1>5, <1>6

(* Without a heuristic the order of settlement holds throughout.           *)
THEOREM NodesAreSettledInOrder == Spec => [](TypeInv /\ LInv /\ DInv /\ SInv)
<1>1. Init => SInv
  BY InitIsSettled
<1>2. TypeInv /\ LInv /\ SInv /\ [Next]_vars => SInv'
  <2> SUFFICES ASSUME TypeInv, LInv, SInv, [Next]_vars PROVE SInv'
    OBVIOUS
  <2>1. CASE \E e \in open : Expand(e)
    <3>1. PICK e \in open : Expand(e)
      BY <2>1
    <3>2. Expanded(e)
      BY <3>1, Expansion
    <3>. QED
      BY <3>2, ExpansionIsSettled
  <2>2. CASE \/ \E e \in open : Discard(e) \/ Reach(e)
             \/ Exhaust
             \/ UNCHANGED vars
    BY <2>2, QuietIsSettled
  <2>. QED
    BY <2>1, <2>2 DEF Next
<1>. QED
  BY <1>1, <1>2, LabelsAreDerived, PTL DEF Spec

\* No estimate at all is an admissible one.
LEMMA NoHeuristicIsAdmissible ==
    ASSUME TypeInv, NoHeuristic
    PROVE  Admissible(query)
<1> SUFFICES ASSUME NEW v \in query.graph.nodes,
                    NEW p \in Walks(query.graph, query.blocked, v, query.goal)
             PROVE  query.h[v] <= Cost(query.graph, p)
  BY DEF Admissible
<1>1. /\ IsGraph(query.graph) /\ query.goal \in query.graph.nodes /\ query.h[v] = 0
  BY Asked DEF Nodes, NoHeuristic
<1>2. IsWalk(query.graph, query.blocked, v, query.goal, p)
  BY <1>1, WalksAreWalks
<1>3. Cost(query.graph, p) \in Nat
  BY <1>1, <1>2, WalkCosts
<1>. QED
  BY <1>1, <1>3

\* Without a heuristic, when the goal is reached, the nodes of every walk but
\* its last are settled by its cost, as long as it is no more than the goal's.
LEMMA SettledAlong ==
    ASSUME TypeInv, LInv, NoHeuristic, phase = "reached",
           NEW q, IsWalk(query.graph, query.blocked, query.start, query.goal, q),
           Cost(query.graph, q) <= g[query.goal],
           NEW n \in 1..(Len(q) - 1)
    PROVE  q[n] \in Settled /\ g[q[n]] <= CostTo(query.graph, q, n)
<1> DEFINE G == query.graph
<1>1. /\ IsGraph(G) /\ query.goal \in Nodes /\ Infinity(G) \in Nat
      /\ \A v \in Nodes : g[v] \in Nat /\ query.h[v] = 0
      /\ g[query.goal] < Infinity(G) /\ \A o \in open : o.f >= g[query.goal]
  BY Asked DEF LInv, Labelled, NoHeuristic
<1>2. /\ Len(q) \in Nat \ {0} /\ q[Len(q)] = query.goal
      /\ \A i, j \in 1..Len(q) : q[i] = q[j] => i = j
      /\ \A i \in 1..Len(q) : q[i] \in Nodes
  BY DEF IsWalk, IsPath, Nodes
<1>3. ASSUME NEW i \in 1..(Len(q) - 1) PROVE CostTo(G, q, i) \in Nat /\ CostTo(G, q, i) < Cost(G, q)
  <2>1. /\ i \in 1..Len(q) /\ i + 1 \in 1..Len(q)
    BY <1>2
  <2>2. /\ CostTo(G, q, i) \in Nat /\ Leg(G, q, i) \in Nat \ {0}
        /\ CostTo(G, q, i + 1) = CostTo(G, q, i) + Leg(G, q, i)
    BY <1>1, <2>1, WalkCosts
  <2>3. CostTo(G, q, i + 1) <= Cost(G, q) /\ Cost(G, q) \in Nat
    BY <2>1, CostOnTheWay
  <2>. QED
    BY <2>2, <2>3
<1>4. ASSUME NEW i \in 1..(Len(q) - 1), g[q[i]] <= CostTo(G, q, i) PROVE q[i] \in Settled
  <2>1. i \in 1..Len(q) /\ Len(q) \in 1..Len(q) /\ i # Len(q)
    BY <1>2
  <2>2. q[i] \in Nodes /\ q[i] # query.goal
    BY <1>2, <2>1
  <2>3. g[q[i]] < g[query.goal]
    <3>1. Cost(G, q) \in Nat
      BY <2>1, CostOnTheWay
    <3>. QED
      BY <1>1, <1>3, <1>4, <2>2, <3>1
  <2>4. Labelled(q[i])
    BY <1>1, <2>2, <2>3 DEF Labelled
  <2>5. Entry(q[i], g[q[i]]).f = g[q[i]]
    BY <1>1, <2>2, EntryIs
  <2>6. Entry(q[i], g[q[i]]) \notin open
    BY <1>1, <2>2, <2>3, <2>5
  <2>. QED
    BY <2>2, <2>4, <2>6 DEF Settled, Current
<1>5. \A i \in 1..n : g[q[i]] <= CostTo(G, q, i)
  <2>1. n \in 1..Len(q) /\ \A i \in 1..(n - 1) : i \in 1..(Len(q) - 1)
    BY <1>2
  <2>2. \A i \in 1..(n - 1) : g[q[i]] <= CostTo(G, q, i) =>
                 Labelled(q[i]) /\ Entry(q[i], g[q[i]]) \notin open
    BY <1>4, <2>1 DEF Settled, Current
  <2>. QED
    BY <2>1, <2>2, LabelsAlong
<1>6. n \in 1..n
  OBVIOUS
<1>. QED
  BY <1>4, <1>5, <1>6

\* Of the walks as good as the one returned, it is the one ADR-003 prefers.
LEMMA ResultIsPreferred ==
    ASSUME TypeInv, LInv, DInv, SInv, NoHeuristic, phase = "reached",
           NEW q, IsWalk(query.graph, query.blocked, query.start, query.goal, q),
           q # Result.nodes
    PROVE  Preferred(query.graph, Result.nodes, q)
<1> DEFINE G == query.graph
           b == query.blocked
           s == query.start
           t == query.goal
           p == Result.nodes
           cp(i) == CostTo(G, p, i)
           cq(i) == CostTo(G, q, i)
<1>1. PICK r : Traced(r) /\ r.nodes = p
  BY ResultIsAWalk
<1>2. /\ IsGraph(G) /\ s \in G.nodes /\ t \in G.nodes
      /\ IsWalk(G, b, s, t, p) /\ IsWalk(G, b, s, t, q) /\ p # q
      /\ Cost(G, p) = g[t]
      /\ \A i \in 1..Len(p) : cp(i) = g[p[i]]
  BY ResultIsAWalk, Asked DEF Nodes
<1>3. Cost(G, q) >= g[t] /\ Cost(G, q) \in Nat /\ g[t] \in Nat
  <2>1. Admissible(query)
    BY NoHeuristicIsAdmissible
  <2>2. Cost(G, q) \in Nat
    BY <1>2, WalkCosts
  <2>. QED
    BY <2>1, <2>2, ReachedIsLeast, Asked
<1>4. SUFFICES ASSUME Cost(G, q) = g[t] PROVE Preferred(G, p, q)
  BY <1>2, <1>3 DEF Preferred
<1>5. PICK k \in Nat : Part(p, q, k)
  <2> HIDE DEF G, b, s, t, p
  <2>1. IsPath(G, s, t, p) /\ IsPath(G, s, t, q) /\ p # q
    BY <1>2 DEF IsWalk
  <2>. QED
    BY <2>1, DifferentPathsPart
<1> DEFINE u == p[Len(p) - k]
           w == q[Len(q) - k]
           i == Len(p) - k
           j == Len(q) - k
           v == p[i + 1]
<1>6. /\ Len(p) \in Nat \ {0} /\ Len(q) \in Nat \ {0}
      /\ k \in 1..(Len(p) - 1) /\ k < Len(q) /\ u # w
      /\ \A x \in 0..(k - 1) : p[Len(p) - x] = q[Len(q) - x]
  BY <1>2, <1>5 DEF IsWalk, IsPath, Part
<1>7. /\ i \in 1..(Len(p) - 1) /\ i \in 1..Len(p) /\ i + 1 \in 1..Len(p)
      /\ j \in 1..(Len(q) - 1) /\ j \in 1..Len(q) /\ j + 1 \in 1..Len(q)
      /\ i + 1 = Len(p) - (k - 1) /\ j + 1 = Len(q) - (k - 1) /\ k - 1 \in 0..(k - 1)
      /\ k - 1 \in Nat /\ k - 1 < Len(p) /\ k - 1 < Len(q)
  <2> DEFINE m == Len(p)
             n == Len(q)
  <2>1. m \in Nat \ {0} /\ n \in Nat \ {0} /\ k \in 1..(m - 1) /\ k < n
    BY <1>6
  <2> HIDE DEF m, n
  <2>2. /\ m - k \in 1..(m - 1) /\ m - k \in 1..m /\ (m - k) + 1 \in 1..m
        /\ n - k \in 1..(n - 1) /\ n - k \in 1..n /\ (n - k) + 1 \in 1..n
        /\ (m - k) + 1 = m - (k - 1) /\ (n - k) + 1 = n - (k - 1) /\ k - 1 \in 0..(k - 1)
        /\ k - 1 \in Nat /\ k - 1 < m /\ k - 1 < n
    BY <2>1
  <2>. QED
    BY <2>2 DEF m, n
<1>8. v = q[j + 1]
  BY <1>6, <1>7
<1>9. cp(i + 1) = cq(j + 1)
  <2> DEFINE l == k - 1
  <2>1. /\ l \in Nat /\ l < Len(p) /\ l < Len(q)
        /\ \A x \in 0..l : p[Len(p) - x] = q[Len(q) - x]
        /\ Cost(G, p) = Cost(G, q)
    BY <1>2, <1>4, <1>6, <1>7
  <2> HIDE DEF l, G, b, s, t, p
  <2>2. CostTo(G, p, Len(p) - l) = CostTo(G, q, Len(q) - l)
    BY <1>2, <2>1, EqualFromTheGoal
  <2>. QED
    BY <1>7, <2>2 DEF l
<1>10. w \in Settled /\ g[w] <= cq(j)
  <2>1. Cost(G, q) <= g[t]
    BY <1>3, <1>4
  <2>. QED
    BY <1>2, <1>7, <2>1, SettledAlong
<1>11. PICK a : Hop(a, w, v) /\ cq(j + 1) = cq(j) + G.cost[a] /\ G.cost[a] \in Nat
  <2>1. IsHop(G, b, q[j], q[j + 1])
    BY <1>2, <1>7 DEF IsWalk
  <2> DEFINE a == EdgeBetween(G, q[j], q[j + 1])
  <2>2. /\ a \in EdgeIds(G) /\ Ends(G, a) = {q[j], q[j + 1]}
        /\ TraversableFrom(G, b, a, q[j]) /\ G.cost[a] \in Nat \ {0}
    BY <1>2, <2>1, HopHasItsEdge
  <2>3. cq(j + 1) = cq(j) + Leg(G, q, j)
    <3> HIDE DEF G, j
    <3>. QED
      BY <1>2, <1>7, WalkCosts
  <2>4. Leg(G, q, j) = G.cost[a]
    BY DEF Leg
  <2>. QED
    BY <1>8, <2>2, <2>3, <2>4 DEF Hop
<1>12. /\ v \in Nodes /\ v # s /\ Labelled(v) /\ parent[v][1] = u
  <2>1. /\ v \in Nodes
    BY <1>1, <1>7, TracedIs
  <2>2. Len(r.nodes) = Len(r.edges) + 1 /\ Len(r.edges) \in Nat
    BY <1>1, TracedIs DEF Traced
  <2>3. i \in 1..Len(r.edges)
    BY <1>1, <1>7, <2>2
  <2>4. v # s /\ parent[v] = <<u, r.edges[i]>>
    BY <1>1, <2>3 DEF Traced
  <2>5. Labelled(v)
    BY <1>1, <1>7 DEF Traced
  <2>. QED
    BY <2>1, <2>4, <2>5
<1>13. cp(i) = g[u] /\ cp(i + 1) = g[v]
  BY <1>2, <1>7
<1>14. /\ cq(j) \in Nat /\ g[u] \in Nat /\ g[w] \in Nat /\ g[v] \in Nat
       /\ u \in Nat /\ w \in Nat
  <2>1. u \in Nodes /\ w \in Nodes
    BY <1>2, <1>7, CostOnTheWay
  <2>. QED
    BY <1>2, <1>7, <1>12, <2>1, WalkCosts, Asked
<1> HIDE DEF u, v, w, cp, cq
<1>15. Before(g[u], u, g[w], w)
  <2>1. g[w] + G.cost[a] <= g[v]
    BY <1>9, <1>10, <1>11, <1>13, <1>14
  <2>2. w = parent[v][1] \/ Before(g[parent[v][1]], parent[v][1], g[w], w)
    BY <1>10, <1>11, <1>12, <2>1 DEF SInv
  <2>. QED
    BY <1>6, <1>12, <2>2
<1>16. Ahead(G, p, q, k)
  <2>1. cp(i) < cq(j) \/ (cp(i) = cq(j) /\ u < w)
    BY <1>10, <1>13, <1>14, <1>15 DEF Before
  <2>. QED
    BY <2>1 DEF Ahead, cp, cq, u, w
<1>17. SettledFirst(G, p, q)
  <2>1. Cost(G, p) = Cost(G, q)
    BY <1>2, <1>4
  <2> HIDE DEF G, b, s, t, p
  <2>. QED
    BY <1>2, <1>5, <1>16, <2>1, SettledWhereTheyPart
<1>. QED
  BY <1>2, <1>4, <1>17 DEF Preferred

\* What the search returns without a heuristic is the canonical route.
LEMMA ReturnedIsCanonical ==
    ASSUME TypeInv, LInv, DInv, SInv
    PROVE  ResultIsCanonical
<1> SUFFICES ASSUME phase # "searching", NoHeuristic
             PROVE  Result = CanonicalRoute(query.graph, query.blocked, query.start, query.goal)
  BY DEF ResultIsCanonical
<1> DEFINE G == query.graph
           b == query.blocked
           s == query.start
           t == query.goal
           p == Result.nodes
<1>1. IsGraph(G) /\ s \in G.nodes /\ t \in G.nodes
  BY Asked DEF Nodes
<1>2. CASE phase = "reached"
  <2>1. IsWalk(G, b, s, t, p) /\ Result = RouteAlong(G, p)
    BY <1>2, ResultIsAWalk
  <2>2. \A q : IsWalk(G, b, s, t, q) /\ q # p => Preferred(G, p, q)
    BY <1>2, ResultIsPreferred
  <2> HIDE DEF G, b, s, t, p
  <2>3. \A q : q \in Walks(G, b, s, t) <=> IsWalk(G, b, s, t, q)
    BY <1>1, WalksAreWalks
  <2>4. IsCanonical(G, b, s, t, p)
    BY <2>1, <2>2, <2>3 DEF IsCanonical
  <2>5. CanonicalRoute(G, b, s, t) = RouteAlong(G, p)
    BY <1>1, <2>4, CanonicalRouteIsAlong
  <2>. QED
    BY <2>1, <2>5 DEF G, b, s, t
<1>3. CASE phase = "exhausted"
  <2>1. Walks(G, b, s, t) = {}
    BY <1>3, ExhaustedIsNoWalk DEF AllWalks
  <2>2. Result = NoRoute
    BY <1>3 DEF Result
  <2>. QED
    BY <2>1, <2>2 DEF CanonicalRoute
<1>. QED
  BY <1>2, <1>3 DEF TypeInv

(* Without a heuristic the search returns the canonical route of ADR-003:  *)
(* the definition the fleet's bookkeeping of routes rests on is what the   *)
(* planner's loop computes.                                                *)
THEOREM SearchIsCanonical == Spec => []ResultIsCanonical
BY NodesAreSettledInOrder, ReturnedIsCanonical, PTL

(* An edge off the route returned may get worse without a new search: it   *)
(* would return the same route.                                            *)
THEOREM OffRouteIsIrrelevant == Spec => []OffRouteBlocksChangeNothing
<1>1. TypeInv /\ LInv /\ DInv /\ SInv => OffRouteBlocksChangeNothing
  <2> SUFFICES ASSUME TypeInv, LInv, DInv, SInv, phase # "searching", NoHeuristic,
                      NEW e \in EdgeIds(query.graph), ~UsesEdge(Result, e)
               PROVE  CanonicalRoute(query.graph, query.blocked \cup {e},
                                     query.start, query.goal) = Result
    BY DEF OffRouteBlocksChangeNothing
  <2> DEFINE G == query.graph
             b == query.blocked
             s == query.start
             t == query.goal
  <2>1. IsGraph(G) /\ s \in G.nodes /\ t \in G.nodes
    BY Asked DEF Nodes
  <2>2. Result = CanonicalRoute(G, b, s, t)
    BY ReturnedIsCanonical DEF ResultIsCanonical
  <2> HIDE DEF G, b, s, t
  <2>3. ~UsesEdge(CanonicalRoute(G, b, s, t), e)
    BY <2>2
  <2>4. CanonicalRoute(G, b \cup {e}, s, t) = CanonicalRoute(G, b, s, t)
    BY <2>1, <2>3, OffRouteClosure
  <2>. QED
    BY <2>2, <2>4 DEF G, b, s, t
<1>. QED
  BY <1>1, NodesAreSettledInOrder, PTL

-----------------------------------------------------------------------------
(* That the search ends is a matter of fairness, which the provers cannot  *)
(* follow, and of two facts that they can: there is always a next step to  *)
(* take, and the entries that may still be popped become fewer with each.  *)

\* All entries a search may push.
Pushable == {Entry(v, c) : v \in Nodes, c \in 0..Infinity(query.graph)}

\* Those that have not been popped.
Unpopped == Pushable \ (pushed \ open)

\* The graph has finitely many nodes and costs below a bound.
LEMMA PushablesAreFinite ==
    ASSUME TypeInv PROVE IsFiniteSet(Pushable)
<1> DEFINE Inf == Infinity(query.graph)
           N == Nodes
           P == N \X (0..Inf)
           entry == [p \in P |-> Entry(p[1], p[2])]
           Image == {entry[p] : p \in P}
<1>1. IsFiniteSet(N)
  BY Asked DEF IsGraph, Nodes
<1>2. Inf \in Nat
  BY Asked
<1>3. IsFiniteSet(0..Inf)
  BY <1>2, FS_Interval
<1>4. IsFiniteSet(P)
  <2> HIDE DEF Inf, N
  <2>. QED
    BY <1>1, <1>3, FS_Product
<1>5. Pushable \subseteq Image
  <2> SUFFICES ASSUME NEW v \in N, NEW c \in 0..Inf PROVE Entry(v, c) \in Image
    BY DEF Pushable
  <2> HIDE DEF N, Inf
  <2>1. <<v, c>> \in P /\ entry[<<v, c>>] = Entry(v, c)
    OBVIOUS
  <2>. QED
    BY <2>1
<1>6. entry \in Surjection(P, Image)
  <2> HIDE DEF P
  <2>. QED
    BY DEF Surjection
<1>7. IsFiniteSet(Image)
  <2> HIDE DEF P, entry, Image
  <2>. QED
    BY <1>4, <1>6, FS_Surjection
<1>. QED
  BY <1>5, <1>7, FS_Subset

\* Less of a finite set is fewer.
LEMMA PartsAreFewer ==
    ASSUME NEW S, IsFiniteSet(S), NEW T \in SUBSET S, T # S
    PROVE  Cardinality(T) < Cardinality(S)
<1>1. /\ IsFiniteSet(T) /\ Cardinality(T) <= Cardinality(S)
      /\ Cardinality(S) = Cardinality(T) => S = T
  BY FS_Subset
<1>2. Cardinality(T) \in Nat /\ Cardinality(S) \in Nat
  BY <1>1, FS_CardinalityType
<1>. QED
  BY <1>1, <1>2

\* What is pushed is among them.
LEMMA PushedIsPushable ==
    ASSUME TypeInv, LInv PROVE pushed \subseteq Pushable
<1> SUFFICES ASSUME NEW e \in pushed PROVE e \in Pushable
  OBVIOUS
<1>1. e \in [f : Nat, g : Nat, node : Nodes]
  BY DEF TypeInv, Entries
<1>2. e.f = e.g + query.h[e.node] /\ e.g < Infinity(query.graph)
  BY DEF LInv
<1>3. Infinity(query.graph) \in Nat
  BY Asked
<1>4. e.node \in Nodes /\ e.g \in 0..Infinity(query.graph)
  BY <1>1, <1>2, <1>3
<1>5. e = Entry(e.node, e.g)
  BY <1>1, <1>2 DEF Entry
<1>. QED
  BY <1>4, <1>5 DEF Pushable

\* A step that leaves the search going pops one entry, for the first time.
PopsOne(e) ==
    /\ e \in open /\ e \notin open'
    /\ query' = query /\ pushed \subseteq pushed'
    /\ \A o \in pushed \ open : o \in pushed' \ open'

\* Discarding and expanding pop; the other steps end the search.
LEMMA AStepPops ==
    ASSUME TypeInv, LInv, Next, phase' = "searching"
    PROVE  \E e : PopsOne(e)
<1>1. CASE \E e \in open : Expand(e)
  <2>1. PICK e \in open : Expand(e)
    BY <1>1
  <2>2. Expanded(e)
    BY <2>1, Expansion
  <2>3. e \notin open' /\ query' = query /\ pushed \subseteq pushed'
    BY <2>2 DEF Expanded
  <2>4. ASSUME NEW o \in pushed, o \notin open PROVE o \notin open'
    <3> SUFFICES ASSUME o \in open' PROVE FALSE
      OBVIOUS
    <3>1. PICK v, a : v \in Nodes /\ Gained(e, v, a) /\ o = Entry(v, g'[v])
      BY <2>2, <2>4 DEF Expanded
    <3>2. g'[v] \in Nat /\ g[v] \in Nat /\ g'[v] < g[v]
      BY <2>2, <3>1, ExpandedLabels, Asked DEF Gained
    <3>3. o.g = g'[v] /\ o.node = v
      BY <3>1, <3>2, EntryIs
    <3>4. g[v] <= o.g
      BY <2>4, <3>3 DEF LInv
    <3>. QED
      BY <3>2, <3>3, <3>4
  <2>. QED
    BY <2>1, <2>3, <2>4 DEF PopsOne
<1>2. CASE \E e \in open : Discard(e)
  <2>1. PICK e \in open : Discard(e)
    BY <1>2
  <2>. QED
    BY <2>1 DEF Discard, PopsOne
<1>3. CASE (\E e \in open : Reach(e)) \/ Exhaust
  BY <1>3 DEF Reach, Exhaust
<1>. QED
  BY <1>1, <1>2, <1>3 DEF Next

\* A search runs down: every step that does not end it leaves fewer entries
\* that may still be popped.
RunsDown ==
    /\ Cardinality(Unpopped) \in Nat
    /\ phase' = "searching" => Cardinality(Unpopped') < Cardinality(Unpopped)

(* A pop of the loop in AStarPlanner::plan is never repeated, whatever the *)
(* heuristic, so there are no more of them than entries.                   *)
THEOREM SearchesRunDown == Spec => [][RunsDown]_vars
<1>1. TypeInv /\ LInv /\ [Next]_vars => [RunsDown]_vars
  <2> SUFFICES ASSUME TypeInv, LInv, Next PROVE RunsDown
    OBVIOUS
  <2>1. IsFiniteSet(Unpopped)
    BY PushablesAreFinite, FS_Subset DEF Unpopped
  <2>2. Cardinality(Unpopped) \in Nat
    BY <2>1, FS_CardinalityType
  <2>3. ASSUME phase' = "searching" PROVE Cardinality(Unpopped') < Cardinality(Unpopped)
    <3>1. PICK e : PopsOne(e)
      BY <2>3, AStepPops
    <3>2. e \in Unpopped
      BY <3>1, PushedIsPushable, Asked DEF PopsOne, Unpopped
    <3>3. Pushable' = Pushable
      BY <3>1 DEF Pushable, Entry, Nodes, PopsOne
    <3>4. e \notin Unpopped'
      <4>1. e \in pushed'
        BY <3>1, Asked DEF PopsOne
      <4>. QED
        BY <3>1, <4>1 DEF PopsOne, Unpopped
    <3>5. Unpopped' \subseteq Unpopped
      BY <3>1, <3>3 DEF Unpopped, PopsOne
    <3>. QED
      BY <2>1, <3>2, <3>4, <3>5, PartsAreFewer
  <2>. QED
    BY <2>2, <2>3 DEF RunsDown
<1>. QED
  BY <1>1, LabelsAreSound, PTL DEF Spec

\* Of entries there is one least by f, then by g, then by node.
LEMMA SomethingIsOnTop ==
    ASSUME TypeInv, open # {} PROVE \E e \in open : IsTop(e)
<1>1. open \subseteq [f : Nat, g : Nat, node : Nodes] /\ Nodes \subseteq Nat
  BY Asked DEF TypeInv, Entries
<1>2. PICK f \in {e.f : e \in open} : \A n \in {e.f : e \in open} : f <= n
  <2>1. {e.f : e \in open} \in SUBSET Nat /\ {e.f : e \in open} # {}
    BY <1>1
  <2>. QED
    BY <2>1, Least
<1> DEFINE A == {e \in open : e.f = f}
<1>3. PICK c \in {e.g : e \in A} : \A n \in {e.g : e \in A} : c <= n
  <2>1. {e.g : e \in A} \in SUBSET Nat /\ {e.g : e \in A} # {}
    BY <1>1, <1>2
  <2>. QED
    BY <2>1, Least
<1> DEFINE B == {e \in A : e.g = c}
<1>4. PICK v \in {e.node : e \in B} : \A n \in {e.node : e \in B} : v <= n
  <2>1. {e.node : e \in B} \in SUBSET Nat /\ {e.node : e \in B} # {}
    BY <1>1, <1>3
  <2>. QED
    BY <2>1, Least
<1>5. PICK e \in open : e.f = f /\ e.g = c /\ e.node = v
  BY <1>4
<1>6. ASSUME NEW o \in open, o # e PROVE LessPromising(o, e)
  <2>1. o.f \in Nat /\ o.g \in Nat /\ o.node \in Nat /\ e.f \in Nat /\ e.g \in Nat /\ e.node \in Nat
    BY <1>1
  <2>2. e.f <= o.f
    BY <1>2, <1>5
  <2>3. o.f = e.f => e.g <= o.g
    BY <1>3, <1>5
  <2>4. o.f = e.f /\ o.g = e.g => e.node <= o.node
    BY <1>4, <1>5
  <2>5. o.f # e.f \/ o.g # e.g \/ o.node # e.node
    BY <1>1, <1>6
  <2>. QED
    BY <2>1, <2>2, <2>3, <2>4, <2>5 DEF LessPromising
<1>. QED
  BY <1>5, <1>6 DEF IsTop

(* As long as a search goes on, an entry is on top of the open list or the *)
(* list is empty, and either is a step of the loop.                        *)
THEOREM SearchesGoOn ==
    Spec => [](phase = "searching" => open = {} \/ \E e \in open : IsTop(e))
<1>1. TypeInv => (phase = "searching" => open = {} \/ \E e \in open : IsTop(e))
  BY SomethingIsOnTop
<1>. QED
  BY <1>1, LabelsAreSound, PTL
=============================================================================
