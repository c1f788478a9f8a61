----------------------------- MODULE RoadGraph ------------------------------
(***************************************************************************)
(* The road graph a robot plans on, and the route it must get.             *)
(*                                                                         *)
(* A graph is a record of the set "nodes" (numbers, ordered as the NodeIds *)
(* are) and the sequences "ends", "cost" and "direction" of its edges; the *)
(* positions in them are the EdgeIds.  Graph::Builder admits neither       *)
(* self-loops nor two edges between the same nodes, and only costs above   *)
(* zero.  Costs are integers: the rounding of doubles is left out.         *)
(*                                                                         *)
(* What a participant believes enters as "blocked", the set of the edges   *)
(* its MapView finds blocked.                                              *)
(***************************************************************************)
EXTENDS Integers, Sequences, FiniteSets

Direction == {"Bidirectional", "Forward", "Reverse"}

EdgeIds(G) == DOMAIN G.ends

Ends(G, e) == {G.ends[e][1], G.ends[e][2]}

\* The edges at a node, both directions of them.
Adjacency(G, v) == {e \in EdgeIds(G) : v \in Ends(G, e)}

\* The far end of an edge at v.
Neighbor(G, e, v) == IF G.ends[e][1] = v THEN G.ends[e][2] ELSE G.ends[e][1]

\* What Graph::Builder lets through.
IsGraph(G) ==
    /\ IsFiniteSet(G.nodes) /\ G.nodes \subseteq Nat
    /\ G.ends \in Seq(G.nodes \X G.nodes)
    /\ G.cost \in [EdgeIds(G) -> Nat \ {0}]
    /\ G.direction \in [EdgeIds(G) -> Direction]
    /\ \A e \in EdgeIds(G) : G.ends[e][1] # G.ends[e][2]
    /\ \A e, f \in EdgeIds(G) : Ends(G, e) = Ends(G, f) => e = f

\* MapView::traversable_from: not blocked, and not against its direction.
TraversableFrom(G, blocked, e, v) ==
    /\ e \notin blocked
    /\ \/ G.direction[e] = "Bidirectional" /\ v \in Ends(G, e)
       \/ G.direction[e] = "Forward" /\ v = G.ends[e][1]
       \/ G.direction[e] = "Reverse" /\ v = G.ends[e][2]

\* Graph::edge_between.
EdgeBetween(G, u, v) == CHOOSE e \in EdgeIds(G) : Ends(G, e) = {u, v}

-----------------------------------------------------------------------------
(* The reference: what the best route is, with no search in it.            *)

\* The node sequences from start to goal that visit no node twice.
Middles(G, start, goal) ==
    UNION {[1..n -> G.nodes \ {start, goal}] :
             n \in 0..Cardinality(G.nodes \ {start, goal})}

Paths(G, start, goal) ==
    IF start = goal THEN {<<start>>}
    ELSE {<<start>> \o m \o <<goal>> :
            m \in {m \in Middles(G, start, goal) :
                     \A i, j \in DOMAIN m : m[i] = m[j] => i = j}}

\* A robot may go from u to v directly.
IsHop(G, blocked, u, v) ==
    \E e \in EdgeIds(G) :
        Ends(G, e) = {u, v} /\ TraversableFrom(G, blocked, e, u)

\* Those it may drive.
Walks(G, blocked, start, goal) ==
    {p \in Paths(G, start, goal) :
        \A i \in 1..(Len(p) - 1) : IsHop(G, blocked, p[i], p[i + 1])}

\* The cost of the way along p to its i-th node.
CostTo(G, p, i) ==
    LET upto[k \in 1..i] ==
          IF k = 1 THEN 0
          ELSE upto[k - 1] + G.cost[EdgeBetween(G, p[k - 1], p[k])]
    IN  upto[i]

Cost(G, p) == CostTo(G, p, Len(p))

(* p and q, equal from their goals back to some node, are reached there    *)
(* from different ones, and p from the one Dijkstra's search settles       *)
(* first: the nearer to the start, and of two as near the lower id.        *)
SettledFirst(G, p, q) ==
    \E k \in 1..(Len(p) - 1) :
        /\ k < Len(q)
        /\ \A i \in 0..(k - 1) : p[Len(p) - i] = q[Len(q) - i]
        /\ \/ CostTo(G, p, Len(p) - k) < CostTo(G, q, Len(q) - k)
           \/ /\ CostTo(G, p, Len(p) - k) = CostTo(G, q, Len(q) - k)
              /\ p[Len(p) - k] < q[Len(q) - k]

Preferred(G, p, q) ==
    \/ Cost(G, p) < Cost(G, q)
    \/ Cost(G, p) = Cost(G, q) /\ SettledFirst(G, p, q)

IsCanonical(G, blocked, start, goal, p) ==
    /\ p \in Walks(G, blocked, start, goal)
    /\ \A q \in Walks(G, blocked, start, goal) \ {p} : Preferred(G, p, q)

NoRoute == [found |-> FALSE, nodes |-> <<>>, edges |-> <<>>]

RouteAlong(G, p) ==
    [found |-> TRUE, nodes |-> p,
     edges |-> [i \in 1..(Len(p) - 1) |-> EdgeBetween(G, p[i], p[i + 1])]]

(* The route AStarPlanner::plan returns without a heuristic (ADR-003).     *)
CanonicalRoute(G, blocked, start, goal) ==
    IF Walks(G, blocked, start, goal) = {}
    THEN NoRoute
    ELSE RouteAlong(G, CHOOSE p \in Walks(G, blocked, start, goal) :
                         IsCanonical(G, blocked, start, goal, p))

\* Route::uses_edge.
UsesEdge(route, e) == \E i \in DOMAIN route.edges : route.edges[i] = e

\* What a found route must be, whichever of the shortest ones it is.
IsRoute(G, blocked, start, goal, route) ==
    /\ route.nodes # <<>>
    /\ route.nodes[1] = start /\ route.nodes[Len(route.nodes)] = goal
    /\ Len(route.edges) = Len(route.nodes) - 1
    /\ \A i \in DOMAIN route.edges :
         /\ Ends(G, route.edges[i]) = {route.nodes[i], route.nodes[i + 1]}
         /\ TraversableFrom(G, blocked, route.edges[i], route.nodes[i])
=============================================================================
