------------------------------ MODULE Planner -------------------------------
(***************************************************************************)
(* One call of fleet::planning::AStarPlanner::plan: A* with lazy deletion  *)
(* and re-opening, over one participant's view of the map.  A step pops    *)
(* one entry of the open list.  The neighbours of a node are distinct (the *)
(* graph has no parallel edges), so the relaxations of one expansion do    *)
(* not touch each other and are made at once; the open list is a set,      *)
(* which NothingPushedTwice justifies.                                     *)
(***************************************************************************)
EXTENDS RoadGraph

CONSTANT Queries   \* the calls looked at, records [graph, blocked, start,
                   \* goal, h] where h is the heuristic's estimate per node

\* Both ends are nodes of the view's graph, and estimates are finite and not
\* negative: what plan() asserts.
IsQuery(q) ==
    /\ IsGraph(q.graph)
    /\ q.start \in q.graph.nodes /\ q.goal \in q.graph.nodes
    /\ q.h \in [q.graph.nodes -> Nat]

ASSUME QueriesAssumption == \A q \in Queries : IsQuery(q)

VARIABLES
    query,         \* the call: its view, its ends and the planner's heuristic
    g,             \* SearchState::g
    parent,        \* SearchState::parent, hops <<node, edge>>
    open,          \* SearchState::open, entries [f, g, node]
    phase,         \* "searching", "reached", "exhausted"
    pushed,        \* history: every entry ever pushed
    pushes         \* history: how often push() was called

vars == <<query, g, parent, open, phase, pushed, pushes>>

NoHop == <<-1, 0>>

\* Mutant of LessPromising: of equal entries the higher node goes first.
LessPromisingId(a, b) ==
    \/ a.f > b.f
    \/ a.f = b.f /\ a.g > b.g
    \/ a.f = b.f /\ a.g = b.g /\ a.node < b.node

\* a is worse than b: it is popped later.
LessPromising(a, b) ==
    \/ a.f > b.f
    \/ a.f = b.f /\ a.g > b.g
    \/ a.f = b.f /\ a.g = b.g /\ a.node > b.node

IsTop(e) == e \in open /\ \A o \in open \ {e} : LessPromising(o, e)

Entry(v, cost) == [f |-> cost + query.h[v], g |-> cost, node |-> v]

-----------------------------------------------------------------------------
(* More than any route costs.                                              *)
Infinity(G) ==
    LET total[n \in 0..Len(G.cost)] ==
          IF n = 0 THEN 1 ELSE total[n - 1] + G.cost[n]
    IN  total[Len(G.cost)]

(* What optimality asks of the heuristic: it never overestimates.          *)
Admissible(q) ==
    \A v \in q.graph.nodes :
        \A p \in Walks(q.graph, q.blocked, v, q.goal) :
            q.h[v] <= Cost(q.graph, p)

Init ==
    /\ query \in Queries
    /\ g = [v \in query.graph.nodes |->
              IF v = query.start THEN 0 ELSE Infinity(query.graph)]
    /\ parent = [v \in query.graph.nodes |-> NoHop]
    /\ open = IF query.start = query.goal THEN {} ELSE {Entry(query.start, 0)}
    /\ phase = IF query.start = query.goal THEN "reached" ELSE "searching"
    /\ pushed = open
    /\ pushes = Cardinality(open)

\* A better cost was found since the entry was pushed.
IsOutdated(e) == e.g > g[e.node]

\* Mutant of Discard: the entry is looked at and not removed.
DiscardNothing(e) ==
    phase = "searching" /\ IsTop(e) /\ IsOutdated(e) /\ UNCHANGED vars

Discard(e) ==
    /\ phase = "searching"
    /\ IsTop(e)
    /\ IsOutdated(e)
    /\ open' = open \ {e}
    /\ UNCHANGED <<query, g, parent, phase, pushed, pushes>>

Reach(e) ==
    /\ phase = "searching"
    /\ IsTop(e)
    /\ ~IsOutdated(e)
    /\ e.node = query.goal
    /\ open' = open \ {e}
    /\ phase' = "reached"
    /\ UNCHANGED <<query, g, parent, pushed, pushes>>

\* Mutants of Improving: a node expanded once is closed; a tie improves;
\* blocked and one-way edges are taken too.
ImprovingUnexpanded(e) ==
    {a \in Adjacency(query.graph, e.node) :
        LET v == Neighbor(query.graph, a, e.node)
        IN  /\ TraversableFrom(query.graph, query.blocked, a, e.node)
            /\ e.g + query.graph.cost[a] < g[v]
            /\ \A o \in pushed : o.node = v => o \in open}
ImprovingOrEqual(e) ==
    {a \in Adjacency(query.graph, e.node) :
        /\ TraversableFrom(query.graph, query.blocked, a, e.node)
        /\ e.g + query.graph.cost[a] <= g[Neighbor(query.graph, a, e.node)]}
ImprovingAnyWay(e) ==
    {a \in Adjacency(query.graph, e.node) :
        e.g + query.graph.cost[a] < g[Neighbor(query.graph, a, e.node)]}

\* The edges of e's node over which the cost of the far end improves.
Improving(e) ==
    {a \in Adjacency(query.graph, e.node) :
        /\ TraversableFrom(query.graph, query.blocked, a, e.node)
        /\ e.g + query.graph.cost[a] < g[Neighbor(query.graph, a, e.node)]}

Expand(e) ==
    /\ phase = "searching"
    /\ IsTop(e)
    /\ ~IsOutdated(e)
    /\ e.node # query.goal
    /\ LET Via(v)  == {a \in Improving(e) :
                         Neighbor(query.graph, a, e.node) = v}
           Reached(a) == e.g + query.graph.cost[a]
           new     == {Entry(Neighbor(query.graph, a, e.node), Reached(a)) :
                         a \in Improving(e)}
       IN  /\ g' = [v \in DOMAIN g |->
                      IF Via(v) = {} THEN g[v]
                      ELSE Reached(CHOOSE a \in Via(v) : TRUE)]
           /\ parent' = [v \in DOMAIN parent |->
                           IF Via(v) = {} THEN parent[v]
                           ELSE <<e.node, CHOOSE a \in Via(v) : TRUE>>]
           /\ open' = (open \ {e}) \cup new
           /\ pushed' = pushed \cup new
           /\ pushes' = pushes + Cardinality(Improving(e))
    /\ UNCHANGED <<query, phase>>

Exhaust ==
    /\ phase = "searching"
    /\ open = {}
    /\ phase' = "exhausted"
    /\ UNCHANGED <<query, g, parent, open, pushed, pushes>>

Next == \/ \E e \in open : Discard(e) \/ Reach(e) \/ Expand(e)
        \/ Exhaust

\* The search is a loop of one thread: it does not stop in the middle.
Spec == Init /\ [][Next]_vars /\ WF_vars(Next)

-----------------------------------------------------------------------------
(* The route read back from the parents, goal to start.                    *)
Reconstructed ==
    LET nodes == query.graph.nodes
        back[n \in 0..Cardinality(nodes)] ==
          IF n = 0 THEN [nodes |-> <<query.goal>>, edges |-> <<>>]
          ELSE LET r == back[n - 1]
                   hop == parent[Head(r.nodes)]
               IN  IF Head(r.nodes) = query.start THEN r
                   ELSE [nodes |-> <<hop[1]>> \o r.nodes,
                         edges |-> <<hop[2]>> \o r.edges]
        route == back[Cardinality(nodes)]
    IN  [found |-> TRUE, nodes |-> route.nodes, edges |-> route.edges]

Result == IF phase = "reached" THEN Reconstructed ELSE NoRoute

AllWalks == Walks(query.graph, query.blocked, query.start, query.goal)

(* With an admissible heuristic, consistent or not, the first goal entry   *)
(* popped that is not outdated carries the cost of a best route; with any, *)
(* the open list runs empty only when there is none.                       *)
ResultIsOptimal ==
    /\ phase = "reached" /\ Admissible(query) =>
         /\ \E p \in AllWalks : Cost(query.graph, p) = g[query.goal]
         /\ \A p \in AllWalks : Cost(query.graph, p) >= g[query.goal]
    /\ phase = "exhausted" => AllWalks = {}

(* The parents lead back to the start over edges that are open and taken   *)
(* in their direction, and the goal's label, Route::cost, is their sum --  *)
(* with any heuristic, although a label may improve after a node was       *)
(* reached over it.                                                        *)
ResultIsARoute ==
    phase = "reached" =>
        /\ IsRoute(query.graph, query.blocked, query.start, query.goal, Result)
        /\ Cost(query.graph, Result.nodes) = g[query.goal]

(* No entry is pushed twice, neither while an equal one is open nor after  *)
(* it was popped: there were as many pushes, one for each edge that        *)
(* improved a label, as there are different entries.  So the open list is  *)
(* the set it is modelled as, its order is total on it, and what is popped *)
(* does not depend on the heap.                                            *)
NothingPushedTwice == pushes = Cardinality(pushed)

NoHeuristic == \A v \in DOMAIN query.h : query.h[v] = 0

(* Without a heuristic the search returns the canonical route of ADR-003,  *)
(* the one the fleet's route bookkeeping is modelled with.                 *)
ResultIsCanonical ==
    phase # "searching" /\ NoHeuristic =>
        Result = CanonicalRoute(query.graph, query.blocked,
                                query.start, query.goal)

(* Why a robot may keep its route when an edge off that route gets worse:  *)
(* the search with that edge blocked too would return the same route, ties *)
(* included.                                                               *)
OffRouteBlocksChangeNothing ==
    phase # "searching" /\ NoHeuristic =>
        \A e \in EdgeIds(query.graph) :
            ~UsesEdge(Result, e) =>
                CanonicalRoute(query.graph, query.blocked \cup {e},
                               query.start, query.goal) = Result

(* The search ends.                                                        *)
Terminates == <>(phase # "searching")
=============================================================================
