------------------------------ MODULE MCPlanner -----------------------------
(* Planner on every small road graph of a shape: four nodes, all pairs of  *)
(* them joined, from 0 to 3 -- or from 3 to 3.                             *)
EXTENDS Planner

CONSTANTS MaxCost,      \* bound: the cost of an edge
          MaxEstimate   \* bound: the heuristic's estimate

Pairs == << <<0, 1>>, <<0, 2>>, <<1, 2>>, <<1, 3>>, <<2, 3>>, <<0, 3>> >>

Graphs(directions) ==
    [nodes : {0..3}, ends : {Pairs}, cost : [1..6 -> 1..MaxCost], direction : directions]

\* Every edge both ways, or the middle and the last in any way.
TwoWay == {[e \in 1..6 |-> "Bidirectional"]}
SomeOneWay ==
    {<<"Forward", "Bidirectional", m, "Forward", l, "Bidirectional">> :
        m \in Direction, l \in {"Bidirectional", "Reverse"}}

\* What robots ask: no heuristic, any view.
WithoutHeuristic ==
    [graph : Graphs(SomeOneWay), blocked : {{}, {6}, {4}, {1, 2, 6}}, start : {0, 3},
     goal : {3}, h : {[v \in 0..3 |-> 0]}]

\* What the planner promises beside: any heuristic, over the inner nodes.
WithHeuristic ==
    [graph : Graphs(TwoWay), blocked : {{5, 6}, {1, 2, 6}}, start : {0}, goal : {3},
     h : {h \in [0..3 -> 0..MaxEstimate] : h[0] = 0 /\ h[3] = 0}]

SmallQueries == WithoutHeuristic \cup WithHeuristic
=============================================================================
