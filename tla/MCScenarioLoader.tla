-------------------------- MODULE MCScenarioLoader --------------------------
(* ScenarioLoader on small documents: each block right and wrong in every  *)
(* way its reader tells apart.                                             *)
EXTENDS ScenarioLoader

SmallRoads ==
    {[ends |-> {"A", "B"}, cost |-> 1, length |-> 1],
     [ends |-> {"B", "C"}, cost |-> 3, length |-> 4]}

\* Every position, of a place near the equator; and near a pole, neither of
\* node B nor of the straight road to it.
Known ==
    [nodes |-> [n \in {"A", "B", "C"} |-> IF n = "B" THEN 1 ELSE 0],
     roads |-> [ends \in {{"B", "C"}} |-> {0, 1}]]
Partial ==
    [nodes |-> [n \in {"A", "C"} |-> IF n = "A" THEN 6 ELSE 9],
     roads |-> [ends \in {{"B", "C"}} |-> {7, 9}]]
SomeGeometries == {Absent, Known, Partial}
PlainGeometries == {Known}

Network(min, max, loss) == [min |-> min, max |-> max, loss |-> loss, duplication |-> Absent]
SomeNetworks ==
    {Absent, Malformed, Network(2, 0, Absent), Network(Absent, 2, Absent),
     Network(1, 1, MaxPpm + 1), Network(1, 1, MaxPpm)} \cup
    {Network(0, max, Absent) : max \in (MaxTick - 1)..MaxTick}
PlainNetworks == {Absent}

SomeMovements ==
    {Absent, Malformed, [perCost |-> 0, retry |-> Absent], [perCost |-> 1, retry |-> 0],
     [perCost |-> 1, retry |-> 1], [perCost |-> 1, retry |-> MaxTick]}
PlainMovements == {Absent}

Noisy(sigma, turn) == [kind |-> "noisy", sigma |-> sigma, turn |-> turn]
Perfect == [kind |-> "perfect"]
GnssModels ==
    {Noisy(-1, 0), Noisy(1, Absent), Noisy(Absent, MaxReal), [kind |-> "unavailable"]}
Reckoning(scale, drift) == [scale |-> scale, drift |-> drift]

Localize(period, initial, reckoning) ==
    [period |-> period, initial |-> initial, reckoning |-> reckoning]
SomeLocalizations ==
    {Absent, Malformed,
     Localize(0, Perfect, Absent),
     Localize(1, Absent, Absent),
     Localize(Absent, Noisy(Malformed, Absent), Absent),
     Localize(1, Perfect, Malformed),
     Localize(1, Perfect, Reckoning(-1, Absent)),
     Localize(2, Noisy(-1, Absent), Absent),
     Localize(2, Noisy(1, Absent), Absent),
     Localize(MaxTick - 1, Perfect, Reckoning(Absent, 0)),
     Localize(1, Noisy(0, Absent), Reckoning(0, 1)),
     Localize(1, Perfect, Reckoning(2, Absent)),
     Localize(1, Perfect, Reckoning(Absent, -MaxReal))}
PlainLocalizations == {Localize(1, Perfect, Absent)}

\* Robot "b" has nowhere to go.
Robot(name, id, endpoint) ==
    [name |-> name, id |-> id, endpoint |-> endpoint,
     start |-> IF name = "b" THEN "C" ELSE "A", goal |-> "C"]
SomeRobotLists ==
    {<<>>, <<Robot("a", 1, 1)>>, <<Robot("a", 1, MaxByte + 1)>>, <<Robot("a", Malformed, 1)>>,
     <<[Robot("a", 1, 1) EXCEPT !.goal = "Z"]>>} \cup
    {<<Robot("a", 1, 1), Robot(name, id, endpoint)>> :
        name \in {"a", "b"}, id \in {1, 2}, endpoint \in 1..2}

Link(at, from, to) == [at |-> at, action |-> "set_link_state", from |-> from, to |-> to]
Observe(at, robot, edge) ==
    [at |-> at, action |-> "observe_edge", robot |-> robot, edge |-> edge,
     state |-> "blocked"]
World(at, edge, state) ==
    [at |-> at, action |-> "set_world_edge_state", edge |-> edge, state |-> state]
Switch(at, robot, model) ==
    [at |-> at, action |-> "set_gnss_model", robot |-> robot, model |-> model]
Resync(at, robot) == [at |-> at, action |-> "resynchronize", robot |-> robot]

RightEvents ==
    {Observe(1, "a", <<"A", "B">>), Observe(2, "a", <<"B", "A">>),
     Link(1, "a", "station"), Link(2, "b", "a"), World(1, <<"B", "C">>, "open"),
     Resync(0, "b")} \cup
    {Switch(1, "a", model) : model \in GnssModels}
WrongEvents ==
    {Link(1, "a", "z"), Observe(1, "z", <<"A", "B">>), Observe(1, "a", <<"A", "C">>),
     Observe(Malformed, "a", <<"A", "B">>), World(1, <<"A", "B">>, "ajar"),
     [at |-> 1, action |-> "teleport"]}
SomeEventLists ==
    {<<>>} \cup {<<e>> : e \in WrongEvents} \cup
    {<<e, Observe(1, "a", <<"A", "B">>)>> : e \in RightEvents} \cup
    {<<Observe(2, "a", <<"A", "B">>), e, Observe(1, "a", <<"B", "A">>)>> : e \in RightEvents}
=============================================================================
