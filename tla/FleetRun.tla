------------------------------ MODULE FleetRun ------------------------------
(***************************************************************************)
(* A scenario run: fleet::scenario::ScenarioRunner wiring robots, control  *)
(* station, network and world truth onto one event queue, driven to        *)
(* horizons, with events injected between them.                            *)
(*                                                                         *)
(* A step pops one event and runs its whole handler.  Everything random is *)
(* drawn when a message is sent, and is a choice here.                     *)
(*                                                                         *)
(* Left out: localization, the trace, and what a handler's exception would *)
(* abort -- what may throw is the subject of ScenarioLoader.               *)
(***************************************************************************)
EXTENDS Reconciler, RoadGraph, Agenda

CONSTANTS
    NRobots,          \* robots, in declaration order, which is their id order
    Map,              \* the base map's graph, as RoadGraph has it
    MsPerCostUnit, RetryMs,   \* MovementSettings
    Scenarios         \* the scenarios looked at, a sequence of records of
                      \*   station: Scenario::has_station
                      \*   mission: of each robot, <<start, goal>>
                      \*   moves, senses: are movement and sensing enabled?
                      \*   latency, loses, doubles: NetworkConfig
                      \*   scripts: what the events may be, each a sequence
                      \*            of <<tick, action>>
                      \*   duration: the horizon
                      \*   commands: what is typed, if it is run by hand
                      \*   injections: bound on the commands that inject

Robots       == 1..NRobots
Station      == 0
Edges        == EdgeIds(Map)
Endpoints    == Robots \cup {Station}

\* What an event of the scenario, or of the console, may do.
Actions ==
    [kind : {"set_link"}, from : Endpoints, to : Endpoints, up : BOOLEAN]
    \cup [kind : {"observe"}, robot : Robots, edge : Edges, status : EdgeStatus]
    \cup [kind : {"resynchronize"}, robot : Robots]
    \cup [kind : {"world"}, edge : Edges, status : EdgeStatus]

IsScenario(s) ==
    /\ {s.station, s.moves, s.senses, s.loses, s.doubles} \subseteq BOOLEAN
    /\ s.mission \in [Robots -> Map.nodes \X Map.nodes]
    /\ s.latency \subseteq Nat
    /\ s.scripts \subseteq Seq(Nat \X Actions)
    /\ s.duration \in Nat /\ s.injections \in Nat

ASSUME SettingsAssumption ==
    /\ NRobots \in Nat /\ IsGraph(Map)
    /\ MsPerCostUnit \in Nat \ {0} /\ RetryMs \in Nat \ {0}
    /\ \A i \in DOMAIN Scenarios : IsScenario(Scenarios[i])

VARIABLES
    scenario,         \* the position of the one that runs
    now,              \* the simulation clock
    queue,            \* the events not yet popped, first one first
    robots,           \* fleet::robot::Robot, knowledge included
    station,          \* the ControlStation's knowledge
    truth,            \* World::truth_
    downLinks,        \* NetworkSimulator::down_links_, pairs <<from, to>>
    until,            \* the horizon of the run_until on the stack
    running,          \* is there one?
    injected,         \* bound: the injections made so far
    driven            \* history: of each robot, its departures <<from, to>>

vars == <<scenario, now, queue, robots, station, truth, downLinks, until,
          running, injected, driven>>

Settings == Scenarios[scenario]

-----------------------------------------------------------------------------
(* Robots.                                                                 *)

NoTransit == [edge |-> 0, from |-> 0, to |-> 0, departed_at |-> 0, arrival |-> 0]

InTransit(p) == p.transit # NoTransit

BlockedEdges(k) == {e \in Edges : IsBlocked(k, e)}

\* What plan() returns on every view, worked out once.
Plans == {[blocked |-> b, start |-> s, goal |-> t,
           route |-> CanonicalRoute(Map, b, s, t)] :
            b \in SUBSET Edges, s \in Map.nodes,
            t \in {Scenarios[i].mission[r][2] : i \in DOMAIN Scenarios, r \in Robots}}

Plan(blocked, start, goal) ==
    (CHOOSE q \in Plans :
        q.blocked = blocked /\ q.start = start /\ q.goal = goal).route

Start(r) == Settings.mission[r][1]
Goal(r)  == Settings.mission[r][2]

\* Where a new route starts: a traversal in progress is not decided again.
EffectiveStart(p) == IF InTransit(p) THEN p.transit.to ELSE p.position

CurrentPlan(r, p) ==
    Plan(BlockedEdges(p.knowledge), EffectiveStart(p), Goal(r))

Replanned(r, p) == [p EXCEPT !.route = CurrentPlan(r, p)]

NewRobot(r) ==
    Replanned(r, [position  |-> Start(r),
                  transit   |-> NoTransit,
                  mission_complete |-> Start(r) = Goal(r),
                  knowledge |-> EmptyKnowledge,
                  route     |-> NoRoute,
                  streams   |-> [e \in Edges |-> [last_sequence |-> 0,
                                                  last_observed_at |-> 0]]])

\* Mutant of Learned: only what happens on the route counts.
LearnedOnRoute(r, p, d) ==
    LET q == [p EXCEPT !.knowledge = Reconcile(d, p.knowledge)]
    IN  IF UsesEdge(p.route, d.edge) THEN Replanned(r, q) ELSE q

(* reconcile_and_maybe_replan: an edge that opens calls for a new route,   *)
(* one that closes only if the route uses it.                              *)
Learned(r, p, d) ==
    LET q      == [p EXCEPT !.knowledge = Reconcile(d, p.knowledge)]
        opened == IsBlocked(p.knowledge, d.edge) /\ ~IsBlocked(q.knowledge, d.edge)
        closed == ~IsBlocked(p.knowledge, d.edge) /\ IsBlocked(q.knowledge, d.edge)
    IN  IF opened \/ (closed /\ UsesEdge(p.route, d.edge))
        THEN Replanned(r, q) ELSE q

\* A robot in the course of a handler, and what it has emitted in it.
Quiet(p) == [robot |-> p, emitted |-> <<>>]

\* Robot::observe; the tick is never behind the stream's last one.
Observed(r, s, e, status, at) ==
    LET last  == s.robot.streams[e].last_sequence
        d     == [edge |-> e, status |-> status, observed_at |-> at,
                  source |-> r, source_sequence |-> last + 1]
        noted == [s.robot EXCEPT !.streams[e] =
                    [last_sequence |-> last + 1, last_observed_at |-> at]]
    IN  [robot |-> Learned(r, noted, d), emitted |-> Append(s.emitted, d)]

(* sense_for: the edges at the node the robot occupies -- in transit, the  *)
(* one it left -- in EdgeId order; what it believes already is dropped.    *)
Sensed(r, p, facts, at) ==
    LET after[e \in 0..Len(Map.ends)] ==
          IF e = 0 THEN Quiet(p)
          ELSE LET s == after[e - 1]
               IN  IF \/ e \notin Adjacency(Map, p.position)
                      \/ IsBlocked(s.robot.knowledge, e) <=> (facts[e] = "Blocked")
                   THEN s ELSE Observed(r, s, e, facts[e], at)
    IN  IF Settings.senses THEN after[Len(Map.ends)] ELSE Quiet(p)

\* Mutant of Arrived: the transit is not over.
ArrivedInTransit(r, p) ==
    Replanned(r, [p EXCEPT !.position = p.transit.to])

\* Mutant of Arrived: the route stays the one from the node before.
ArrivedUnplanned(r, p) ==
    [p EXCEPT !.position = p.transit.to,
              !.transit = NoTransit,
              !.mission_complete = p.mission_complete \/ p.transit.to = Goal(r)]

\* complete_transit.
Arrived(r, p) ==
    Replanned(r, [p EXCEPT !.position = p.transit.to,
                           !.transit = NoTransit,
                           !.mission_complete =
                              p.mission_complete \/ p.transit.to = Goal(r)])

CanDepart(p) ==
    /\ ~InTransit(p) /\ ~p.mission_complete
    /\ p.route.found /\ p.route.edges # <<>>
    /\ TraversableFrom(Map, BlockedEdges(p.knowledge), p.route.edges[1],
                       p.route.nodes[1])

\* begin_transit; the route is left as it is, its first edge included.
Departed(p, at) ==
    [p EXCEPT !.transit =
       [edge |-> p.route.edges[1], from |-> p.route.nodes[1],
        to |-> p.route.nodes[2], departed_at |-> at,
        arrival |-> at + Map.cost[p.route.edges[1]] * MsPerCostUnit]]

-----------------------------------------------------------------------------
(* The network.                                                            *)

Advance(r, at)          == [at |-> at, kind |-> "advance", robot |-> r]
Delivery(to, d, at)     == [at |-> at, kind |-> "delivery", to |-> to, delta |-> d]
Scripted(action, at)    == [at |-> at, kind |-> "scripted", action |-> action]

\* Everyone else, robots first, the station last.
Targets(r) ==
    [i \in 1..(NRobots - 1) |-> IF i < r THEN i ELSE i + 1]
    \o (IF Settings.station THEN <<Station>> ELSE <<>>)

\* What r's sink sends for the deltas it emitted, in this order.
Messages(r, deltas) ==
    FlattenSeq([i \in DOMAIN deltas |->
                  [j \in DOMAIN Targets(r) |->
                     [from |-> r, to |-> Targets(r)[j], delta |-> deltas[i]]]])

Latency == Settings.latency

(* What becomes of a message: the latencies of its copies.  A link that is *)
(* down delivers none; up, the message may be lost or doubled.             *)
Fates == {<<l>> : l \in Latency} \cup {<<>>} \cup (Latency \X Latency)

MayMeet(m, fate) ==
    IF <<m.from, m.to>> \in downLinks THEN fate = <<>>
    ELSE \/ Len(fate) = 1
         \/ Len(fate) = 0 /\ Settings.loses
         \/ Len(fate) = 2 /\ Settings.doubles

FatesOf(messages) ==
    {fates \in [DOMAIN messages -> Fates] :
        \A i \in DOMAIN messages : MayMeet(messages[i], fates[i])}

\* The queues the sends may lead to, one for each way the messages may fare.
Sent(q, messages, at) ==
    {EnqueueAll(q,
       FlattenSeq([i \in DOMAIN messages |->
         [c \in DOMAIN fates[i] |->
            Delivery(messages[i].to, messages[i].delta, at + fates[i][c])]])) :
       fates \in FatesOf(messages)}

-----------------------------------------------------------------------------
(* The runner.  Init is the state begin() leaves: an advance chain per     *)
(* robot, then the scenario's events.                                      *)
Init ==
    /\ scenario \in DOMAIN Scenarios
    /\ now = 0
    /\ robots = [r \in Robots |-> NewRobot(r)]
    /\ station = EmptyKnowledge
    /\ truth = [e \in Edges |-> "Open"]
    /\ downLinks = {}
    /\ until = 0 /\ running = FALSE /\ injected = 0
    /\ driven = [r \in Robots |-> <<>>]
    /\ \E script \in Settings.scripts :
         queue = EnqueueAll(<<>>,
           (IF Settings.moves THEN [r \in Robots |-> Advance(r, 0)] ELSE <<>>)
           \o [i \in DOMAIN script |-> Scripted(script[i][2], script[i][1])])

\* run_until, unless it is refused.
RunUntil(horizon) ==
    /\ ~running
    /\ horizon >= now
    /\ until' = horizon /\ running' = TRUE
    /\ UNCHANGED <<scenario, now, queue, robots, station, truth, downLinks,
                   injected, driven>>

\* run_to_completion, for a horizon it has not passed; or else it does nothing.
Finish == RunUntil(Settings.duration)

Inject(action, at) ==
    /\ ~running
    /\ injected < Settings.injections
    /\ at >= now
    /\ queue' = Enqueue(queue, Scripted(action, at))
    /\ injected' = injected + 1
    /\ UNCHANGED <<scenario, now, robots, station, truth, downLinks, until,
                   running, driven>>

HasDue(kind) == /\ running
                /\ queue # <<>>
                /\ Head(queue).at <= until
                /\ Head(queue).kind = kind

Return == /\ running
          /\ \A i \in DOMAIN queue : queue[i].at > until
          /\ now' = until
          /\ running' = FALSE
          /\ UNCHANGED <<scenario, queue, robots, station, truth, downLinks, until,
                         injected, driven>>

\* The handler leaves robot r as s and the queue as q.
RobotDone(r, s, q) ==
    /\ now' = Head(queue).at
    /\ robots' = [robots EXCEPT ![r] = s]
    /\ queue' = q
    /\ UNCHANGED <<scenario, truth, until, running, injected>>

\* Mutant of AtNode: an arriving robot does not sense.
AtNodeBlind(r, at) ==
    Quiet(IF InTransit(robots[r]) THEN Arrived(r, robots[r]) ELSE robots[r])

(* advance_robot.  The event is the arrival of a robot in transit; unless  *)
(* the mission ended with it, the robot senses and then leaves again,      *)
(* or waits when it has nowhere to go.                                     *)
AtNode(r, at) ==
    LET p == robots[r]
    IN  IF ~InTransit(p) THEN Quiet(p)
        ELSE IF Arrived(r, p).mission_complete THEN Quiet(Arrived(r, p))
        ELSE Sensed(r, Arrived(r, p), truth, at)

Depart(r) ==
    /\ HasDue("advance") /\ Head(queue).robot = r
    /\ LET at == Head(queue).at
           s  == AtNode(r, at)
           p  == Departed(s.robot, at)
       IN  /\ CanDepart(s.robot)
           /\ \E q \in Sent(Tail(queue), Messages(r, s.emitted), at) :
                RobotDone(r, p, Enqueue(q, Advance(r, p.transit.arrival)))
           /\ driven' = [driven EXCEPT ![r] =
                           Append(@, <<p.transit.from, p.transit.to>>)]
    /\ UNCHANGED <<station, downLinks>>

\* Mutant of Park: the robot tries again within the tick.
ParkAtOnce(r) ==
    /\ HasDue("advance") /\ Head(queue).robot = r
    /\ LET at == Head(queue).at
           s  == AtNode(r, at)
       IN  /\ ~CanDepart(s.robot) /\ ~s.robot.mission_complete
           /\ \E q \in Sent(Tail(queue), Messages(r, s.emitted), at) :
                RobotDone(r, s.robot, Enqueue(q, Advance(r, at)))
    /\ UNCHANGED <<station, downLinks, driven>>

Park(r) ==
    /\ HasDue("advance") /\ Head(queue).robot = r
    /\ LET at == Head(queue).at
           s  == AtNode(r, at)
       IN  /\ ~CanDepart(s.robot) /\ ~s.robot.mission_complete
           /\ \E q \in Sent(Tail(queue), Messages(r, s.emitted), at) :
                RobotDone(r, s.robot, Enqueue(q, Advance(r, at + RetryMs)))
    /\ UNCHANGED <<station, downLinks, driven>>

\* Mutant of EndChain: a robot with nowhere to go gives up.
EndChainStuck(r) ==
    /\ HasDue("advance") /\ Head(queue).robot = r
    /\ ~CanDepart(AtNode(r, Head(queue).at).robot)
    /\ RobotDone(r, AtNode(r, Head(queue).at).robot, Tail(queue))
    /\ UNCHANGED <<station, downLinks, driven>>

EndChain(r) ==
    /\ HasDue("advance") /\ Head(queue).robot = r
    /\ AtNode(r, Head(queue).at).robot.mission_complete
    /\ RobotDone(r, AtNode(r, Head(queue).at).robot, Tail(queue))
    /\ UNCHANGED <<station, downLinks, driven>>

\* A delivery handler: what arrives is reconciled and not passed on.
Deliver ==
    /\ HasDue("delivery")
    /\ LET e == Head(queue)
       IN  IF e.to = Station
           THEN /\ station' = Reconcile(e.delta, station)
                /\ UNCHANGED robots
           ELSE /\ robots' = [robots EXCEPT ![e.to] =
                                Learned(e.to, robots[e.to], e.delta)]
                /\ UNCHANGED station
    /\ now' = Head(queue).at
    /\ queue' = Tail(queue)
    /\ UNCHANGED <<scenario, truth, downLinks, until, running, injected,
                   driven>>

(* apply_scenario_event, by the kind of its action.                        *)
SetLink ==
    /\ HasDue("scripted") /\ Head(queue).action.kind = "set_link"
    /\ LET a == Head(queue).action
       IN  downLinks' = IF a.up THEN downLinks \ {<<a.from, a.to>>}
                                ELSE downLinks \cup {<<a.from, a.to>>}
    /\ now' = Head(queue).at
    /\ queue' = Tail(queue)
    /\ UNCHANGED <<scenario, robots, station, truth, until, running, injected,
                   driven>>

ObserveEdge ==
    /\ HasDue("scripted") /\ Head(queue).action.kind = "observe"
    /\ LET a  == Head(queue).action
           at == Head(queue).at
           s  == Observed(a.robot, Quiet(robots[a.robot]), a.edge, a.status, at)
       IN  \E q \in Sent(Tail(queue), Messages(a.robot, s.emitted), at) :
             RobotDone(a.robot, s.robot, q)
    /\ UNCHANGED <<station, downLinks, driven>>

\* The deltas Robot::resynchronize emits: the winners, in EdgeId order.
Winners(p) ==
    FlattenSeq([e \in Edges |->
                  IF Winner(p.knowledge, e) = {} THEN <<>>
                  ELSE <<CHOOSE d \in Winner(p.knowledge, e) : TRUE>>])

Resynchronize ==
    /\ HasDue("scripted") /\ Head(queue).action.kind = "resynchronize"
    /\ LET r == Head(queue).action.robot
           m == Messages(r, Winners(robots[r]))
       IN  \E q \in Sent(Tail(queue), m, Head(queue).at) :
             RobotDone(r, robots[r], q)
    /\ UNCHANGED <<station, downLinks, driven>>

(* Truth changes first, then every robot senses, in declaration order.     *)
SetWorldEdgeState ==
    /\ HasDue("scripted") /\ Head(queue).action.kind = "world"
    /\ LET a     == Head(queue).action
           at    == Head(queue).at
           facts == [truth EXCEPT ![a.edge] = a.status]
           s     == [r \in Robots |-> Sensed(r, robots[r], facts, at)]
           m     == FlattenSeq([r \in Robots |-> Messages(r, s[r].emitted)])
       IN  /\ truth' = facts
           /\ robots' = [r \in Robots |-> s[r].robot]
           /\ queue' \in Sent(Tail(queue), m, at)
    /\ now' = Head(queue).at
    /\ UNCHANGED <<scenario, station, downLinks, until, running, injected,
                   driven>>

-----------------------------------------------------------------------------
HandleEvent ==
    \/ \E r \in Robots : Depart(r) \/ Park(r) \/ EndChain(r)
    \/ Deliver
    \/ SetLink
    \/ ObserveEdge
    \/ Resynchronize
    \/ SetWorldEdgeState

(* run_until is a loop of one thread: once called, it goes on.  This is    *)
(* weak fairness of HandleEvent \/ Return, with "running" in the place of  *)
(* its ENABLED: while a call runs, an event is due or the call returns,    *)
(* and no other step is taken.                                             *)
KeepsRunning == []<>(~running) \/ []<><<running>>_vars

-----------------------------------------------------------------------------
Delta == [edge : Edges, status : EdgeStatus, observed_at : Nat,
          source : Robots, source_sequence : Nat \ {0}]

Event == [at : Nat, kind : {"advance"}, robot : Robots]
         \cup [at : Nat, kind : {"delivery"}, to : Endpoints, delta : Delta]
         \cup [at : Nat, kind : {"scripted"}, action : Actions]

Knowledge == [overlay : SUBSET Delta, version : Nat, progression : SUBSET Delta]

Transit == [edge : Edges, from : Map.nodes, to : Map.nodes,
            departed_at : Nat, arrival : Nat]

Route == [found : BOOLEAN, nodes : Seq(Map.nodes), edges : Seq(Edges)]

Robot == [position : Map.nodes, transit : Transit \cup {NoTransit},
          mission_complete : BOOLEAN, knowledge : Knowledge,
          route : Route,
          streams : [Edges -> [last_sequence : Nat, last_observed_at : Nat]]]

\* On the road it has left its node on, and never after its mission.
OnTheRoad(r, p) ==
    /\ InTransit(p) =>
         /\ p.transit.from = p.position
         /\ Ends(Map, p.transit.edge) = {p.transit.from, p.transit.to}
         /\ ~p.mission_complete
    /\ p.mission_complete => p.position = Goal(r)

\* The variables have their types.
TypeOK ==
    /\ scenario \in DOMAIN Scenarios
    /\ now \in Nat /\ until \in Nat /\ injected \in Nat
    /\ running \in BOOLEAN
    /\ queue \in Seq(Event)
    /\ robots \in [Robots -> Robot]
    /\ \A r \in Robots : OnTheRoad(r, robots[r])
    /\ station \in Knowledge
    /\ truth \in [Edges -> EdgeStatus]
    /\ downLinks \subseteq Endpoints \X Endpoints
    /\ driven \in [Robots -> Seq(Map.nodes \X Map.nodes)]

\* The places in the queue of a robot's advance events.
Chain(r) == {i \in DOMAIN queue : queue[i].kind = "advance" /\ queue[i].robot = r}

(* A robot that moves has one advance event waiting, whatever it went      *)
(* through: it is the arrival of the traversal it is on, and no robot is   *)
(* lost, or driven twice as fast, when it parks, retries and leaves.  A    *)
(* robot whose mission is over has none, once it knows.                    *)
OneChainPerRobot ==
    Settings.moves =>
        \A r \in Robots :
            /\ \A i, j \in Chain(r) : i = j
            /\ InTransit(robots[r]) =>
                 \E i \in Chain(r) : queue[i].at = robots[r].transit.arrival
            /\ Chain(r) = {} =>
                 robots[r].mission_complete /\ ~InTransit(robots[r])

(* The part of a robot's route that is still ahead of it is the best route *)
(* under what it believes now, although it plans again only for edges that *)
(* open and for edges of its route that close (robot.hpp, the invariant of *)
(* class Robot).  "Ahead" starts where the traversal under way ends.       *)
RouteAhead(p) ==
    IF InTransit(p) /\ p.route.edges # <<>> /\ Head(p.route.nodes) # p.transit.to
    THEN [found |-> TRUE, nodes |-> Tail(p.route.nodes), edges |-> Tail(p.route.edges)]
    ELSE p.route

RouteAheadIsCurrent ==
    \A r \in Robots : RouteAhead(robots[r]) = CurrentPlan(r, robots[r])

(* What ADR-010 says of a robot on its way: the edge under its wheels is   *)
(* not part of its route.                                                  *)
RouteStartsAhead ==
    \A r \in Robots :
        InTransit(robots[r]) => ~UsesEdge(robots[r].route, robots[r].transit.edge)

\* r's belief of edge e is another robot's Blocked of this very tick.
OverruledNow(r, e) ==
    \E s \in Winner(robots[r].knowledge, e) :
        s.source # r /\ s.observed_at = now /\ s.status = "Blocked"

(* A robot that has just sensed -- it arrived and goes on, or truth        *)
(* changed -- believes the truth of every edge at its node, unless another *)
(* robot reported the edge Blocked at the same tick.                       *)
SensedIsBelieved ==
    [][ \A r \in Robots :
          \/ ~Settings.senses
          \/ /\ truth' = truth
             /\ robots'[r].position = robots[r].position \/ robots'[r].mission_complete
          \/ \A e \in Adjacency(Map, robots'[r].position) :
               \/ IsBlocked(robots'[r].knowledge, e) <=> (truth'[e] = "Blocked")
               \/ OverruledNow(r, e)'
      ]_vars

(* Every call of run_until comes back: no chain of events holds the clock  *)
(* at one tick, parked robots and zero latencies included.                 *)
EveryCallReturns == running ~> ~running

(* The line write_trace_geojson draws of a robot from its departures: the  *)
(* node left, unless the line ends there already, and the node headed for. *)
Trajectory(r) ==
    LET trip == driven[r]
        line[i \in 0..Len(trip)] ==
          IF i = 0 THEN <<>>
          ELSE LET from == trip[i][1]
                   sofar == line[i - 1]
               IN  (IF sofar # <<>> /\ Last(sofar) = from THEN sofar
                    ELSE Append(sofar, from)) \o <<trip[i][2]>>
    IN  line[Len(trip)]

(* It is the way driven: unbroken from the start of the mission to where   *)
(* the robot is or will next be, every piece of it a road in its allowed   *)
(* direction, and no departure without a piece (ADR-015).                  *)
TrajectoryIsDriven ==
    \A r \in Robots :
        LET line == IF driven[r] = <<>> THEN <<Start(r)>> ELSE Trajectory(r)
        IN  /\ Head(line) = Start(r)
            /\ Last(line) = EffectiveStart(robots[r])
            /\ Len(line) = Len(driven[r]) + 1
            /\ \A i \in 1..(Len(line) - 1) : IsHop(Map, {}, line[i], line[i + 1])
=============================================================================
