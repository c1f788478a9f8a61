--------------------------- MODULE ScenarioLoader ---------------------------
(***************************************************************************)
(* From a scenario document to the end of its run: ScenarioLoader reads    *)
(* the document block by block and refuses it whole at the first fault;    *)
(* ScenarioRunner, the network and the robots then check again what they   *)
(* are handed, and execute the events.  The subject is whether the checks  *)
(* before the run cover those during it, and in which order events run.    *)
(*                                                                         *)
(* A field of a document is a value, or Absent, or Malformed when it is    *)
(* of the wrong JSON kind.  Of the run only what can refuse is kept: the   *)
(* self-scheduling chains, the observations' ticks, the delivery ticks,    *)
(* the model switches, where each robot is and the latitude it believes to *)
(* be at.  What messages and knowledge come to is in Reconciliation and    *)
(* FleetRun: whether one is sent and which way a robot takes is a choice   *)
(* here.  That updates come in the order of their ticks is in Localization.*)
(***************************************************************************)
EXTENDS Agenda, FiniteSets, Geodesy

CONSTANTS
    Absent, Malformed,
    MaxTick,         \* the largest Tick: 2^64 - 1 in the code
    MaxByte,         \* the largest id and endpoint: 255 in the code
    MaxPpm,          \* the largest probability: a million in the code
    NodeNames,       \* the map: its nodes' names,
    Roads,           \* its edges, records [ends, cost, length] of the nodes
                     \* joined, a cost in units of one over CostScale and the
                     \* length in metres,
    CostScale,
    Geometries,      \* and its geographic side: Absent, or the latitudes
                     \* [nodes, roads] of some nodes and of the points of some
                     \* edges' polylines
    Networks, Movements, Sensings, Localizations, Durations, Stations,
    RobotLists, EventLists   \* what a document may hold in each block

ASSUME BoundsAssumption ==
    /\ MaxTick \in Nat \ {0} /\ MaxByte \in Nat /\ MaxPpm \in Nat
    /\ CostScale \in Nat \ {0}

ASSUME MapAssumption ==
    /\ \A road \in Roads :
          /\ road.ends \subseteq NodeNames
          /\ road.cost \in Nat \ {0} /\ road.length \in Nat
    /\ \A g \in Geometries \ {Absent} :
          /\ DOMAIN g.nodes \subseteq NodeNames
          /\ \A n \in DOMAIN g.nodes : g.nodes[n] \in (-Pole)..Pole
          /\ \A ends \in DOMAIN g.roads :
                g.roads[ends] \in (SUBSET ((-Pole)..Pole)) \ {{}}

ASSUME AbsentAssumption == Absent \notin Int /\ Absent # Exception

\* Robots and events are JSON arrays, of whatever they hold.
ASSUME ArraysAssumption ==
    \A list \in RobotLists \cup EventLists : list \in Seq(Range(list))

VARIABLES
    geometry,    \* BaseMap::geometry()
    stage,       \* the block being read, or how far the run is
    scenario,    \* the Scenario so far
    file,        \* the document's events, in file order
    agenda,      \* EventQueue::queue_
    now,         \* SimulationClock::now_
    fleet,       \* per robot: the node it is at or on its way to, the edge it
                 \* is on, its gnss_models_, its odometry_at_ and the latitude
                 \* of its estimate
    observed,    \* Robot::streams_: the last tick of each (robot, edge)
    executed     \* history: the places in the file of the executed events

vars == <<geometry, stage, scenario, file, agenda, now, fleet, observed, executed>>
running == <<agenda, now, fleet, observed, executed>>

Tick == 0..MaxTick
Stages == {"network", "movement", "sensing", "localization", "duration", "station",
           "robots", "events", "loaded", "constructed", "running",
           "refused", "threw", "finished"}

\* Tick's operator+ is that of a 64-bit unsigned integer.
Plus(t, d) == (t + d) % (MaxTick + 1)

-----------------------------------------------------------------------------
(* Reading one field.                                                      *)

\* is_number_unsigned: what does not fit 64 bits is a floating number instead.
IsCount(v) == v \in Tick
IsPositive(v) == v \in Tick \ {0}
IfPresent(Ok(_), v) == v = Absent \/ Ok(v)
Default(v, d) == IF v = Absent THEN d ELSE v

\* Mutant of IsSmall: truncation to a byte is not guarded against.
IsAnyCount(v) == v \in Nat

IsSmall(v) == v \in 0..MaxByte

IsPpm(v) == v \in 0..MaxPpm
IsNumber(v) == v \in (-MaxReal)..MaxReal
Adjacent == {road.ends : road \in Roads}
EdgeNamed(pair) == {pair[1], pair[2]} \in Adjacent
IsStatus(v) == v \in {"open", "blocked"}

\* parse_gnss_model_spec: only the grammar, whatever the numbers are.
IsModelSpec(m) ==
    /\ m \notin {Absent, Malformed}
    /\ m.kind \in {"perfect", "unavailable", "noisy"}
    /\ m.kind = "noisy" => IfPresent(IsNumber, m.sigma) /\ IfPresent(IsNumber, m.turn)

\* position_axis_sigma_m and heading_sigma_rad.
Sigma(m) == IF m.kind = "noisy" THEN Default(m.sigma, 0) ELSE 0
TurnSigma(m) == IF m.kind = "noisy" THEN Default(m.turn, 0) ELSE 0

\* ScenarioRunner::make_gnss_model: NoisyGnss wants noises above or at 0.
IsModel(m) == Sigma(m) >= 0 /\ TurnSigma(m) >= 0

\* The fields of dead_reckoning, and DeadReckoningConfig::validate.
IsReckoning(r) ==
    /\ r # Malformed
    /\ IfPresent(IsNumber, r.scale) /\ IfPresent(IsNumber, r.drift)
    /\ Default(r.scale, 0) > -1

-----------------------------------------------------------------------------
Defaults ==
    [network      |-> [min |-> 1, max |-> 1],
     movement     |-> [enabled |-> FALSE, perCost |-> 1, retry |-> 1],
     sensing      |-> FALSE,
     localization |-> [enabled |-> FALSE, period |-> 1,
                       initial |-> [kind |-> "perfect"], reckoning |-> Absent],
     duration     |-> Absent,
     station      |-> Absent,
     robots       |-> <<>>,
     events       |-> <<>>]

Init == /\ geometry \in Geometries
        /\ stage = "network"
        /\ scenario = Defaults
        /\ file = <<>>
        /\ agenda = <<>>
        /\ now = 0
        /\ fleet = <<>>
        /\ observed = [stream \in {} |-> 0]
        /\ executed = <<>>

\* A fault anywhere throws: no scenario reaches the caller.
Refuse == /\ stage' = "refused"
          /\ scenario' = Defaults
          /\ file' = <<>>
          /\ UNCHANGED <<geometry, running>>

\* One block: taken over into the scenario if it is right.
Read(next, accepted, read) ==
    IF accepted
    THEN /\ stage' = next
         /\ scenario' = read
         /\ UNCHANGED <<geometry, file, running>>
    ELSE Refuse

NetworkAccepted(n) ==
    \/ n = Absent
    \/ /\ n # Malformed
       /\ IsCount(n.min) /\ IsCount(n.max) /\ n.min <= n.max
       /\ IfPresent(IsPpm, n.loss) /\ IfPresent(IsPpm, n.duplication)

ParseNetwork ==
    /\ stage = "network"
    /\ \E n \in Networks :
         Read("movement", NetworkAccepted(n),
              IF n = Absent THEN scenario
              ELSE [scenario EXCEPT !.network = [min |-> n.min, max |-> n.max]])

MovementAccepted(m) ==
    \/ m = Absent
    \/ /\ m # Malformed
       /\ IfPresent(IsPositive, m.perCost) /\ IfPresent(IsPositive, m.retry)

ParseMovement ==
    /\ stage = "movement"
    /\ \E m \in Movements :
         Read("sensing", MovementAccepted(m),
              IF m = Absent THEN scenario
              ELSE [scenario EXCEPT !.movement =
                      [enabled |-> TRUE, perCost |-> Default(m.perCost, @.perCost),
                       retry |-> Default(m.retry, @.retry)]])

ParseSensing ==
    /\ stage = "sensing"
    /\ \E mode \in Sensings :
         Read("localization", mode \in {Absent, "none", "perfect_local"},
              [scenario EXCEPT !.sensing = (mode = "perfect_local")])

LocalizationAccepted(l) ==
    \/ l = Absent
    \/ /\ l # Malformed
       /\ geometry # Absent
       /\ IfPresent(IsPositive, l.period)
       /\ IsModelSpec(l.initial)
       /\ IfPresent(IsReckoning, l.reckoning)

ParseLocalization ==
    /\ stage = "localization"
    /\ \E l \in Localizations :
         Read("duration", LocalizationAccepted(l),
              IF l = Absent THEN scenario
              ELSE [scenario EXCEPT !.localization =
                      [enabled |-> TRUE, period |-> Default(l.period, @.period),
                       initial |-> l.initial,
                       reckoning |->
                         IF l.reckoning = Absent THEN Absent
                         ELSE [scale |-> Default(l.reckoning.scale, 0),
                               drift |-> Default(l.reckoning.drift, 0)]]])

\* Mutant of DurationAccepted: only the samples are known to need a horizon.
SamplesNeedDuration(d) ==
    /\ IfPresent(IsCount, d)
    /\ d = Absent => ~scenario.localization.enabled

\* A chain that reschedules itself for ever needs a horizon.
DurationAccepted(d) ==
    /\ IfPresent(IsCount, d)
    /\ d = Absent => ~scenario.movement.enabled /\ ~scenario.localization.enabled

ParseDuration ==
    /\ stage = "duration"
    /\ \E d \in Durations :
         Read("station", DurationAccepted(d), [scenario EXCEPT !.duration = d])

ParseStation ==
    /\ stage = "station"
    /\ \E endpoint \in Stations :
         Read("robots", IfPresent(IsSmall, endpoint), [scenario EXCEPT !.station = endpoint])

-----------------------------------------------------------------------------
(* Robots, and the names that events may use.                              *)

RobotAccepted(r) ==
    /\ IsSmall(r.id) /\ IsSmall(r.endpoint)
    /\ r.start \in NodeNames /\ r.goal \in NodeNames

\* Mutant of NamesAreUnique: a robot may answer at the station's endpoint.
RobotNamesAreUnique(robots) ==
    \A i, j \in DOMAIN robots :
       i # j => /\ robots[i].name # robots[j].name
                /\ robots[i].id # robots[j].id
                /\ robots[i].endpoint # robots[j].endpoint

NamesAreUnique(robots) ==
    /\ \A i, j \in DOMAIN robots :
          i # j => /\ robots[i].name # robots[j].name
                   /\ robots[i].id # robots[j].id
                   /\ robots[i].endpoint # robots[j].endpoint
    /\ \A i \in DOMAIN robots : robots[i].endpoint # scenario.station

ParseRobots ==
    /\ stage = "robots"
    /\ \E robots \in RobotLists :
         Read("events",
              /\ robots # <<>>
              /\ \A i \in DOMAIN robots : RobotAccepted(robots[i])
              /\ NamesAreUnique(robots),
              [scenario EXCEPT !.robots = robots])

RobotNames == {scenario.robots[i].name : i \in DOMAIN scenario.robots}
RobotNamed(name) == CHOOSE r \in Range(scenario.robots) : r.name = name

\* The robots' names, then "station" unless a robot took it.
Participants == RobotNames \cup (IF scenario.station = Absent THEN {} ELSE {"station"})
EndpointOf(name) ==
    IF name \in RobotNames THEN RobotNamed(name).endpoint ELSE scenario.station

EventAccepted(e) ==
    /\ IsCount(e.at)
    /\ \/ e.action = "set_link_state" /\ {e.from, e.to} \subseteq Participants
       \/ /\ e.action = "observe_edge"
          /\ IsStatus(e.state) /\ e.robot \in RobotNames /\ EdgeNamed(e.edge)
       \/ e.action = "resynchronize" /\ e.robot \in RobotNames
       \/ e.action = "set_world_edge_state" /\ IsStatus(e.state) /\ EdgeNamed(e.edge)
       \/ /\ e.action = "set_gnss_model"
          /\ scenario.localization.enabled
          /\ e.robot \in RobotNames /\ IsModelSpec(e.model)

\* The author's names replaced by ids; "line" is the event's place in the file.
Resolved(e, line) ==
    CASE e.action = "set_link_state" ->
           [at |-> e.at, line |-> line, action |-> e.action,
            from |-> EndpointOf(e.from), to |-> EndpointOf(e.to)]
      [] e.action = "observe_edge" ->
           [at |-> e.at, line |-> line, action |-> e.action,
            robot |-> RobotNamed(e.robot).id, edge |-> {e.edge[1], e.edge[2]}]
      [] e.action = "resynchronize" ->
           [at |-> e.at, line |-> line, action |-> e.action,
            robot |-> RobotNamed(e.robot).id]
      [] e.action = "set_world_edge_state" ->
           [at |-> e.at, line |-> line, action |-> e.action,
            edge |-> {e.edge[1], e.edge[2]}]
      [] e.action = "set_gnss_model" ->
           [at |-> e.at, line |-> line, action |-> e.action,
            robot |-> RobotNamed(e.robot).id, model |-> e.model]

\* Mutant of Sorted: by tick, and otherwise as the sort leaves it.
SortedUnstably(events) ==
    LET Before(a, b) == a.at < b.at \/ (a.at = b.at /\ a.line > b.line)
    IN  SortSeq(events, Before)

\* std::stable_sort by tick, which is the order of an agenda.
Sorted(events) == EnqueueAll(<<>>, events)

ParseEvents ==
    /\ stage = "events"
    /\ \E events \in EventLists :
         IF \A i \in DOMAIN events : EventAccepted(events[i])
         THEN /\ stage' = "loaded"
              /\ file' = events
              /\ scenario' = [scenario EXCEPT !.events =
                                Sorted([i \in DOMAIN events |-> Resolved(events[i], i)])]
              /\ UNCHANGED <<geometry, running>>
         ELSE Refuse

-----------------------------------------------------------------------------
(* The run.                                                                *)

\* ScenarioRunner's constructor checks again what a program could have built.
Constructible ==
    LET s == scenario  l == scenario.localization
    IN  /\ s.movement.enabled => s.movement.perCost # 0 /\ s.movement.retry # 0
        /\ l.reckoning # Absent => l.reckoning.scale > -1 /\ l.enabled
        /\ l.enabled => /\ s.duration # Absent /\ l.period # 0
                        /\ geometry # Absent /\ IsModel(l.initial)

Construct ==
    /\ stage = "loaded"
    /\ stage' = IF Constructible THEN "constructed" ELSE "threw"
    /\ UNCHANGED <<geometry, scenario, file, running>>

\* NetworkSimulator's constructor and its add_endpoint for each participant.
Wirable ==
    LET robots == scenario.robots
        endpoints == [i \in DOMAIN robots |-> robots[i].endpoint] \o
                     (IF scenario.station = Absent THEN <<>> ELSE <<scenario.station>>)
    IN  /\ scenario.network.min <= scenario.network.max
        /\ scenario.network.max # MaxTick
        /\ IsInjective(endpoints)

Chain(kind) ==
    [i \in DOMAIN scenario.robots |-> [at |-> 0, action |-> kind, robot |-> i]]

\* A robot at its start, not yet localized.
AtStart(i) ==
    [node |-> scenario.robots[i].start, road |-> Absent,
     model |-> scenario.localization.initial, at |-> 0, latitude |-> Absent]

\* begin: the movement chains, the events in their order, the samples.
Begin ==
    /\ stage = "constructed"
    /\ stage' = IF Wirable THEN "running" ELSE "threw"
    /\ agenda' = IF ~Wirable THEN agenda
                 ELSE EnqueueAll(<<>>,
                        (IF scenario.movement.enabled THEN Chain("advance") ELSE <<>>) \o
                        scenario.events \o
                        (IF scenario.localization.enabled THEN Chain("sample") ELSE <<>>))
    /\ fleet' = IF ~Wirable THEN fleet ELSE [i \in DOMAIN scenario.robots |-> AtStart(i)]
    /\ UNCHANGED <<geometry, scenario, file, now, observed, executed>>

\* run_to_completion, to the horizon if there is one.
Due == /\ stage = "running"
       /\ agenda # <<>>
       /\ scenario.duration # Absent => Head(agenda).at <= scenario.duration

NextEvent == Head(agenda)

\* Popping the next event, if it is one of these.
Pop(actions) == Due /\ NextEvent.action \in actions /\ now' = NextEvent.at

\* An exception out of the event being executed leaves the run.  What the
\* event changed before is not looked at any more.
Throw == /\ stage' = "threw"
         /\ agenda' = Tail(agenda)
         /\ UNCHANGED <<geometry, scenario, file, fleet, observed, executed>>

\* schedule() refuses a tick in the past.
Reschedule(delay) ==
    LET next == Plus(NextEvent.at, delay)
    IN  /\ agenda' = IF next < NextEvent.at THEN Tail(agenda)
                     ELSE Enqueue(Tail(agenda), [NextEvent EXCEPT !.at = next])
        /\ stage' = IF next < NextEvent.at THEN "threw" ELSE stage
        /\ UNCHANGED <<geometry, scenario, file, observed, executed>>

RoundedUp(n, d) == -((-n) \div d)

TraversalTicks(cost) ==
    LET ticks == RoundedUp(cost * scenario.movement.perCost, CostScale)
    IN  IF ticks >= 1 THEN ticks ELSE 1

(* A message may be due beyond the largest tick: send throws out of the    *)
(* observation or the announcement that made it.                           *)
Undeliverable ==
    /\ Len(scenario.robots) > 1 \/ scenario.station # Absent
    /\ NextEvent.at + scenario.network.max > MaxTick

-----------------------------------------------------------------------------
(* Localization in the run.                                                *)

IsDrawn(road) == road.ends \in DOMAIN geometry.roads
IsLocated(road) == IsDrawn(road) \/ road.ends \subseteq DOMAIN geometry.nodes

\* truth_pose: a position between two points counts as one of them.
TruthPose(robot) ==
    IF robot.road = Absent
    THEN {IF robot.node \in DOMAIN geometry.nodes THEN geometry.nodes[robot.node]
          ELSE Exception}
    ELSE IF IsDrawn(robot.road) THEN geometry.roads[robot.road.ends]
    ELSE {IF IsLocated(robot.road) THEN geometry.nodes[n] ELSE Exception :
            n \in robot.road.ends}

\* GnssModel::measure.
Measured(model, latitude) ==
    IF model.kind = "unavailable" THEN {Absent}
    ELSE {Displaced(latitude, east, north) :
            east \in Noise(Sigma(model)), north \in Noise(Sigma(model))} \cup
         (IF \A turn \in Noise(TurnSigma(model)) : IsFinite(turn) THEN {} ELSE {Exception})

Reckons == scenario.localization.reckoning # Absent

\* The metres driven since odometry_at_, in full ones.
Motion(robot) ==
    IF robot.road = Absent \/ robot.at = NextEvent.at THEN 0
    ELSE RoundedUp(robot.road.length * (NextEvent.at - robot.at),
                   TraversalTicks(robot.road.cost))

\* advance_localization: what an estimate becomes, and with it the robot.
Reckoned(robot) ==
    IF robot.latitude = Absent THEN {Absent}
    ELSE Propagated(robot.latitude, Motion(robot), scenario.localization.reckoning,
                    robot.road # Absent => ~IsDrawn(robot.road))
Advanced(robot, latitude) ==
    IF Reckons THEN [robot EXCEPT !.at = NextEvent.at, !.latitude = latitude] ELSE robot

(* advance_robot: a robot on its way arrives, its pose is recorded and,    *)
(* short of its goal, a sensor may find something to report.  Then its     *)
(* mission is over, or it rests until the next try, or departs, as its     *)
(* knowledge has it.                                                       *)
Arrived(robot, latitude) == [Advanced(robot, latitude) EXCEPT !.road = Absent]

IsAtGoal(robot) == robot.node = scenario.robots[NextEvent.robot].goal

EndMission(robot) ==
    /\ IsAtGoal(robot)
    /\ agenda' = Tail(agenda)
    /\ fleet' = [fleet EXCEPT ![NextEvent.robot] = robot]
    /\ UNCHANGED <<geometry, stage, scenario, file, observed, executed>>

Park(robot) ==
    /\ ~IsAtGoal(robot)
    /\ Reschedule(scenario.movement.retry)
    /\ fleet' = [fleet EXCEPT ![NextEvent.robot] = robot]

Depart(robot) ==
    /\ ~IsAtGoal(robot)
    /\ \E road \in Roads :
         /\ robot.node \in road.ends
         /\ IF Reckons /\ ~IsLocated(road)
            THEN Throw
            ELSE /\ Reschedule(TraversalTicks(road.cost))
                 /\ \E to \in road.ends \ {robot.node} :
                      fleet' = [fleet EXCEPT ![NextEvent.robot] =
                                  [robot EXCEPT !.road = road, !.node = to]]

Advance ==
    /\ Pop({"advance"})
    /\ LET robot == fleet[NextEvent.robot]
           arrives == robot.road # Absent
       IN  \E latitude \in Reckoned(robot) :
             \/ /\ \/ latitude = Exception
                   \/ arrives /\ scenario.localization.enabled /\ Exception \in TruthPose(robot)
                   \/ arrives /\ ~IsAtGoal(robot) /\ scenario.sensing /\ Undeliverable
                /\ Throw
             \/ /\ latitude # Exception
                /\ ~(arrives /\ scenario.localization.enabled /\ Exception \in TruthPose(robot))
                /\ \/ EndMission(Arrived(robot, latitude))
                   \/ Park(Arrived(robot, latitude))
                   \/ Depart(Arrived(robot, latitude))

\* sample_gnss: odometry, the truth, its measurement, the fix.
Sample ==
    /\ Pop({"sample"})
    /\ LET robot == fleet[NextEvent.robot]
       IN  \E latitude \in Reckoned(robot), truth \in TruthPose(robot) :
             IF Exception \in {latitude, truth} THEN Throw
             ELSE \E fix \in Measured(robot.model, truth) :
                    IF fix = Exception THEN Throw
                    ELSE /\ Reschedule(scenario.localization.period)
                         /\ fleet' = [fleet EXCEPT ![NextEvent.robot] =
                                        Advanced(robot, IF fix = Absent THEN latitude ELSE fix)]

Actions == {"set_link_state", "observe_edge", "resynchronize", "set_world_edge_state",
            "set_gnss_model"}

\* What apply_scenario_event may find wrong.
Applicable(e) ==
    /\ e.action = "observe_edge" =>
         (<<e.robot, e.edge>> \in DOMAIN observed => e.at >= observed[<<e.robot, e.edge>>])
    /\ e.action = "set_gnss_model" => scenario.localization.enabled /\ IsModel(e.model)

\* Actions that may send: one senses, one announces, one observes.
Emits(e) ==
    \/ e.action \in {"observe_edge", "resynchronize"}
    \/ e.action = "set_world_edge_state" /\ scenario.sensing

\* index_of_robot.
IndexOf(id) == CHOOSE i \in DOMAIN scenario.robots : scenario.robots[i].id = id

Apply ==
    LET e == NextEvent
    IN  /\ Pop(Actions)
        /\ agenda' = Tail(agenda)
        /\ executed' = Append(executed, e.line)
        /\ \/ Applicable(e) /\ stage' = stage
           \/ Applicable(e) /\ Emits(e) /\ Undeliverable /\ stage' = "threw"
           \/ ~Applicable(e) /\ stage' = "threw"
        /\ observed' = IF Applicable(e) /\ e.action = "observe_edge"
                       THEN [stream \in DOMAIN observed \cup {<<e.robot, e.edge>>} |->
                               IF stream = <<e.robot, e.edge>> THEN e.at
                               ELSE observed[stream]]
                       ELSE observed
        /\ fleet' = IF Applicable(e) /\ e.action = "set_gnss_model"
                    THEN [fleet EXCEPT ![IndexOf(e.robot)].model = e.model] ELSE fleet
        /\ UNCHANGED <<geometry, scenario, file>>

Finish ==
    /\ stage = "running"
    /\ ~Due
    /\ stage' = "finished"
    /\ now' = IF scenario.duration = Absent THEN now ELSE scenario.duration
    /\ UNCHANGED <<geometry, scenario, file, agenda, fleet, observed, executed>>

Next == \/ ParseNetwork \/ ParseMovement \/ ParseSensing \/ ParseLocalization
        \/ ParseDuration \/ ParseStation \/ ParseRobots \/ ParseEvents
        \/ Construct \/ Begin \/ Advance \/ Sample \/ Apply \/ Finish

Spec == Init /\ [][Next]_vars

\* Loading and run_to_completion are one thread's calls: they keep going.
FairSpec == Spec /\ WF_vars(Next)

-----------------------------------------------------------------------------
(* Properties.                                                             *)

\* Ids and endpoints fit their byte, ticks their width, and the places kept
\* of the executed events are places in the file.
TypeOK ==
    /\ geometry \in Geometries
    /\ stage \in Stages
    /\ now \in Tick
    /\ scenario.network.min \in Tick /\ scenario.network.max \in Tick
    /\ scenario.duration \in Tick \cup {Absent}
    /\ scenario.station \in (0..MaxByte) \cup {Absent}
    /\ \A r \in Range(scenario.robots) :
          r.id \in 0..MaxByte /\ r.endpoint \in 0..MaxByte
    /\ \A e \in Range(agenda) : e.at \in Tick
    /\ executed \in Seq(DOMAIN file)

\* "Validates the whole description up front": what the loader lets through
\* is refused by nothing later -- not by the runner's constructor, not by the
\* network or a robot, and not by an event once the simulation runs.
LoadedRunsDoNotThrow == stage # "threw"

(* What the loader leaves to the author of a document.  A tick of the run  *)
(* plus a latency or a cadence must not go beyond the largest tick.        *)
LastTick ==
    IF scenario.duration # Absent THEN scenario.duration
    ELSE IF scenario.events = <<>> THEN 0
    ELSE scenario.events[Len(scenario.events)].at

TicksAreReasonable ==
    /\ scenario.network.max < MaxTick
    /\ LastTick + scenario.network.max <= MaxTick
    /\ scenario.movement.enabled =>
         /\ LastTick + scenario.movement.retry <= MaxTick
         /\ \A road \in Roads : LastTick + TraversalTicks(road.cost) <= MaxTick
    /\ scenario.localization.enabled => LastTick + scenario.localization.period <= MaxTick

\* The models a robot may measure with.
Models ==
    {scenario.localization.initial} \cup
    {e.model : e \in {f \in Range(scenario.events) : f.action = "set_gnss_model"}}

Latitudes ==
    Range(geometry.nodes) \cup UNION Range(geometry.roads)

\* How far a fix may be off the truth, and how fast a robot may go.
Spreads == {0} \cup {MaxNoise * Sigma(m) : m \in Models}
Pace(road) == RoundedUp(road.length, TraversalTicks(road.cost))
Paces == {0} \cup IF scenario.movement.enabled THEN {Pace(road) : road \in Roads} ELSE {}

(* Of the localization: the map has a position for every node; no noise is *)
(* negative, and none of a heading overflows; and neither a fix nor an     *)
(* estimate that drifts away from one for the whole run leaves the domain  *)
(* of the displacements, or that of a motion.                              *)
LocalizationIsReasonable ==
    /\ DOMAIN geometry.nodes = NodeNames
    /\ \A m \in Models : IsModel(m) /\ IsFinite(MaxNoise * TurnSigma(m))
    /\ \E spread \in Spreads, pace \in Paces :
         /\ \A s \in Spreads : s <= spread
         /\ \A p \in Paces : p <= pace
         /\ LET config == scenario.localization.reckoning
                motion == pace * LastTick
                creep == IF Reckons THEN motion * (1 + config.scale) ELSE 0
            IN  /\ Reckons => creep <= MaxMotion /\ IsFinite(motion * config.drift)
                /\ spread + creep > 0 =>
                     \A l \in Latitudes : Magnitude(l) + spread + creep <= Domain

IsReasonable ==
    TicksAreReasonable /\ (scenario.localization.enabled => LocalizationIsReasonable)

(* Nothing that the loader lets through throws later, unless it is one of  *)
(* these: neither the runner's constructor, nor the wiring, nor an event,  *)
(* a chain, a measurement or a message in the run.                         *)
ReasonableRunsDoNotThrow == stage = "threw" => ~IsReasonable

\* Events run in the order of their ticks and, within a tick, of the file;
\* none is passed over, and all up to the horizon have run in the end.
ExecutesInFileOrder ==
    LET Before(i, j) == \/ file[i].at < file[j].at
                        \/ file[i].at = file[j].at /\ i < j
    IN  /\ \A p, q \in DOMAIN executed : p < q => Before(executed[p], executed[q])
        /\ \A i \in DOMAIN file \ Range(executed) :
              \A p \in DOMAIN executed : Before(executed[p], i)
        /\ stage = "finished" =>
              \A i \in DOMAIN file \ Range(executed) :
                 scenario.duration # Absent /\ file[i].at > scenario.duration

\* Every such document that is accepted has a run that comes to its end.
AcceptedRunsFinish == stage = "loaded" /\ IsReasonable ~> stage = "finished"
=============================================================================
