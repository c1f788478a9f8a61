---------------------------- MODULE Localization ----------------------------
(***************************************************************************)
(* Where a robot is, where it thinks it is, and how it comes to think so:  *)
(* the movement chain and the GNSS sampling chain of one robot on the      *)
(* event queue, scripted and injected changes of the GNSS model, the truth *)
(* pose (fleet::world::truth_pose), the retained estimate                  *)
(* (fleet::localization::LocalizationTracker) and the robot's commanded    *)
(* motion dead reckoning (robot/odometry.cpp).  Robots do not meet in any  *)
(* of it, so one robot is enough.                                          *)
(*                                                                         *)
(* The earth is a grid: a heading is a number of quarter turns clockwise   *)
(* from north, a position <<east, north>>, a traversal a sequence of legs  *)
(* in the direction of travel.  The systematic errors of dead reckoning    *)
(* are zero here, and so is the rounding of doubles.  The planner is left  *)
(* out: the robot drives a given itinerary, and may find no route at any   *)
(* of its nodes, any number of times.                                      *)
(***************************************************************************)
EXTENDS Agenda, FiniteSets

CONSTANTS
    Itinerary,        \* the traversals: [legs, ticks], a leg is [length, heading]
    Scenarios,        \* what is run: records of period, retry (in ms), dead_reckoning
                      \* (is it on?), initial_model ("perfect", "unavailable" or
                      \* "noisy") and switches, a sequence of <<tick, model>>
    Injections,       \* the models an operator may switch to
    Offsets, Turns,   \* what noise adds to a position and to a heading
    MaxInjections,    \* bound: injections in one run
    Horizons          \* the ticks run_until is asked for

Heading == 0..3
Vector  == << <<0, 1>>, <<1, 0>>, <<0, -1>>, <<-1, 0>> >>

Shifted(p, v)   == <<p[1] + v[1], p[2] + v[2]>>
Times(n, v)     == <<n * v[1], n * v[2]>>
Along(heading)  == Vector[heading + 1]

Models  == {"perfect", "unavailable", "noisy"}
RoadLeg == [length : Nat, heading : Heading]

ASSUME TravelAssumption ==
    /\ Itinerary \in Seq([legs : Seq(RoadLeg), ticks : Nat \ {0}])
    \* the bearing of two equal points is north
    /\ \A i \in DOMAIN Itinerary : \A j \in DOMAIN Itinerary[i].legs :
         Itinerary[i].legs[j].length = 0 => Itinerary[i].legs[j].heading = 0

ASSUME ScenarioAssumption ==
    \A s \in Scenarios :
        /\ s.period \in Nat \ {0} /\ s.retry \in Nat \ {0}
        /\ s.dead_reckoning \in BOOLEAN /\ s.initial_model \in Models
        /\ s.switches \in Seq(Nat \X Models)

ASSUME BoundsAssumption ==
    /\ Injections \subseteq Models
    /\ Offsets \subseteq Int \X Int /\ Turns \subseteq Heading
    /\ MaxInjections \in Nat /\ Horizons \subseteq Nat

VARIABLES
    now, queue, until, running,     \* as in FleetRun
    injected,         \* bound: the injections made so far
    scenario,         \* the scenario that is run
    robot,            \* the robot; see Fresh
    rest_heading,     \* ScenarioRunner::rest_heading_rad_
    model,            \* ScenarioRunner::gnss_models_
    atFix,            \* history: the last fix and the truth of its tick
    samples           \* history: what each sample reported

vars == <<now, queue, until, running, injected, scenario, robot, rest_heading,
          model, atFix, samples>>

-----------------------------------------------------------------------------
(* Where the robot is.                                                     *)

\* How far along its legs the first i of a traversal reach.
Reach(legs, i) ==
    LET upto[k \in 0..i] == IF k = 0 THEN 0 ELSE upto[k - 1] + legs[k].length
    IN  upto[i]

Length(legs) == Reach(legs, Len(legs))

\* How much of leg k lies before the point "target" along the legs.
Within(legs, k, target) ==
    LET left == target - Reach(legs, k - 1)
    IN  IF left < 0 THEN 0
        ELSE IF left > legs[k].length THEN legs[k].length ELSE left

\* The point "target" along the legs from p.
PointOn(p, legs, target) ==
    LET upto[k \in 0..Len(legs)] ==
          IF k = 0 THEN p
          ELSE Shifted(upto[k - 1],
                       Times(Within(legs, k, target), Along(legs[k].heading)))
    IN  upto[Len(legs)]

\* The position of the node the itinerary's first n traversals lead to.
NodePosition(n) ==
    LET upto[k \in 0..n] ==
          IF k = 0 THEN <<0, 0>>
          ELSE PointOn(upto[k - 1], Itinerary[k].legs, Length(Itinerary[k].legs))
    IN  upto[n]

InTransit(r) == r.departed_at <= r.arrival

\* The traversal r is on, and how far on it r is at a tick.
Legs(r)      == Itinerary[r.node + 1].legs
Driven(r, t) == (Length(Legs(r)) * (t - r.departed_at)) \div Itinerary[r.node + 1].ticks

\* Mutant of LegAt: a corner belongs to the leg that ends there.
LegBefore(legs, target) ==
    CHOOSE i \in DOMAIN legs :
        /\ target <= Reach(legs, i)
        /\ \A j \in 1..(i - 1) : Reach(legs, j) < target

(* The leg that owns a point: half-open intervals, and the last leg of all *)
(* for the end -- a leg of no length too.                                  *)
LegAt(legs, target) ==
    IF \E i \in DOMAIN legs : target < Reach(legs, i)
    THEN CHOOSE i \in DOMAIN legs :
           /\ target < Reach(legs, i)
           /\ \A j \in 1..(i - 1) : Reach(legs, j) <= target
    ELSE Len(legs)

(* truth_pose, for the robot r that rests with this heading or moves.      *)
TruthPose(r, heading, t) ==
    [position |-> IF InTransit(r)
                  THEN PointOn(NodePosition(r.node), Legs(r), Driven(r, t))
                  ELSE NodePosition(r.node),
     heading  |-> IF InTransit(r) /\ Length(Legs(r)) > 0
                  THEN Legs(r)[LegAt(Legs(r), Driven(r, t))].heading
                  ELSE heading,
     at       |-> t]

-----------------------------------------------------------------------------
(* Where it thinks it is.  An estimate is a set of at most one pose.       *)

Fresh == [node |-> 0, departed_at |-> 1, arrival |-> 0,   \* not in transit
          estimate |-> {}, last_fix_at |-> {}, dead_reckoned |-> FALSE,
          missed |-> 0,
          odometry_at |-> 0, motion_heading |-> 0]

\* Mutant of Moves: only ground covered counts.
MovesInSpace(e, distance, turn, t) == distance # 0

\* An increment that is more than nothing for an estimate.
Moves(e, distance, turn, t) == t > e.at \/ distance # 0 \/ turn # 0

\* LocalizationTracker::propagate: turn, then go, and be at tick t.
Propagate(r, distance, turn, t) ==
    [r EXCEPT
       !.estimate = {[position |-> Shifted(e.position,
                        Times(distance, Along((e.heading + turn) % 4))),
                      heading  |-> (e.heading + turn) % 4,
                      at       |-> t] : e \in @},
       !.dead_reckoned =
          @ \/ \E e \in r.estimate : Moves(e, distance, turn, t)]

\* An update at t has to do with leg i.
Crossed(r, i, t) ==
    /\ Legs(r)[i].length > 0
    /\ Driven(r, t) >= Reach(Legs(r), i - 1)
    /\ Driven(r, r.odometry_at) < Reach(Legs(r), i)

\* How much of leg i an update at t covers.
Covered(r, i, t) ==
    LET from == Max({Driven(r, r.odometry_at), Reach(Legs(r), i - 1)})
        to   == Min({Driven(r, t), Reach(Legs(r), i)})
    IN  Max({0, to - from})

\* What an update of r at t makes, on leg i, of what the legs before it made: s.
OverLeg(r, s, i, t) ==
    IF Crossed(r, i, t)
    THEN [Propagate(s, Covered(r, i, t), Legs(r)[i].heading - s.motion_heading, t)
            EXCEPT !.motion_heading = Legs(r)[i].heading]
    ELSE s

(* Robot::advance_localization: the legs driven since the last update, in  *)
(* order, then the time that passed.                                       *)
AdvanceLocalization(r, t) ==
    LET n == IF InTransit(r) THEN Len(Legs(r)) ELSE 0
        after[i \in 0..n] == IF i = 0 THEN r ELSE OverLeg(r, after[i - 1], i, t)
    IN  IF scenario.dead_reckoning
        THEN [Propagate(after[n], 0, 0, t) EXCEPT !.odometry_at = t]
        ELSE r

\* Mutant of ApplySample: the misses are not forgotten.
ApplySampleCounting(r, fix) ==
    IF fix = {}
    THEN [r EXCEPT !.missed = @ + 1]
    ELSE [r EXCEPT !.estimate = fix, !.last_fix_at = {e.at : e \in fix},
                   !.dead_reckoned = FALSE]

\* LocalizationTracker::apply_sample.
ApplySample(r, fix) ==
    IF fix = {}
    THEN [r EXCEPT !.missed = @ + 1]
    ELSE [r EXCEPT !.estimate = fix, !.last_fix_at = {e.at : e \in fix},
                   !.dead_reckoned = FALSE, !.missed = 0]

\* What the models of gnss_model.cpp may measure.
Measurements(m, truth) ==
    CASE m = "perfect"     -> {{truth}}
      [] m = "unavailable" -> {{}}
      [] m = "noisy"       ->
           {{[truth EXCEPT !.position = Shifted(@, noise[1]),
                           !.heading = (@ + noise[2]) % 4]} :
              noise \in Offsets \X Turns}

-----------------------------------------------------------------------------
(* The chains.                                                             *)
Advance(at)          == [at |-> at, kind |-> "advance"]
Switch(m, at)        == [at |-> at, kind |-> "switch", model |-> m]
Sample(at)           == [at |-> at, kind |-> "sample"]

\* Mutant of Agendas: sampling is started before the script is scheduled.
AgendasSampleFirst(s) ==
    EnqueueAll(<<>>, <<Advance(0), Sample(0)>> \o
                     [i \in DOMAIN s |-> Switch(s[i][2], s[i][1])])

\* begin(): movement, then the script, then sampling.
Agendas(s) ==
    EnqueueAll(<<>>, <<Advance(0)>> \o
                     [i \in DOMAIN s |-> Switch(s[i][2], s[i][1])] \o
                     <<Sample(0)>>)

Init ==
    /\ now = 0 /\ until = 0 /\ running = FALSE /\ injected = 0
    /\ scenario \in Scenarios
    /\ queue = Agendas(scenario.switches)
    /\ robot = Fresh
    /\ rest_heading = 0
    /\ model = scenario.initial_model
    /\ atFix = {}
    /\ samples = <<>>

RunUntil(horizon) ==
    /\ ~running
    /\ horizon >= now
    /\ until' = horizon /\ running' = TRUE
    /\ UNCHANGED <<now, queue, injected, scenario, robot, rest_heading, model,
                   atFix, samples>>

Return ==
    /\ running
    /\ \A i \in DOMAIN queue : queue[i].at > until
    /\ now' = until
    /\ running' = FALSE
    /\ UNCHANGED <<queue, until, injected, scenario, robot, rest_heading, model,
                   atFix, samples>>

Inject(m, at) ==
    /\ ~running
    /\ injected < MaxInjections
    /\ at >= now
    /\ queue' = Enqueue(queue, Switch(m, at))
    /\ injected' = injected + 1
    /\ UNCHANGED <<now, until, running, scenario, robot, rest_heading, model,
                   atFix, samples>>

Pop(kind) ==
    /\ running
    /\ queue # <<>>
    /\ Head(queue).at <= until
    /\ Head(queue).kind = kind
    /\ now' = Head(queue).at
    /\ UNCHANGED <<until, running, injected, scenario>>

\* apply_scenario_event, for SetGnssModelAction: nothing is sampled.
SetGnssModel ==
    /\ Pop("switch")
    /\ model' = Head(queue).model
    /\ queue' = Tail(queue)
    /\ UNCHANGED <<robot, rest_heading, atFix, samples>>

\* Robot::complete_transit.
Completed(r) ==
    [AdvanceLocalization(r, r.arrival)
       EXCEPT !.node = @ + 1, !.departed_at = 1, !.arrival = 0]

\* Robot::begin_transit: an update on either side of it.
Begun(r, at) ==
    AdvanceLocalization(
        [AdvanceLocalization(r, at)
           EXCEPT !.departed_at = at,
                  !.arrival = at + Itinerary[r.node + 1].ticks], at)

\* Mutant of AtNode: the orientation is read when the transit is over.
AtNodeTurned(at) ==
    IF InTransit(robot)
    THEN [robot |-> Completed(robot),
          heading |-> TruthPose(Completed(robot), rest_heading, at).heading]
    ELSE [robot |-> robot, heading |-> rest_heading]

(* advance_robot, up to the decision to depart: an arrival keeps the       *)
(* orientation of the traversal it completes.                              *)
AtNode(at) ==
    IF InTransit(robot)
    THEN [robot |-> Completed(robot),
          heading |-> TruthPose(robot, rest_heading, at).heading]
    ELSE [robot |-> robot, heading |-> rest_heading]

\* The goal is the end of the itinerary.
Depart ==
    /\ Pop("advance")
    /\ LET at == Head(queue).at
           s  == AtNode(at)
       IN  /\ s.robot.node < Len(Itinerary)
           /\ robot' = Begun(s.robot, at)
           /\ rest_heading' = s.heading
           /\ queue' = Enqueue(Tail(queue), Advance(robot'.arrival))
    /\ UNCHANGED <<model, atFix, samples>>

\* No route is known here: begin_transit changes nothing.
Park ==
    /\ Pop("advance")
    /\ LET at == Head(queue).at
           s  == AtNode(at)
       IN  /\ s.robot.node < Len(Itinerary)
           /\ robot' = s.robot
           /\ rest_heading' = s.heading
           /\ queue' = Enqueue(Tail(queue), Advance(at + scenario.retry))
    /\ UNCHANGED <<model, atFix, samples>>

EndChain ==
    /\ Pop("advance")
    /\ LET s == AtNode(Head(queue).at)
       IN  /\ s.robot.node = Len(Itinerary)
           /\ robot' = s.robot
           /\ rest_heading' = s.heading
    /\ queue' = Tail(queue)
    /\ UNCHANGED <<model, atFix, samples>>

\* What the trace says of a sample that left the robot r as it was before it.
Report(at, r, fix) ==
    [at |-> at, model |-> model, fix |-> fix # {},
     reacquired |-> fix # {} /\ r.missed > 0 /\ r.estimate # {},
     since_last_fix |-> IF fix = {} THEN {} ELSE {at - l : l \in r.last_fix_at}]

(* sample_gnss: belief is brought up to now, then the active model's       *)
(* outcome is applied to it.                                               *)
SampleGnss(fix) ==
    /\ Pop("sample")
    /\ LET at    == Head(queue).at
           truth == TruthPose(robot, rest_heading, at)
           r     == AdvanceLocalization(robot, at)
       IN  /\ fix \in Measurements(model, truth)
           /\ robot' = ApplySample(r, fix)
           /\ atFix' = IF fix = {} THEN atFix
                       ELSE {[believed |-> e, true |-> truth] : e \in fix}
           /\ samples' = Append(samples, Report(at, r, fix))
           /\ queue' = Enqueue(Tail(queue), Sample(at + scenario.period))
    /\ UNCHANGED <<rest_heading, model>>

HandleEvent ==
    \/ SetGnssModel
    \/ Depart
    \/ Park
    \/ EndChain
    \/ \E fix \in Measurements(model, TruthPose(robot, rest_heading, Head(queue).at)) :
         SampleGnss(fix)

Next == \/ HandleEvent
        \/ Return
        \/ \E horizon \in Horizons : RunUntil(horizon)
        \/ \E m \in Injections, at \in UNION {0..horizon : horizon \in Horizons} :
             Inject(m, at)

Spec == Init /\ [][Next]_vars

-----------------------------------------------------------------------------
Rotated(turn, v) == CASE turn = 0 -> v
                      [] turn = 1 -> <<v[2], -v[1]>>
                      [] turn = 2 -> <<-v[1], -v[2]>>
                      [] turn = 3 -> <<-v[2], v[1]>>

(* Dead reckoning carries the error of the last fix along and adds none:   *)
(* what the robot believes its motion since that fix was is its true       *)
(* motion, turned by the error of the fix's heading.  However the legs,    *)
(* arrivals, waits and departures of a traversal fell between the updates, *)
(* each of them is counted once (ADR-019, the update timing).              *)
BeliefIsRigid ==
    scenario.dead_reckoning =>
        \A e \in robot.estimate, f \in atFix :
            e.at = now =>
                LET truth == TruthPose(robot, rest_heading, now)
                    turn  == (f.believed.heading - f.true.heading) % 4
                    moved == Shifted(truth.position, Times(-1, f.true.position))
                IN  /\ e.heading = (truth.heading + turn) % 4
                    /\ e.position = Shifted(f.believed.position,
                                           Rotated(turn, moved))

\* The heading of the last leg driven on the first n traversals, repeated
\* points not counted; north if nothing was driven.
LastHeading(n) ==
    LET upto[k \in 0..n] ==
          IF k = 0 THEN 0
          ELSE LET legs   == Itinerary[k].legs
                   driven == {i \in DOMAIN legs : legs[i].length > 0}
               IN  IF driven = {} THEN upto[k - 1] ELSE legs[Max(driven)].heading
    IN  upto[n]

(* A robot at rest faces the way it last travelled, north if it never did  *)
(* (ADR-018, stationary orientation).                                      *)
RestsAsItTravelled == ~InTransit(robot) => rest_heading = LastHeading(robot.node)

(* No handler about to run refuses its tick: dead reckoning never goes     *)
(* backward, nor past an arrival, the age of an estimate is never          *)
(* negative, and truth is never asked for before a departure.              *)
NoHandlerThrows ==
    LET t == Head(queue).at
    IN  /\ robot.odometry_at <= t
        /\ \A e \in robot.estimate : e.at <= t
        /\ InTransit(robot) => robot.departed_at <= t /\ t <= robot.arrival

(* A belief the trace labels "gnss" is the last fix, unchanged: an outage  *)
(* never erases or alters it, and without dead reckoning nothing does.     *)
UndriftedBeliefIsTheFix ==
    /\ ~robot.dead_reckoned => robot.estimate = {f.believed : f \in atFix}
    /\ ~scenario.dead_reckoning => ~robot.dead_reckoned

(* A sample is taken with the model of the last loaded switch of its tick  *)
(* or an earlier one, although both are events of the same queue and the   *)
(* switch of tick 0 competes with the first sample.                        *)
LoadedSwitchesComeFirst ==
    injected = 0 =>
        \A i \in DOMAIN samples :
            LET switches == scenario.switches
                due == {j \in DOMAIN switches : switches[j][1] <= samples[i].at}
                last == CHOOSE j \in due : \A k \in due :
                          \/ switches[k][1] < switches[j][1]
                          \/ switches[k][1] = switches[j][1] /\ k <= j
            IN  samples[i].model =
                  IF due = {} THEN scenario.initial_model ELSE switches[last][2]

(* A reacquisition is reported exactly for the fix that ends an outage,    *)
(* and the gap it reports is the samples missed, in whole periods; the     *)
(* first fix of all is none.                                               *)
ReacquisitionEndsAnOutage ==
    \A i \in DOMAIN samples :
        LET before == {j \in 1..(i - 1) : samples[j].fix}
        IN  /\ samples[i].reacquired <=>
                 samples[i].fix /\ before # {} /\ ~samples[i - 1].fix
            /\ samples[i].reacquired =>
                 samples[i].since_last_fix = {(i - Max(before)) * scenario.period}
=============================================================================
