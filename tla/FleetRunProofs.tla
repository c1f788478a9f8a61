--------------------------- MODULE FleetRunProofs ---------------------------
(***************************************************************************)
(* The invariants of a scenario run, for every map, every number of robots *)
(* and every scenario, whatever the network does to the messages and       *)
(* whatever is typed while the run stands still.                           *)
(*                                                                         *)
(* One inductive invariant, IInv, holds the four together.  A robot is on  *)
(* its current plan (Good), which is why its next departure is on a road   *)
(* it may drive; its departures so far are a trail to where it is or will  *)
(* next be (OnTrail); and its advance events are what its course calls for *)
(* (ChainOK), which is why the one that is popped finds it neither gone    *)
(* nor still on its way.                                                   *)
(***************************************************************************)
EXTENDS Console, OperatorLemmas

\* A scenario is under way.
Goes == scenario \in DOMAIN Scenarios

\* What the assumption on the settings says of the scenario that runs.
LEMMA ScenarioTypes ==
    ASSUME Goes
    PROVE  /\ Settings.mission \in [Robots -> Map.nodes \X Map.nodes]
           /\ Settings.latency \subseteq Nat
           /\ Settings.scripts \subseteq Seq(Nat \X Actions)
           /\ Settings.duration \in Nat /\ Settings.injections \in Nat
           /\ \A r \in Robots : Start(r) \in Map.nodes /\ Goal(r) \in Map.nodes
<1>1. IsScenario(Settings)
  BY SettingsAssumption DEF Goes, Settings
<1>. QED
  BY <1>1 DEF IsScenario, Start, Goal

\* A route on the map starts where it is to start.
LEMMA CanonicalRouteType ==
    ASSUME NEW blocked, NEW start \in Map.nodes, NEW goal \in Map.nodes
    PROVE  /\ CanonicalRoute(Map, blocked, start, goal) \in Route
           /\ CanonicalRoute(Map, blocked, start, goal).edges # <<>> =>
                Head(CanonicalRoute(Map, blocked, start, goal).nodes) = start
<1>1. IsGraph(Map)
  BY SettingsAssumption
<1>2. CASE CanonicalRoute(Map, blocked, start, goal) = NoRoute
  BY <1>2 DEF NoRoute, Route
<1>3. CASE CanonicalRoute(Map, blocked, start, goal) # NoRoute
  <2>1. PICK p : /\ IsWalk(Map, blocked, start, goal, p)
                 /\ CanonicalRoute(Map, blocked, start, goal) = RouteAlong(Map, p)
    BY <1>1, <1>3, CanonicalRouteCases
  <2>2. /\ RouteAlong(Map, p).nodes = p
        /\ RouteAlong(Map, p).edges \in Seq(EdgeIds(Map))
    BY <1>1, <2>1, RouteAlongAWalk
  <2>3. p \in Seq(Map.nodes) /\ p # <<>> /\ p[1] = start
    BY <2>1 DEF IsWalk, IsPath
  <2> DEFINE edges == RouteAlong(Map, p).edges
  <2>4. RouteAlong(Map, p) = [found |-> TRUE, nodes |-> p, edges |-> edges]
    BY DEF RouteAlong
  <2>5. edges \in Seq(Edges)
    BY <2>2 DEF Edges
  <2> HIDE DEF edges
  <2>. QED
    BY <2>1, <2>3, <2>4, <2>5 DEF Route
<1>. QED
  BY <1>2, <1>3

\* The plans worked out once are the routes of the map.
LEMMA PlanIsCanonical ==
    ASSUME Goes, NEW blocked \in SUBSET Edges, NEW start \in Map.nodes, NEW r \in Robots
    PROVE  Plan(blocked, start, Goal(r)) = CanonicalRoute(Map, blocked, start, Goal(r))
<1> DEFINE T == {Scenarios[i].mission[x][2] : i \in DOMAIN Scenarios, x \in Robots}
           it == [blocked |-> blocked, start |-> start, goal |-> Goal(r),
                  route |-> CanonicalRoute(Map, blocked, start, Goal(r))]
<1>1. Goal(r) \in T
  BY DEF Goes, Goal, Settings
<1> HIDE DEF T
<1>2. it \in Plans
  BY <1>1 DEF Plans, T
<1>3. \A q \in Plans : q.blocked = blocked /\ q.start = start /\ q.goal = Goal(r)
                         => q = it
  BY DEF Plans
<1> DEFINE P(q) == q.blocked = blocked /\ q.start = start /\ q.goal = Goal(r)
<1>4. P(it)
  OBVIOUS
<1> HIDE DEF it
<1>5. (CHOOSE q \in Plans : P(q)) = it
  BY <1>2, <1>3, <1>4
<1>6. Plan(blocked, start, Goal(r)) = (CHOOSE q \in Plans : P(q)).route
  BY DEF Plan
<1>7. it.route = CanonicalRoute(Map, blocked, start, Goal(r))
  BY DEF it
<1>. QED
  BY <1>5, <1>6, <1>7

-----------------------------------------------------------------------------
(* Robots.                                                                 *)

\* A robot of the right type, whose route ahead is the current plan.
Good(r, p) == /\ p \in Robot /\ OnTheRoad(r, p)
              /\ RouteAhead(p) = CurrentPlan(r, p)

\* Everything but the route is the same.
SameButRoute(p, q) ==
    /\ q.position = p.position /\ q.transit = p.transit
    /\ q.mission_complete = p.mission_complete
    /\ q.knowledge = p.knowledge /\ q.streams = p.streams

\* A robot plans from a node.
LEMMA EffectiveStartType ==
    ASSUME NEW p \in Robot
    PROVE  EffectiveStart(p) \in Map.nodes
BY DEF EffectiveStart, InTransit, Robot, Transit

\* The current plan is the canonical route under what the robot believes.
LEMMA CurrentPlanIs ==
    ASSUME Goes, NEW r \in Robots, NEW p \in Robot
    PROVE  /\ CurrentPlan(r, p) =
                CanonicalRoute(Map, BlockedEdges(p.knowledge), EffectiveStart(p), Goal(r))
           /\ CurrentPlan(r, p) \in Route
           /\ CurrentPlan(r, p).edges # <<>> => Head(CurrentPlan(r, p).nodes) = EffectiveStart(p)
<1> DEFINE blocked == BlockedEdges(p.knowledge)
           start == EffectiveStart(p)
<1>1. blocked \in SUBSET Edges
  BY DEF BlockedEdges
<1>2. start \in Map.nodes /\ Goal(r) \in Map.nodes
  BY EffectiveStartType, ScenarioTypes
<1>3. CurrentPlan(r, p) = Plan(blocked, start, Goal(r))
  BY DEF CurrentPlan
<1> HIDE DEF blocked, start
<1>4. CurrentPlan(r, p) = CanonicalRoute(Map, blocked, start, Goal(r))
  BY <1>1, <1>2, <1>3, PlanIsCanonical
<1>. QED
  BY <1>2, <1>4, CanonicalRouteType DEF blocked, start

\* Planning again leaves the robot on its current plan (Robot::replan).
LEMMA ReplannedIsGood ==
    ASSUME Goes, NEW r \in Robots, NEW p \in Robot, OnTheRoad(r, p)
    PROVE  Good(r, Replanned(r, p)) /\ SameButRoute(p, Replanned(r, p))
<1> DEFINE q == Replanned(r, p)
           plan == CurrentPlan(r, p)
<1>1. plan \in Route /\ (plan.edges # <<>> => Head(plan.nodes) = EffectiveStart(p))
  BY CurrentPlanIs
<1>2. q = [p EXCEPT !.route = plan]
  BY DEF Replanned
<1> HIDE DEF plan
<1>3. q \in Robot /\ SameButRoute(p, q) /\ q.route = plan
  BY <1>1, <1>2 DEF Robot, SameButRoute
<1> HIDE DEF q
<1>4. CurrentPlan(r, q) = plan
  BY <1>3 DEF SameButRoute, CurrentPlan, EffectiveStart, InTransit, plan
<1>5. OnTheRoad(r, q)
  BY <1>3 DEF OnTheRoad, SameButRoute, InTransit
<1>6. EffectiveStart(q) = EffectiveStart(p)
  BY <1>3 DEF SameButRoute, EffectiveStart, InTransit
<1>7. RouteAhead(q) = q.route
  BY <1>1, <1>3, <1>6 DEF RouteAhead, EffectiveStart
<1>. QED
  BY <1>3, <1>4, <1>5, <1>7 DEF Good, q

(* What reconcile() does to a participant's knowledge.                     *)
LEMMA ReconcileEffect ==
    ASSUME NEW k \in Knowledge, NEW d \in Delta
    PROVE  /\ Reconcile(d, k) \in Knowledge
           /\ Reconcile(d, k).overlay \in
                {k.overlay, (k.overlay \ Winner(k, d.edge)) \cup {d}}
<1>1. Apply(d, k) \in Knowledge
      /\ Apply(d, k).overlay \in {k.overlay, (k.overlay \ Winner(k, d.edge)) \cup {d}}
  <2>1. CASE d \in k.overlay
    BY <2>1 DEF Apply
  <2>2. CASE d \notin k.overlay
    <3> DEFINE won == (k.overlay \ Winner(k, d.edge)) \cup {d}
               next == k.version + 1
    <3>1. won \in SUBSET Delta /\ next \in Nat
      BY DEF Knowledge
    <3>2. Apply(d, k) = [k EXCEPT !.overlay = won, !.version = next]
      BY <2>2 DEF Apply, Knowledge
    <3> HIDE DEF won, next
    <3>. QED
      BY <3>1, <3>2 DEF Knowledge, won
  <2>. QED
    BY <2>1, <2>2
<1>2. ASSUME NEW m \in Knowledge
      PROVE  RecordProgression(d, m) \in Knowledge /\ RecordProgression(d, m).overlay = m.overlay
  BY DEF RecordProgression, Knowledge
<1>. QED
  BY <1>1, <1>2 DEF Reconcile

\* Reconciling a delta decides anew of its edge only (MapReconciler).
LEMMA BlockedAfter ==
    ASSUME NEW k \in Knowledge, NEW d \in Delta
    PROVE  \/ BlockedEdges(Reconcile(d, k)) = BlockedEdges(k)
           \/ /\ IsBlocked(k, d.edge) /\ ~IsBlocked(Reconcile(d, k), d.edge)
           \/ /\ ~IsBlocked(k, d.edge) /\ IsBlocked(Reconcile(d, k), d.edge)
              /\ BlockedEdges(Reconcile(d, k)) = BlockedEdges(k) \cup {d.edge}
<1> DEFINE n == Reconcile(d, k)
<1>1. n.overlay \in {k.overlay, (k.overlay \ Winner(k, d.edge)) \cup {d}}
  BY ReconcileEffect
<1>2. d.edge \in Edges
  BY DEF Delta
<1> HIDE DEF n
<1>3. ASSUME NEW e \in Edges, e # d.edge PROVE Winner(n, e) = Winner(k, e)
  BY <1>1, <1>3 DEF Winner
<1>4. \A e \in Edges : e # d.edge => (IsBlocked(n, e) <=> IsBlocked(k, e))
  BY <1>3 DEF IsBlocked
<1>5. \A e \in Edges : e # d.edge => (e \in BlockedEdges(n) <=> e \in BlockedEdges(k))
  BY <1>4 DEF BlockedEdges
<1>6. /\ d.edge \in BlockedEdges(n) <=> IsBlocked(n, d.edge)
      /\ d.edge \in BlockedEdges(k) <=> IsBlocked(k, d.edge)
      /\ BlockedEdges(n) \subseteq Edges /\ BlockedEdges(k) \subseteq Edges
  BY <1>2 DEF BlockedEdges
<1>7. CASE IsBlocked(n, d.edge) <=> IsBlocked(k, d.edge)
  <2>1. BlockedEdges(n) = BlockedEdges(k)
    BY <1>5, <1>6, <1>7
  <2>. QED
    BY <2>1 DEF n
<1>8. CASE ~IsBlocked(k, d.edge) /\ IsBlocked(n, d.edge)
  <2>1. BlockedEdges(n) = BlockedEdges(k) \cup {d.edge}
    BY <1>5, <1>6, <1>8
  <2>. QED
    BY <1>8, <2>1 DEF n
<1>. QED
  BY <1>7, <1>8 DEF n

\* Everything that moves is the same.
SameCourse(p, q) ==
    /\ q.position = p.position /\ q.transit = p.transit
    /\ q.mission_complete = p.mission_complete

(* A robot that plans again only for an edge that opens, and for one of    *)
(* its route that closes, keeps the best route ahead of it.                *)
LEMMA LearnedIsGood ==
    ASSUME Goes, NEW r \in Robots, NEW p, Good(r, p), NEW d \in Delta
    PROVE  /\ Good(r, Learned(r, p, d)) /\ SameCourse(p, Learned(r, p, d))
           /\ Learned(r, p, d).knowledge = Reconcile(d, p.knowledge)
           /\ Learned(r, p, d).streams = p.streams
<1> DEFINE n == Reconcile(d, p.knowledge)
           q == [p EXCEPT !.knowledge = n]
           opened == IsBlocked(p.knowledge, d.edge) /\ ~IsBlocked(q.knowledge, d.edge)
           closed == ~IsBlocked(p.knowledge, d.edge) /\ IsBlocked(q.knowledge, d.edge)
<1>1. p \in Robot /\ p.knowledge \in Knowledge /\ OnTheRoad(r, p)
  BY DEF Good, Robot
<1>2. n \in Knowledge
  BY <1>1, ReconcileEffect
<1>3. \/ BlockedEdges(n) = BlockedEdges(p.knowledge)
      \/ IsBlocked(p.knowledge, d.edge) /\ ~IsBlocked(n, d.edge)
      \/ /\ ~IsBlocked(p.knowledge, d.edge) /\ IsBlocked(n, d.edge)
         /\ BlockedEdges(n) = BlockedEdges(p.knowledge) \cup {d.edge}
  BY <1>1, BlockedAfter
<1> HIDE DEF n
<1>4. /\ q \in Robot /\ SameCourse(p, q) /\ q.knowledge = n
      /\ q.route = p.route /\ q.streams = p.streams
  BY <1>1, <1>2 DEF Robot, SameCourse
<1>5. Learned(r, p, d) = IF opened \/ (closed /\ UsesEdge(p.route, d.edge))
                         THEN Replanned(r, q) ELSE q
  BY DEF Learned, n
<1> HIDE DEF q
<1>6. OnTheRoad(r, q) /\ InTransit(q) = InTransit(p) /\ EffectiveStart(q) = EffectiveStart(p)
  BY <1>1, <1>4 DEF OnTheRoad, SameCourse, InTransit, EffectiveStart
<1>7. CASE opened \/ (closed /\ UsesEdge(p.route, d.edge))
  <2>1. Good(r, Replanned(r, q)) /\ SameButRoute(q, Replanned(r, q))
    BY <1>4, <1>6, ReplannedIsGood
  <2>2. Learned(r, p, d) = Replanned(r, q)
    BY <1>5, <1>7
  <2>. QED
    BY <1>4, <2>1, <2>2 DEF SameButRoute, SameCourse, n
<1>8. CASE ~(opened \/ (closed /\ UsesEdge(p.route, d.edge)))
  <2>1. Learned(r, p, d) = q
    BY <1>5, <1>8
  <2> DEFINE plan == CurrentPlan(r, p)
             B == BlockedEdges(p.knowledge)
             start == EffectiveStart(p)
  <2>2. RouteAhead(p) = plan
    BY DEF Good
  <2>3. plan = CanonicalRoute(Map, B, start, Goal(r))
    BY <1>1, CurrentPlanIs
  <2>4. CurrentPlan(r, q) = CanonicalRoute(Map, BlockedEdges(n), start, Goal(r))
    BY <1>4, <1>6, CurrentPlanIs
  <2>5. RouteAhead(q) = RouteAhead(p)
    BY <1>4, <1>6 DEF RouteAhead, SameCourse
  <2>6. start \in Map.nodes /\ Goal(r) \in Map.nodes /\ IsGraph(Map)
    BY <1>1, EffectiveStartType, ScenarioTypes, SettingsAssumption
  <2> HIDE DEF plan, B, start
  <2>7. CurrentPlan(r, q) = plan
    <3>1. CASE BlockedEdges(n) = B
      BY <2>3, <2>4, <3>1
    <3>2. CASE closed /\ BlockedEdges(n) = B \cup {d.edge}
      <4>1. ~UsesEdge(p.route, d.edge)
        BY <1>8, <3>2
      <4>2. ~UsesEdge(plan, d.edge)
        <5>1. CASE plan = p.route
          BY <4>1, <5>1
        <5>2. CASE /\ p.route.edges # <<>>
                   /\ plan = [found |-> TRUE, nodes |-> Tail(p.route.nodes),
                              edges |-> Tail(p.route.edges)]
          <6> DEFINE es == p.route.edges
                     later == Tail(es)
          <6>1. es \in Seq(Edges)
            BY <1>1 DEF Robot, Route
          <6>2. plan.edges = later
            BY <5>2
          <6>3. ASSUME NEW i \in DOMAIN later, later[i] = d.edge PROVE FALSE
            <7>1. i + 1 \in DOMAIN es /\ es[i + 1] = later[i]
              BY <5>2, <6>1, <6>3
            <7>. QED
              BY <4>1, <6>3, <7>1 DEF UsesEdge
          <6>. QED
            BY <6>2, <6>3 DEF UsesEdge
        <5>. QED
          BY <2>2, <5>1, <5>2 DEF RouteAhead
      <4>3. CanonicalRoute(Map, B \cup {d.edge}, start, Goal(r))
               = CanonicalRoute(Map, B, start, Goal(r))
        BY <2>3, <2>6, <4>2, OffRouteClosure
      <4>. QED
        BY <2>3, <2>4, <3>2, <4>3
    <3>. QED
      BY <1>3, <1>4, <1>8, <3>1, <3>2 DEF B
  <2>8. Good(r, q)
    BY <1>4, <1>6, <2>2, <2>5, <2>7 DEF Good
  <2>. QED
    BY <1>4, <2>1, <2>8 DEF n
<1>. QED
  BY <1>7, <1>8

Emitter(r) == {s \in [robot : Robot, emitted : Seq(Delta)] : Good(r, s.robot)}

\* A stream of r about an edge goes one further.
Noted(p, e, at) ==
    [p EXCEPT !.streams[e] =
        [last_sequence |-> p.streams[e].last_sequence + 1, last_observed_at |-> at]]

TheDelta(r, p, e, status, at) ==
    [edge |-> e, status |-> status, observed_at |-> at,
     source |-> r, source_sequence |-> p.streams[e].last_sequence + 1]

\* Counting an observation in its stream leaves the robot's plan as it is.
LEMMA NotedIsGood ==
    ASSUME NEW r \in Robots, NEW p, Good(r, p), NEW e \in Edges, NEW at \in Nat
    PROVE  /\ Good(r, Noted(p, e, at)) /\ SameCourse(p, Noted(p, e, at))
           /\ Noted(p, e, at).knowledge = p.knowledge
           /\ Noted(p, e, at).streams = [p.streams EXCEPT ![e] =
                [last_sequence |-> p.streams[e].last_sequence + 1, last_observed_at |-> at]]
<1> DEFINE q == Noted(p, e, at)
           new == [last_sequence |-> p.streams[e].last_sequence + 1, last_observed_at |-> at]
           streams == [p.streams EXCEPT ![e] = new]
<1>1. p \in Robot /\ OnTheRoad(r, p)
  BY DEF Good
<1>2. streams \in [Edges -> [last_sequence : Nat, last_observed_at : Nat]]
  BY <1>1 DEF Robot
<1>3. q = [p EXCEPT !.streams = streams]
  BY <1>1 DEF Noted, Robot
<1> HIDE DEF streams
<1>4. /\ q \in Robot /\ SameCourse(p, q) /\ q.knowledge = p.knowledge /\ q.streams = streams
      /\ q.route = p.route
  BY <1>1, <1>2, <1>3 DEF Robot, SameCourse
<1> HIDE DEF q
<1>5. OnTheRoad(r, q)
  BY <1>1, <1>4 DEF OnTheRoad, SameCourse, InTransit
<1>6. RouteAhead(q) = CurrentPlan(r, q)
  BY <1>4 DEF Good, RouteAhead, CurrentPlan, SameCourse, EffectiveStart, InTransit
<1>. QED
  BY <1>4, <1>5, <1>6 DEF Good, q, streams

\* Robot::observe: the robot stays on its plan, and emits a delta.
LEMMA ObservedIsGood ==
    ASSUME Goes, NEW r \in Robots, NEW s \in Emitter(r), NEW e \in Edges,
           NEW status \in EdgeStatus, NEW at \in Nat
    PROVE  LET d == TheDelta(r, s.robot, e, status, at)
               q == Observed(r, s, e, status, at)
           IN  /\ d \in Delta
               /\ q \in Emitter(r)
               /\ q.robot = Learned(r, Noted(s.robot, e, at), d)
               /\ q.emitted = Append(s.emitted, d)
               /\ SameCourse(s.robot, q.robot)
<1> DEFINE d == TheDelta(r, s.robot, e, status, at)
           noted == Noted(s.robot, e, at)
<1>1. Good(r, s.robot) /\ s.robot \in Robot /\ s.emitted \in Seq(Delta)
  BY DEF Emitter
<1>2. d \in Delta
  BY <1>1 DEF TheDelta, Delta, Robot
<1>3. Observed(r, s, e, status, at) =
        [robot |-> Learned(r, noted, d), emitted |-> Append(s.emitted, d)]
  BY DEF Observed, Noted, TheDelta
<1>4. Good(r, noted) /\ SameCourse(s.robot, noted)
  BY <1>1, NotedIsGood
<1> HIDE DEF d, noted
<1>5. Good(r, Learned(r, noted, d)) /\ SameCourse(noted, Learned(r, noted, d))
  BY <1>2, <1>4, LearnedIsGood
<1>6. Append(s.emitted, d) \in Seq(Delta)
  BY <1>1, <1>2
<1>7. Observed(r, s, e, status, at) \in Emitter(r)
  BY <1>3, <1>5, <1>6 DEF Emitter, Good
<1>. QED
  BY <1>2, <1>3, <1>4, <1>5, <1>7 DEF SameCourse, d, noted

(* Sensing goes through the edges one by one.                              *)
LEMMA SensedByStep ==
    ASSUME Goes, NEW r \in Robots, NEW p, Good(r, p), NEW facts \in [Edges -> EdgeStatus],
           NEW at \in Nat,
           NEW K \in [0..Len(Map.ends) -> SUBSET Emitter(r)],
           Quiet(p) \in K[0], Settings.senses,
           \A e \in 1..Len(Map.ends) : \A s \in K[e - 1] :
              /\ \/ e \notin Adjacency(Map, p.position)
                 \/ IsBlocked(s.robot.knowledge, e) <=> (facts[e] = "Blocked")
                 => s \in K[e]
              /\ e \in Adjacency(Map, p.position)
                 /\ ~(IsBlocked(s.robot.knowledge, e) <=> (facts[e] = "Blocked"))
                 => Observed(r, s, e, facts[e], at) \in K[e]
    PROVE  Sensed(r, p, facts, at) \in K[Len(Map.ends)]
<1> DEFINE n == Len(Map.ends)
           D == Emitter(r)
           Skip(s, e) == \/ e \notin Adjacency(Map, p.position)
                         \/ IsBlocked(s.robot.knowledge, e) <=> (facts[e] = "Blocked")
           Go(s, e) == IF Skip(s, e) THEN s ELSE Observed(r, s, e, facts[e], at)
           Steps(f) == f = [e \in 0..Len(Map.ends) |->
                IF e = 0 THEN Quiet(p)
                ELSE LET s == f[e - 1]
                     IN  IF \/ e \notin Adjacency(Map, p.position)
                            \/ IsBlocked(s.robot.knowledge, e) <=> (facts[e] = "Blocked")
                         THEN s ELSE Observed(r, s, e, facts[e], at)]
           after == CHOOSE f : Steps(f)
           step == [e \in 1..n |-> [s \in D |-> Go(s, e)]]
<1>1. n \in Nat /\ \A e \in 1..n : e \in Edges
  BY SettingsAssumption DEF IsGraph, Edges, EdgeIds
<1>2. \A e \in 1..n : \A s \in D : Go(s, e) \in D
  BY <1>1, ObservedIsGood
<1>3. step \in [1..n -> [D -> D]]
  BY <1>2
<1>4. Quiet(p) \in D
  <2>1. Quiet(p) \in K[0] /\ 0 \in 0..n
    BY <1>1
  <2>. QED
    BY <2>1
<1>5. \A e \in 1..n : \A s \in D : step[e][s] = Go(s, e)
  OBVIOUS
<1> DEFINE first == Quiet(p)
<1> HIDE DEF n, D, step, first
<1>6. PICK f : Recurs(f, n, D, first, step)
  BY <1>1, <1>3, <1>4, Recursion DEF first
<1>7. Steps(f)
  <2>1. f \in [0..n -> D] /\ f[0] = first /\ \A e \in 1..n : f[e] = step[e][f[e - 1]]
    BY <1>6 DEF Recurs
  <2>2. ASSUME NEW e \in 0..n PROVE f[e] = IF e = 0 THEN Quiet(p) ELSE Go(f[e - 1], e)
    <3>1. CASE e = 0
      BY <2>1, <3>1 DEF first
    <3>2. CASE e # 0
      <4>1. e \in 1..n /\ e - 1 \in 0..n
        BY <1>1, <3>2
      <4>2. f[e - 1] \in D
        BY <2>1, <4>1
      <4>. QED
        BY <1>5, <2>1, <3>2, <4>1, <4>2
    <3>. QED
      BY <3>1, <3>2
  <2>3. f = [e \in 0..n |-> IF e = 0 THEN Quiet(p) ELSE Go(f[e - 1], e)]
    BY <2>1, <2>2
  <2>. QED
    BY <2>3 DEF n
<1>8. Steps(after)
  <2> HIDE DEF Steps
  <2>. QED
    BY <1>7
<1>9. Sensed(r, p, facts, at) = after[n]
  BY DEF Sensed, n
<1>10. \A e \in 0..n : after[e] = IF e = 0 THEN Quiet(p) ELSE Go(after[e - 1], e)
  <2> HIDE DEF after
  <2>. QED
    BY <1>8 DEF n
<1> HIDE DEF after, Steps
<1> DEFINE T == {e \in Nat : e <= n => after[e] \in K[e]}
<1>11. 0 \in T
  BY <1>1, <1>10
<1>12. ASSUME NEW e \in Nat, e \in T PROVE e + 1 \in T
  <2>1. SUFFICES ASSUME e + 1 <= n PROVE after[e + 1] \in K[e + 1]
    OBVIOUS
  <2> DEFINE x == e + 1
  <2>2. x \in 1..n /\ x \in 0..n /\ x # 0 /\ x - 1 = e
    BY <1>1, <2>1
  <2>3. after[e] \in K[e]
    BY <1>12, <2>1, <1>1
  <2> HIDE DEF x
  <2>4. after[x] = Go(after[e], x) /\ after[e] \in K[x - 1]
    BY <1>10, <2>2, <2>3
  <2>5. after[x] \in K[x]
    <3>1. CASE Skip(after[e], x)
      BY <2>2, <2>4, <3>1 DEF n
    <3>2. CASE ~Skip(after[e], x)
      BY <2>2, <2>4, <3>2 DEF n
    <3>. QED
      BY <3>1, <3>2
  <2>. QED
    BY <2>5 DEF x
<1> HIDE DEF T
<1>13. n \in T
  BY <1>1, <1>11, <1>12, Ind
<1>. QED
  BY <1>1, <1>9, <1>13 DEF T, n

\* A handler begins with nothing emitted.
LEMMA QuietIsGood ==
    ASSUME NEW r \in Robots, NEW p, Good(r, p)
    PROVE  Quiet(p) \in Emitter(r) /\ Quiet(p).robot = p /\ Quiet(p).emitted = <<>>
BY DEF Quiet, Emitter, Good

\* Sensing moves nobody, and leaves the best route ahead.
LEMMA SensedIsGood ==
    ASSUME Goes, NEW r \in Robots, NEW p, Good(r, p), NEW facts \in [Edges -> EdgeStatus],
           NEW at \in Nat
    PROVE  /\ Sensed(r, p, facts, at) \in Emitter(r)
           /\ SameCourse(p, Sensed(r, p, facts, at).robot)
<1>1. CASE ~Settings.senses
  BY <1>1, QuietIsGood DEF Sensed, SameCourse
<1>2. CASE Settings.senses
  <2> DEFINE L == {s \in Emitter(r) : SameCourse(p, s.robot)}
             n == Len(Map.ends)
             K == [e \in 0..n |-> L]
  <2>1. n \in Nat /\ \A e \in 1..n : e \in Edges
    BY SettingsAssumption DEF IsGraph, Edges, EdgeIds
  <2>2. Quiet(p) \in L
    BY QuietIsGood DEF SameCourse
  <2>3. ASSUME NEW e \in 1..n, NEW s \in L PROVE Observed(r, s, e, facts[e], at) \in L
    <3>1. s \in Emitter(r) /\ e \in Edges /\ facts[e] \in EdgeStatus
      BY <2>1
    <3>2. /\ Observed(r, s, e, facts[e], at) \in Emitter(r)
          /\ SameCourse(s.robot, Observed(r, s, e, facts[e], at).robot)
      BY <3>1, ObservedIsGood
    <3>. QED
      BY <2>3, <3>2 DEF SameCourse
  <2>4. K \in [0..n -> SUBSET Emitter(r)] /\ \A e \in 0..n : K[e] = L
    OBVIOUS
  <2>5. K[0] = L /\ K[n] = L /\ \A e \in 1..n : K[e] = L /\ K[e - 1] = L
    BY <2>1, <2>4
  <2> HIDE DEF K, L
  <2>6. Sensed(r, p, facts, at) \in K[Len(Map.ends)]
    BY <1>2, <2>2, <2>3, <2>4, <2>5, SensedByStep
  <2>. QED
    BY <2>5, <2>6 DEF L
<1>. QED
  BY <1>1, <1>2

\* complete_transit: the robot stands where its plan starts from.
LEMMA ArrivedIsGood ==
    ASSUME Goes, NEW r \in Robots, NEW p, Good(r, p), InTransit(p)
    PROVE  LET q == Arrived(r, p)
           IN  /\ Good(r, q) /\ ~InTransit(q) /\ q.position = p.transit.to
               /\ q.mission_complete <=> p.transit.to = Goal(r)
               /\ q.knowledge = p.knowledge /\ q.streams = p.streams
<1> DEFINE done == p.mission_complete \/ p.transit.to = Goal(r)
           to == p.transit.to
           q == [p EXCEPT !.position = to, !.transit = NoTransit, !.mission_complete = done]
<1>1. p \in Robot /\ OnTheRoad(r, p)
  BY DEF Good
<1>2. to \in Map.nodes /\ done \in BOOLEAN /\ (done <=> to = Goal(r))
  BY <1>1 DEF Robot, Transit, InTransit, OnTheRoad
<1>3. Arrived(r, p) = Replanned(r, q)
  BY DEF Arrived
<1> HIDE DEF done, to
<1>4. /\ q \in Robot /\ q.position = to /\ q.transit = NoTransit /\ q.mission_complete = done
      /\ q.knowledge = p.knowledge /\ q.streams = p.streams
  BY <1>1, <1>2 DEF Robot
<1> HIDE DEF q
<1>5. OnTheRoad(r, q)
  BY <1>2, <1>4 DEF OnTheRoad, InTransit
<1>6. Good(r, Replanned(r, q)) /\ SameButRoute(q, Replanned(r, q))
  BY <1>4, <1>5, ReplannedIsGood
<1>. QED
  BY <1>2, <1>3, <1>4, <1>6 DEF SameButRoute, InTransit, to

(* A robot at its node -- where it was waiting, or where it arrives -- is  *)
(* good to leave.                                                          *)
LEMMA AtNodeIsGood ==
    ASSUME Goes, NEW r \in Robots, Good(r, robots[r]), truth \in [Edges -> EdgeStatus],
           NEW at \in Nat
    PROVE  LET p == robots[r]
               s == AtNode(r, at)
           IN  /\ s \in Emitter(r) /\ ~InTransit(s.robot)
               /\ s.robot.position = EffectiveStart(p)
               /\ IF InTransit(p) THEN s.robot.mission_complete <=> p.transit.to = Goal(r)
                                  ELSE s = Quiet(p)
<1> DEFINE p == robots[r]
           q == Arrived(r, p)
<1>1. CASE ~InTransit(p)
  BY <1>1, QuietIsGood DEF AtNode, EffectiveStart
<1>2. CASE InTransit(p)
  <2>1. /\ Good(r, q) /\ ~InTransit(q) /\ q.position = p.transit.to
        /\ q.mission_complete <=> p.transit.to = Goal(r)
    BY <1>2, ArrivedIsGood
  <2>2. EffectiveStart(p) = p.transit.to
    BY <1>2 DEF EffectiveStart
  <2>3. CASE q.mission_complete
    <3>1. AtNode(r, at) = Quiet(q)
      BY <1>2, <2>3 DEF AtNode
    <3>. QED
      BY <1>2, <2>1, <2>2, <2>3, <3>1, QuietIsGood
  <2>4. CASE ~q.mission_complete
    <3>1. AtNode(r, at) = Sensed(r, q, truth, at)
      BY <1>2, <2>4 DEF AtNode
    <3>2. /\ Sensed(r, q, truth, at) \in Emitter(r)
          /\ SameCourse(q, Sensed(r, q, truth, at).robot)
      BY <2>1, SensedIsGood
    <3>. QED
      BY <1>2, <2>1, <2>2, <3>1, <3>2 DEF SameCourse, InTransit
  <2>. QED
    BY <2>3, <2>4
<1>. QED
  BY <1>1, <1>2

(* A robot that departs goes a hop of the road graph, and the rest of its  *)
(* route is the best from the node it heads for.                           *)
LEMMA DepartedIsGood ==
    ASSUME Goes, NEW r \in Robots, NEW p, Good(r, p), CanDepart(p), NEW at \in Nat
    PROVE  LET q == Departed(p, at)
           IN  /\ Good(r, q) /\ InTransit(q)
               /\ q.transit.from = p.position /\ q.transit.from \in Map.nodes
               /\ q.transit.to = EffectiveStart(q) /\ q.transit.to \in Map.nodes
               /\ IsHop(Map, {}, q.transit.from, q.transit.to)
               /\ q.transit.arrival \in Nat /\ q.transit.arrival > at
               /\ q.position = p.position /\ q.knowledge = p.knowledge
               /\ q.mission_complete = p.mission_complete /\ q.streams = p.streams
<1> DEFINE route == p.route
           B == BlockedEdges(p.knowledge)
           start == p.position
           arrival == at + Map.cost[route.edges[1]] * MsPerCostUnit
           transit == [edge |-> route.edges[1], from |-> route.nodes[1],
                       to |-> route.nodes[2], departed_at |-> at, arrival |-> arrival]
           q == [p EXCEPT !.transit = transit]
<1>1. /\ p \in Robot /\ OnTheRoad(r, p) /\ ~InTransit(p) /\ ~p.mission_complete
      /\ RouteAhead(p) = CurrentPlan(r, p) /\ route.edges # <<>>
      /\ start \in Map.nodes /\ Goal(r) \in Map.nodes /\ IsGraph(Map)
  BY ScenarioTypes, SettingsAssumption DEF Good, CanDepart, Robot
<1>2. route = CanonicalRoute(Map, B, start, Goal(r))
  <2>1. route = CurrentPlan(r, p) /\ EffectiveStart(p) = start
    BY <1>1 DEF RouteAhead, EffectiveStart
  <2>. QED
    BY <1>1, <2>1, CurrentPlanIs
<1> HIDE DEF route, B, start
<1>3. PICK w : /\ IsWalk(Map, B, start, Goal(r), w)
               /\ route = RouteAlong(Map, w)
  BY <1>1, <1>2, CanonicalRouteCases, NoRouteIsNone
<1>4. /\ route.nodes = w /\ route.nodes \in Seq(Map.nodes) /\ route.edges \in Seq(EdgeIds(Map))
      /\ Len(route.edges) \in Nat /\ Len(route.nodes) = Len(route.edges) + 1
      /\ route.nodes[1] = start
      /\ \A i \in 1..Len(route.edges) : route.edges[i] = EdgeBetween(Map, w[i], w[i + 1])
  BY <1>1, <1>3, RouteAlongAWalk
<1>5. /\ 1 \in 1..Len(route.edges) /\ route.nodes[1] \in Map.nodes
      /\ route.nodes[2] \in Map.nodes /\ 1 \in 1..(Len(w) - 1)
  BY <1>1, <1>4
<1>6. IsHop(Map, B, w[1], w[2])
  <2>1. IsHop(Map, B, w[1], w[1 + 1])
    BY <1>3, <1>5 DEF IsWalk
  <2>. QED
    BY <2>1
<1>7. /\ route.edges[1] \in Edges
      /\ Ends(Map, route.edges[1]) = {route.nodes[1], route.nodes[2]}
      /\ Map.cost[route.edges[1]] \in Nat \ {0}
  <2>1. route.edges[1] = EdgeBetween(Map, w[1], w[2])
    BY <1>4, <1>5
  <2>. QED
    BY <1>1, <1>4, <1>6, <2>1, HopHasItsEdge DEF Edges
<1>8. IsHop(Map, {}, route.nodes[1], route.nodes[2])
  BY <1>4, <1>6 DEF IsHop, TraversableFrom
<1>9. arrival \in Nat /\ arrival > at
  <2> DEFINE c == Map.cost[route.edges[1]]
  <2>1. c \in Nat \ {0} /\ MsPerCostUnit \in Nat \ {0}
    BY <1>7, SettingsAssumption
  <2> HIDE DEF c
  <2>2. c * MsPerCostUnit \in Nat /\ c * MsPerCostUnit > 0
    BY <2>1
  <2>. QED
    BY <2>2 DEF c
<1>10. Departed(p, at) = q
  BY DEF Departed, route
<1> HIDE DEF arrival
<1>11. transit \in Transit /\ transit # NoTransit
  <2>1. transit.edge # 0
    <3>1. \A e \in Edges : e \in Nat \ {0}
      BY <1>1 DEF Edges, EdgeIds, IsGraph
    <3>. QED
      BY <1>7, <3>1
  <2>2. transit # NoTransit
    BY <2>1 DEF NoTransit
  <2>. QED
    BY <1>5, <1>7, <1>9, <2>2 DEF Transit
<1>12. /\ transit.edge = route.edges[1] /\ transit.from = route.nodes[1]
       /\ transit.to = route.nodes[2] /\ transit.arrival = arrival
  OBVIOUS
<1> HIDE DEF transit
<1>13. /\ q \in Robot /\ q.transit = transit /\ q.position = start /\ q.route = route
       /\ q.knowledge = p.knowledge /\ q.streams = p.streams
       /\ q.mission_complete = p.mission_complete
  BY <1>1, <1>11 DEF Robot, start, route
<1> HIDE DEF q
<1>14. InTransit(q) /\ EffectiveStart(q) = route.nodes[2]
  BY <1>11, <1>12, <1>13 DEF InTransit, EffectiveStart
<1>15. OnTheRoad(r, q)
  BY <1>1, <1>4, <1>7, <1>12, <1>13 DEF OnTheRoad
<1>16. RouteAhead(q) = CurrentPlan(r, q)
  <2> DEFINE ahead == [found |-> TRUE, nodes |-> Tail(route.nodes), edges |-> Tail(route.edges)]
  <2>1. route.nodes[1] # route.nodes[2]
    <3>1. 1 \in 1..Len(w) /\ 2 \in 1..Len(w)
      BY <1>4, <1>5
    <3>. QED
      BY <1>3, <1>4, <3>1 DEF IsWalk, IsPath
  <2>2. Head(route.nodes) = route.nodes[1]
    BY <1>4
  <2>3. RouteAhead(q) = ahead
    BY <1>1, <1>12, <1>13, <1>14, <2>1, <2>2 DEF RouteAhead
  <2> HIDE DEF ahead
  <2>4. CanonicalRoute(Map, B, route.nodes[2], Goal(r)) = ahead
    BY <1>1, <1>2, RouteAfterAHop DEF ahead
  <2>5. CurrentPlan(r, q) = CanonicalRoute(Map, B, route.nodes[2], Goal(r))
    BY <1>13, <1>14, CurrentPlanIs DEF B
  <2>. QED
    BY <2>3, <2>4, <2>5
<1>17. q.transit.to = EffectiveStart(q)
  BY <1>14 DEF EffectiveStart
<1>. QED
  BY <1>4, <1>5, <1>8, <1>9, <1>10, <1>12, <1>13, <1>14, <1>15, <1>16, <1>17
     DEF Good, start

\* Robot's constructor plans.
LEMMA NewRobotIsGood ==
    ASSUME Goes, NEW r \in Robots
    PROVE  /\ Good(r, NewRobot(r)) /\ ~InTransit(NewRobot(r))
           /\ NewRobot(r).position = Start(r)
           /\ NewRobot(r).knowledge = EmptyKnowledge
           /\ \A e \in Edges : NewRobot(r).streams[e].last_sequence = 0
<1> DEFINE streams == [e \in Edges |-> [last_sequence |-> 0, last_observed_at |-> 0]]
           done == Start(r) = Goal(r)
           p == [position  |-> Start(r), transit |-> NoTransit, mission_complete |-> done,
                 knowledge |-> EmptyKnowledge, route |-> NoRoute, streams |-> streams]
<1>1. /\ Start(r) \in Map.nodes /\ done \in BOOLEAN
      /\ EmptyKnowledge \in Knowledge /\ NoRoute \in Route
      /\ streams \in [Edges -> [last_sequence : Nat, last_observed_at : Nat]]
  BY ScenarioTypes DEF EmptyKnowledge, Knowledge, NoRoute, Route
<1>2. \A e \in Edges : streams[e].last_sequence = 0
  OBVIOUS
<1>3. NewRobot(r) = Replanned(r, p)
  BY DEF NewRobot
<1>4. done => Start(r) = Goal(r)
  OBVIOUS
<1> HIDE DEF streams, done
<1>5. /\ p \in Robot /\ p.transit = NoTransit /\ p.position = Start(r)
      /\ p.mission_complete = done
      /\ p.knowledge = EmptyKnowledge /\ p.streams = streams
  BY <1>1 DEF Robot
<1> HIDE DEF p
<1>6. OnTheRoad(r, p)
  BY <1>4, <1>5 DEF OnTheRoad, InTransit
<1>7. Good(r, Replanned(r, p)) /\ SameButRoute(p, Replanned(r, p))
  BY <1>5, <1>6, ReplannedIsGood
<1>. QED
  BY <1>2, <1>3, <1>5, <1>7 DEF SameButRoute, InTransit

-----------------------------------------------------------------------------
(* The network.                                                            *)

Message(D) == [from : Robots, to : Endpoints, delta : D]

\* The deliveries of these deltas, at this tick or later.
Deliveries(D, at) ==
    [at : {t \in Nat : t >= at}, kind : {"delivery"}, to : Endpoints, delta : D]

\* Whom a robot sends to: a sequence of participants.
LEMMA TargetsType ==
    ASSUME Goes, NEW r \in Robots
    PROVE  Targets(r) \in Seq(Endpoints)
<1> DEFINE others == [i \in 1..(NRobots - 1) |-> IF i < r THEN i ELSE i + 1]
           last == IF Settings.station THEN <<Station>> ELSE <<>>
<1>1. NRobots \in Nat /\ r \in 1..NRobots
  BY SettingsAssumption DEF Robots
<1>2. others \in [1..(NRobots - 1) -> Endpoints] /\ NRobots - 1 \in Nat
  BY <1>1 DEF Endpoints, Robots
<1>3. others \in Seq(Endpoints)
  <2> HIDE DEF others
  <2>. QED
    BY <1>2, FunctionIsSequence
<1>4. last \in Seq(Endpoints)
  <2>1. Station \in Endpoints
    BY DEF Endpoints
  <2>. QED
    BY <2>1, OneElement
<1>. QED
  BY <1>3, <1>4 DEF Targets

\* Messages are sent by the robot, and carry the deltas it emitted.
LEMMA MessagesType ==
    ASSUME Goes, NEW r \in Robots, NEW D, NEW deltas \in Seq(D)
    PROVE  Messages(r, deltas) \in Seq(Message(D))
<1> DEFINE to(i) == [j \in DOMAIN Targets(r) |->
                       [from |-> r, to |-> Targets(r)[j], delta |-> deltas[i]]]
           n == Len(deltas)
           ss == [i \in DOMAIN deltas |-> to(i)]
           M == Seq(Message(D))
<1>1. ASSUME NEW i \in 1..n PROVE to(i) \in M
  <2>1. Targets(r) \in Seq(Endpoints) /\ deltas[i] \in D
    BY TargetsType
  <2> DEFINE k == Len(Targets(r))
  <2>2. k \in Nat /\ DOMAIN Targets(r) = 1..k /\ \A j \in 1..k : Targets(r)[j] \in Endpoints
    BY <2>1
  <2> HIDE DEF k
  <2>3. to(i) \in [1..k -> Message(D)]
    BY <2>1, <2>2 DEF Message
  <2> HIDE DEF to
  <2>. QED
    BY <2>2, <2>3, FunctionIsSequence
<1>2. n \in Nat /\ DOMAIN deltas = 1..n
  OBVIOUS
<1> HIDE DEF to, n, M
<1>3. ss \in [1..n -> M]
  BY <1>1, <1>2
<1>4. ss \in Seq(M)
  <2> HIDE DEF ss
  <2>. QED
    BY <1>2, <1>3, FunctionIsSequence
<1>5. FlattenSeq(ss) \in Seq(Message(D))
  <2> HIDE DEF ss
  <2>. QED
    BY <1>4, FlattenSeqType DEF M
<1>. QED
  BY <1>5 DEF Messages, to

\* Some of New was enqueued in q.
Enqueues(q, after, New) == \E es \in Seq(New) : after = EnqueueAll(q, es)

(* A send schedules deliveries of what it sends, not before its tick.      *)
LEMMA SentIs ==
    ASSUME Goes, NEW D, NEW q, NEW messages \in Seq(Message(D)), NEW at \in Nat,
           NEW after \in Sent(q, messages, at)
    PROVE  Enqueues(q, after, Deliveries(D, at))
<1>1. PICK fates \in FatesOf(messages) :
        after = EnqueueAll(q,
                  FlattenSeq([i \in DOMAIN messages |->
                    [c \in DOMAIN fates[i] |->
                       Delivery(messages[i].to, messages[i].delta, at + fates[i][c])]]))
  BY DEF Sent
<1> DEFINE copies(i) == [c \in DOMAIN fates[i] |->
                           Delivery(messages[i].to, messages[i].delta, at + fates[i][c])]
           n == Len(messages)
           ss == [i \in DOMAIN messages |-> copies(i)]
           S == Seq(Deliveries(D, at))
<1>2. n \in Nat /\ DOMAIN messages = 1..n
  OBVIOUS
<1>3. ASSUME NEW i \in 1..n PROVE copies(i) \in S
  <2> DEFINE m == messages[i]
             fate == fates[i]
             k == Len(fate)
  <2>1. m \in Message(D) /\ fate \in Fates
    BY <1>2 DEF FatesOf
  <2>2. Latency \subseteq Nat
    BY ScenarioTypes DEF Latency
  <2> HIDE DEF m, fate
  <2>0. fate \in Seq(Nat)
    <3>1. CASE fate \in {<<l>> : l \in Latency}
      <4>1. PICK l \in Latency : fate = <<l>>
        BY <3>1
      <4>. QED
        BY <2>2, <4>1, OneElement
    <3>2. CASE fate = <<>>
      BY <3>2
    <3>3. CASE fate \in Latency \X Latency
      <4>1. fate = <<fate[1], fate[2]>> /\ fate[1] \in Latency /\ fate[2] \in Latency
        BY <3>3
      <4> DEFINE l == fate[1]
                 o == fate[2]
      <4>2. l \in Nat /\ o \in Nat /\ fate = <<l, o>>
        BY <2>2, <4>1
      <4> HIDE DEF l, o
      <4>. QED
        BY <4>2
    <3>. QED
      BY <2>1, <3>1, <3>2, <3>3 DEF Fates
  <2>3. k \in Nat /\ DOMAIN fate = 1..k /\ \A c \in 1..k : fate[c] \in Nat
    BY <2>0
  <2> HIDE DEF m, fate, k
  <2> DEFINE cs == [c \in 1..k |-> Delivery(m.to, m.delta, at + fate[c])]
  <2>4. cs \in [1..k -> Deliveries(D, at)]
    BY <2>1, <2>3 DEF Delivery, Deliveries, Message
  <2>5. copies(i) = cs
    BY <2>3 DEF m, fate
  <2> HIDE DEF cs, copies
  <2>. QED
    BY <2>3, <2>4, <2>5, FunctionIsSequence
<1> HIDE DEF copies, n, S
<1>4. ss \in [1..n -> S]
  BY <1>2, <1>3
<1>5. FlattenSeq(ss) \in Seq(Deliveries(D, at))
  <2> HIDE DEF ss
  <2>1. ss \in Seq(S)
    BY <1>2, <1>4, FunctionIsSequence
  <2>. QED
    BY <2>1, FlattenSeqType DEF S
<1>6. after = EnqueueAll(q, FlattenSeq(ss))
  BY <1>1 DEF copies
<1>. QED
  BY <1>5, <1>6 DEF Enqueues

\* after is q with some of New enqueued in it.
Grown(q, after, New) ==
    /\ after \in Seq(Event) /\ InOrder(after)
    /\ Range(q) \subseteq Range(after) /\ Range(after) \subseteq Range(q) \cup New
    /\ \A A : A \cap New = {} /\ Once(q, A) => Once(after, A)

\* An event has a tick.
LEMMA EventTicks == \A e \in Event : e.at \in Nat
BY DEF Event

\* An enqueued event is added, and the agenda stays in order.
LEMMA EnqueueGrows ==
    ASSUME NEW q \in Seq(Event), InOrder(q), NEW e \in Event
    PROVE  Grown(q, Enqueue(q, e), {e})
<1>1. Enqueue(q, e) \in Seq(Event)
  BY EnqueueShifts
<1>2. InOrder(Enqueue(q, e))
  <2>1. \A s \in Event : s.at \in Int
    BY EventTicks
  <2>. QED
    BY <2>1, EnqueueInOrder
<1>3. Range(Enqueue(q, e)) = Range(q) \cup {e}
  BY EnqueueAdds
<1>4. ASSUME NEW A, A \cap {e} = {}, Once(q, A) PROVE Once(Enqueue(q, e), A)
  BY <1>4, EnqueueOnce
<1>. QED
  BY <1>1, <1>2, <1>3, <1>4 DEF Grown

\* Events enqueued one after the other are added, and the order is kept.
LEMMA EnqueueAllGrows ==
    ASSUME NEW q \in Seq(Event), InOrder(q), NEW New, New \subseteq Event, NEW es \in Seq(New)
    PROVE  Grown(q, EnqueueAll(q, es), New)
<1> DEFINE n == Len(es)
           G == {p \in Seq(Event) : Grown(q, p, New)}
           K == [i \in 0..n |-> G]
<1>1. n \in Nat /\ es \in Seq(Event) /\ \A i \in 1..n : es[i] \in New
  OBVIOUS
<1>2. q \in G
  BY DEF Grown
<1>3. ASSUME NEW i \in 1..n, NEW p \in G PROVE Enqueue(p, es[i]) \in G
  <2>1. es[i] \in New /\ es[i] \in Event
    BY <1>1
  <2>2. p \in Seq(Event) /\ InOrder(p) /\ Grown(q, p, New)
    BY DEF Grown
  <2>3. Grown(p, Enqueue(p, es[i]), {es[i]})
    BY <2>1, <2>2, EnqueueGrows
  <2>4. \A A : A \cap New = {} => A \cap {es[i]} = {}
    BY <2>1
  <2>. QED
    BY <2>1, <2>2, <2>3, <2>4 DEF Grown
<1>4. K \in [0..n -> SUBSET Seq(Event)]
  OBVIOUS
<1>5. K[0] = G /\ K[n] = G /\ \A i \in 1..n : K[i] = G /\ K[i - 1] = G
  BY <1>1
<1> HIDE DEF K, G
<1>6. EnqueueAll(q, es) \in K[Len(es)]
  BY <1>1, <1>2, <1>3, <1>4, <1>5, EnqueueAllByStep
<1>. QED
  BY <1>5, <1>6 DEF G

-----------------------------------------------------------------------------
(* The queue.                                                              *)

\* Typed, in order, and nothing of it is in the past.
QueueOK(q, tick) ==
    /\ q \in Seq(Event) /\ InOrder(q)
    /\ \A e \in Range(q) : e.at >= tick

Advances(r) == {e \in Event : e.kind = "advance" /\ e.robot = r}

\* The advance events of r in q are what its course calls for.
ChainOK(q, r, p) ==
    IF Settings.moves
    THEN /\ Once(q, Advances(r))
         /\ InTransit(p) =>
              \E e \in Range(q) \cap Advances(r) : e.at = p.transit.arrival
         /\ Range(q) \cap Advances(r) = {} => p.mission_complete /\ ~InTransit(p)
    ELSE Range(q) \cap Advances(r) = {} /\ ~InTransit(p)

\* An event is of one of three kinds.
LEMMA EventCases ==
    ASSUME NEW e \in Event
    PROVE  /\ e.at \in Nat
           /\ e.kind = "advance" => e.robot \in Robots /\ e \in Advances(e.robot)
           /\ e.kind = "delivery" => e.to \in Endpoints /\ e.delta \in Delta
           /\ e.kind = "scripted" => e.action \in Actions
           /\ \A r : e \in Advances(r) => e.kind = "advance" /\ e.robot = r
BY DEF Event, Advances

\* What is left of the queue when its first event is popped.
LEMMA TailOf ==
    ASSUME NEW q, NEW tick \in Nat, QueueOK(q, tick), q # <<>>
    PROVE  /\ Head(q) \in Event /\ Head(q).at >= tick /\ Head(q).at \in Nat
           /\ QueueOK(Tail(q), Head(q).at)
           /\ Range(q) = Range(Tail(q)) \cup {Head(q)}
           /\ \A A : Once(q, A) => Once(Tail(q), A)
           /\ \A A : Once(q, A) /\ Head(q) \in A => Range(Tail(q)) \cap A = {}
<1> DEFINE t == Tail(q)
           h == Head(q)
<1>1. /\ q \in Seq(Event) /\ InOrder(q) /\ Len(q) \in Nat \ {0}
      /\ \A e \in Range(q) : e.at >= tick
  BY DEF QueueOK
<1>2. /\ t \in Seq(Event) /\ Len(t) = Len(q) - 1 /\ h = q[1]
      /\ \A i \in 1..Len(t) : t[i] = q[i + 1]
  BY <1>1
<1>3. h \in Event /\ h \in Range(q) /\ h.at >= tick /\ h.at \in Nat
  <2>1. 1 \in DOMAIN q
    BY <1>1
  <2>. QED
    BY <1>1, <1>2, <2>1, EventTicks DEF Range
<1> HIDE DEF t, h
<1>4. /\ \A i \in DOMAIN t : i + 1 \in DOMAIN q /\ t[i] = q[i + 1] /\ i \in Nat
      /\ \A i \in DOMAIN q : i = 1 \/ (i - 1 \in DOMAIN t /\ t[i - 1] = q[i])
      /\ 1 \in DOMAIN q /\ q[1] = h
  BY <1>1, <1>2
<1>5. Range(q) = Range(t) \cup {h}
  BY <1>4 DEF Range
<1>6. InOrder(t)
  <2> SUFFICES ASSUME NEW i \in DOMAIN t, NEW j \in DOMAIN t, i < j
               PROVE  t[i].at <= t[j].at
    BY DEF InOrder
  <2>1. i + 1 < j + 1
    BY <1>4
  <2>. QED
    BY <1>1, <1>4, <2>1 DEF InOrder
<1>7. \A e \in Range(t) : e.at >= h.at
  <2> SUFFICES ASSUME NEW i \in DOMAIN t PROVE t[i].at >= h.at
    BY DEF Range
  <2>1. q[1].at <= q[i + 1].at
    <3>1. 1 < i + 1
      BY <1>2
    <3>. QED
      BY <1>1, <1>4, <3>1 DEF InOrder
  <2>2. t[i] \in Event
    BY <1>2
  <2>. QED
    BY <1>3, <1>4, <2>1, <2>2, EventTicks
<1>8. ASSUME NEW A, Once(q, A) PROVE Once(t, A)
  <2> SUFFICES ASSUME NEW i \in DOMAIN t, NEW j \in DOMAIN t, t[i] \in A, t[j] \in A
               PROVE  i = j
    BY DEF Once
  <2>1. i + 1 = j + 1
    BY <1>4, <1>8 DEF Once
  <2>. QED
    BY <1>4, <2>1
<1>9. ASSUME NEW A, Once(q, A), h \in A PROVE Range(t) \cap A = {}
  <2> SUFFICES ASSUME NEW i \in DOMAIN t, t[i] \in A PROVE FALSE
    BY DEF Range
  <2>1. i + 1 = 1
    BY <1>4, <1>9 DEF Once
  <2>. QED
    BY <1>2, <2>1
<1>. QED
  BY <1>2, <1>3, <1>5, <1>6, <1>7, <1>8, <1>9 DEF QueueOK, t, h

(* What a send does to the queue: no more than deliveries are added.       *)
LEMMA SendKeeps ==
    ASSUME Goes, NEW tick \in Nat, NEW q, QueueOK(q, tick),
           NEW D \in SUBSET Delta, NEW messages \in Seq(Message(D)),
           NEW after \in Sent(q, messages, tick)
    PROVE  /\ QueueOK(after, tick)
           /\ Range(q) \subseteq Range(after)
           /\ Range(after) \subseteq Range(q) \cup Deliveries(D, tick)
           /\ \A r : Once(q, Advances(r)) => Once(after, Advances(r))
           /\ \A r : Range(after) \cap Advances(r) = Range(q) \cap Advances(r)
<1> DEFINE New == Deliveries(D, tick)
<1>0. Enqueues(q, after, New)
  BY SentIs
<1>1. PICK es \in Seq(New) : after = EnqueueAll(q, es)
  BY <1>0 DEF Enqueues
<1>2. New \subseteq Event
  BY DEF Deliveries, Event
<1>3. \A e \in New : e.at >= tick /\ e.kind = "delivery"
  BY DEF Deliveries
<1>4. \A r : Advances(r) \cap New = {}
  BY <1>3 DEF Advances
<1>5. q \in Seq(Event) /\ InOrder(q) /\ \A e \in Range(q) : e.at >= tick
  BY DEF QueueOK
<1> HIDE DEF New
<1>6. Grown(q, after, New)
  BY <1>1, <1>2, <1>5, EnqueueAllGrows
<1>7. Range(q) \subseteq Range(after) /\ Range(after) \subseteq Range(q) \cup New
  BY <1>6 DEF Grown
<1>8. QueueOK(after, tick)
  BY <1>3, <1>5, <1>6, <1>7 DEF Grown, QueueOK
<1>9. \A r : Once(q, Advances(r)) => Once(after, Advances(r))
  BY <1>4, <1>6 DEF Grown
<1>10. \A r : Range(after) \cap Advances(r) = Range(q) \cap Advances(r)
  BY <1>4, <1>7
<1>. QED
  BY <1>7, <1>8, <1>9, <1>10 DEF New

(* And what scheduling one event does.                                     *)
LEMMA ScheduleKeeps ==
    ASSUME NEW tick \in Nat, NEW q, QueueOK(q, tick), NEW e \in Event, e.at >= tick
    PROVE  /\ QueueOK(Enqueue(q, e), tick)
           /\ Range(Enqueue(q, e)) = Range(q) \cup {e}
           /\ \A A : Once(q, A) /\ (e \in A => Range(q) \cap A = {}) => Once(Enqueue(q, e), A)
<1>1. q \in Seq(Event) /\ InOrder(q) /\ \A x \in Range(q) : x.at >= tick
  BY DEF QueueOK
<1>2. Range(Enqueue(q, e)) = Range(q) \cup {e}
  BY <1>1, EnqueueAdds
<1>3. ASSUME NEW A, Once(q, A), e \in A => Range(q) \cap A = {} PROVE Once(Enqueue(q, e), A)
  BY <1>1, <1>3, EnqueueOnce
<1>4. Enqueue(q, e) \in Seq(Event) /\ InOrder(Enqueue(q, e))
  BY <1>1, EnqueueGrows DEF Grown
<1>. QED
  BY <1>1, <1>2, <1>3, <1>4 DEF QueueOK

\* As far as r's advance events go, after is as q.
ChainSame(q, after, r) ==
    /\ Once(q, Advances(r)) => Once(after, Advances(r))
    /\ Range(after) \cap Advances(r) = Range(q) \cap Advances(r)

\* A chain that is left alone is in order for a robot that stays on its course.
LEMMA ChainKept ==
    ASSUME NEW q, NEW after, NEW r, NEW p, NEW s,
           ChainOK(q, r, p), ChainSame(q, after, r), SameCourse(p, s)
    PROVE  ChainOK(after, r, s)
<1>1. InTransit(s) = InTransit(p)
  BY DEF SameCourse, InTransit
<1>. QED
  BY <1>1 DEF ChainOK, ChainSame, SameCourse

(* What a robot has driven, its departures one after the other: from its   *)
(* start to where it is or will next be, by roads that allow it.           *)
OnTrail(r, trip, p) ==
    /\ trip \in Seq(Map.nodes \X Map.nodes)
    /\ EffectiveStart(p) = IF trip = <<>> THEN Start(r) ELSE trip[Len(trip)][2]
    /\ trip # <<>> => trip[1][1] = Start(r)
    /\ \A i \in 1..Len(trip) : IsHop(Map, {}, trip[i][1], trip[i][2])
    /\ \A i \in 1..(Len(trip) - 1) : trip[i + 1][1] = trip[i][2]

\* A robot that does not leave a node leaves its trail as it is.
LEMMA TrailKept ==
    ASSUME NEW r, NEW trip, NEW p, NEW s, OnTrail(r, trip, p),
           EffectiveStart(s) = EffectiveStart(p)
    PROVE  OnTrail(r, trip, s)
BY DEF OnTrail

\* A departure carries the trail on to the node the robot heads for.
LEMMA TrailGoesOn ==
    ASSUME NEW r, NEW trip, NEW p, OnTrail(r, trip, p), NEW s,
           NEW from \in Map.nodes, NEW to \in Map.nodes, from = EffectiveStart(p),
           to = EffectiveStart(s), IsHop(Map, {}, from, to)
    PROVE  OnTrail(r, Append(trip, <<from, to>>), s)
<1> DEFINE longer == Append(trip, <<from, to>>)
           n == Len(trip)
<1>1. <<from, to>> \in Map.nodes \X Map.nodes
  OBVIOUS
<1>2. trip \in Seq(Map.nodes \X Map.nodes) /\ n \in Nat
  BY DEF OnTrail
<1>3. /\ longer \in Seq(Map.nodes \X Map.nodes) /\ Len(longer) = n + 1
      /\ longer[n + 1] = <<from, to>> /\ \A i \in 1..n : longer[i] = trip[i]
  BY <1>1, <1>2
<1> HIDE DEF longer
<1>4. longer # <<>> /\ longer[Len(longer)][2] = to
  BY <1>2, <1>3
<1>5. longer[1][1] = Start(r)
  <2>1. CASE n = 0
    <3>1. trip = <<>> /\ longer[1] = <<from, to>>
      BY <1>2, <1>3, <2>1
    <3>2. from = Start(r)
      BY <3>1 DEF OnTrail
    <3>. QED
      BY <3>1, <3>2
  <2>2. CASE n # 0
    <3>1. trip # <<>> /\ 1 \in 1..n
      BY <1>2, <2>2
    <3>. QED
      BY <1>3, <3>1 DEF OnTrail
  <2>. QED
    BY <2>1, <2>2
<1>6. ASSUME NEW i \in 1..(n + 1) PROVE IsHop(Map, {}, longer[i][1], longer[i][2])
  <2>1. CASE i = n + 1
    BY <1>3, <2>1
  <2>2. CASE i # n + 1
    <3>1. i \in 1..n
      BY <1>2, <2>2
    <3>. QED
      BY <1>3, <3>1 DEF OnTrail
  <2>. QED
    BY <2>1, <2>2
<1>7. ASSUME NEW i \in 1..n PROVE longer[i + 1][1] = longer[i][2]
  <2>1. CASE i = n
    <3>1. trip # <<>>
      BY <1>2, <2>1
    <3>2. from = trip[n][2]
      BY <3>1 DEF OnTrail
    <3>. QED
      BY <1>3, <2>1, <3>2
  <2>2. CASE i # n
    <3>1. i \in 1..(n - 1) /\ i + 1 \in 1..n
      BY <1>2, <2>2
    <3>. QED
      BY <1>3, <3>1 DEF OnTrail
  <2>. QED
    BY <2>1, <2>2
<1>8. 1..(Len(longer) - 1) = 1..n /\ 1..Len(longer) = 1..(n + 1)
  BY <1>2, <1>3
<1>. QED
  BY <1>3, <1>4, <1>5, <1>6, <1>7, <1>8 DEF OnTrail, longer

RobotOK(r, p, q, trip) == Good(r, p) /\ ChainOK(q, r, p) /\ OnTrail(r, trip, p)

-----------------------------------------------------------------------------
(* The inductive invariant.                                                *)
IInv ==
    /\ Goes
    /\ now \in Nat /\ until \in Nat /\ injected \in Nat /\ running \in BOOLEAN
    /\ QueueOK(queue, now)
    /\ robots \in [Robots -> Robot]
    /\ driven \in [Robots -> Seq(Map.nodes \X Map.nodes)]
    /\ station \in Knowledge
    /\ truth \in [Edges -> EdgeStatus]
    /\ downLinks \subseteq Endpoints \X Endpoints
    /\ \A r \in Robots : RobotOK(r, robots[r], queue, driven[r])

(* Every action of a robot or of the network leads from a state of the     *)
(* invariant to one if it does so for the parts it changes.                *)
LEMMA InvariantNext ==
    ASSUME IInv, scenario' = scenario,
           now' \in Nat, until' \in Nat, injected' \in Nat, running' \in BOOLEAN,
           QueueOK(queue', now'),
           robots' \in [Robots -> Robot],
           driven' \in [Robots -> Seq(Map.nodes \X Map.nodes)],
           station' \in Knowledge, truth' \in [Edges -> EdgeStatus],
           downLinks' \subseteq Endpoints \X Endpoints,
           \A r \in Robots : RobotOK(r, robots'[r], queue', driven'[r])
    PROVE  IInv'
BY DEF IInv, Goes, RobotOK, Good, OnTheRoad, CurrentPlan, Goal, Start, Settings, ChainOK,
       OnTrail

\* An advance event belongs to one robot.
LEMMA AdvanceIs ==
    ASSUME NEW r \in Robots, NEW at \in Nat
    PROVE  /\ Advance(r, at) \in Event /\ Advance(r, at).at = at
           /\ Advance(r, at) \in Advances(r)
           /\ \A o : Advance(r, at) \in Advances(o) => o = r
BY DEF Advance, Event, Advances

(* What holds when a robot's advance event is popped.                      *)
LEMMA AdvanceIsDue ==
    ASSUME IInv, NEW r \in Robots, HasDue("advance"), Head(queue).robot = r
    PROVE  LET at == Head(queue).at
               s  == AtNode(r, at)
           IN  /\ Settings.moves /\ at \in Nat
               /\ QueueOK(Tail(queue), at)
               /\ Range(Tail(queue)) \cap Advances(r) = {}
               /\ Once(Tail(queue), Advances(r))
               /\ \A o \in Robots \ {r} : ChainSame(queue, Tail(queue), o)
               /\ s \in Emitter(r) /\ ~InTransit(s.robot)
               /\ s.robot.position = EffectiveStart(robots[r])
               /\ Good(r, s.robot) /\ s.emitted \in Seq(Delta)
<1> DEFINE h == Head(queue)
           t == Tail(queue)
<1>1. queue # <<>> /\ h.kind = "advance" /\ now \in Nat /\ QueueOK(queue, now)
  BY DEF HasDue, IInv
<1>2. /\ h \in Event /\ h.at \in Nat /\ QueueOK(t, h.at)
      /\ Range(queue) = Range(t) \cup {h}
      /\ \A A : Once(queue, A) => Once(t, A)
      /\ \A A : Once(queue, A) /\ h \in A => Range(t) \cap A = {}
  BY <1>1, TailOf
<1>3. h \in Advances(r) /\ \A o : h \in Advances(o) => o = r
  BY <1>1, <1>2, EventCases
<1>4. ChainOK(queue, r, robots[r]) /\ Good(r, robots[r]) /\ Goes /\ truth \in [Edges -> EdgeStatus]
  BY DEF IInv, RobotOK
<1> HIDE DEF t
<1>5. Settings.moves /\ Once(queue, Advances(r))
  BY <1>2, <1>3, <1>4 DEF ChainOK
<1>6. \A o \in Robots \ {r} : ChainSame(queue, t, o)
  BY <1>2, <1>3 DEF ChainSame
<1>7. /\ AtNode(r, h.at) \in Emitter(r) /\ ~InTransit(AtNode(r, h.at).robot)
      /\ AtNode(r, h.at).robot.position = EffectiveStart(robots[r])
  BY <1>2, <1>4, AtNodeIsGood
<1>8. Good(r, AtNode(r, h.at).robot) /\ AtNode(r, h.at).emitted \in Seq(Delta)
  BY <1>7 DEF Emitter
<1>. QED
  BY <1>2, <1>3, <1>5, <1>6, <1>7, <1>8 DEF t

(* A robot that has handled its advance event and scheduled the next.      *)
LEMMA AdvancedOn ==
    ASSUME IInv, NEW r \in Robots, HasDue("advance"), Head(queue).robot = r,
           NEW q \in Sent(Tail(queue), Messages(r, AtNode(r, Head(queue).at).emitted),
                          Head(queue).at),
           NEW t \in Nat, t >= Head(queue).at
    PROVE  LET after == Enqueue(q, Advance(r, t))
           IN  /\ QueueOK(after, Head(queue).at)
               /\ Once(after, Advances(r))
               /\ Range(after) \cap Advances(r) = {Advance(r, t)}
               /\ \A o \in Robots \ {r} : ChainSame(queue, after, o)
<1> DEFINE at == Head(queue).at
           m == Messages(r, AtNode(r, at).emitted)
           rest == Tail(queue)
           after == Enqueue(q, Advance(r, t))
<1>1. /\ at \in Nat /\ QueueOK(rest, at) /\ Range(rest) \cap Advances(r) = {}
      /\ Once(rest, Advances(r))
      /\ \A o \in Robots \ {r} : ChainSame(queue, rest, o)
      /\ AtNode(r, at).emitted \in Seq(Delta)
  BY AdvanceIsDue
<1>2. Goes /\ m \in Seq(Message(Delta)) /\ Delta \in SUBSET Delta
  BY <1>1, MessagesType DEF IInv
<1>3. q \in Sent(rest, m, at)
  OBVIOUS
<1> HIDE DEF m, rest, at
<1>4. /\ QueueOK(q, at)
      /\ \A o : Once(rest, Advances(o)) => Once(q, Advances(o))
      /\ \A o : Range(q) \cap Advances(o) = Range(rest) \cap Advances(o)
  BY <1>1, <1>2, <1>3, SendKeeps
<1>5. /\ Advance(r, t) \in Event /\ Advance(r, t).at = t /\ Advance(r, t) \in Advances(r)
      /\ \A o : Advance(r, t) \in Advances(o) => o = r
  BY AdvanceIs
<1>6. t >= at
  BY DEF at
<1>7. /\ QueueOK(after, at)
      /\ Range(after) = Range(q) \cup {Advance(r, t)}
      /\ \A A : Once(q, A) /\ (Advance(r, t) \in A => Range(q) \cap A = {}) => Once(after, A)
  BY <1>1, <1>4, <1>5, <1>6, ScheduleKeeps
<1> HIDE DEF after
<1>8. Range(q) \cap Advances(r) = {} /\ Once(q, Advances(r))
  BY <1>1, <1>4
<1>9. Once(after, Advances(r)) /\ Range(after) \cap Advances(r) = {Advance(r, t)}
  BY <1>5, <1>7, <1>8
<1>10. ASSUME NEW o \in Robots \ {r} PROVE ChainSame(queue, after, o)
  <2>1. Advance(r, t) \notin Advances(o)
    BY <1>5
  <2>2. Range(after) \cap Advances(o) = Range(q) \cap Advances(o)
    BY <1>7, <2>1
  <2>3. Once(q, Advances(o)) => Once(after, Advances(o))
    BY <1>7, <2>1
  <2>. QED
    BY <1>1, <1>4, <2>2, <2>3 DEF ChainSame
<1>. QED
  BY <1>7, <1>9, <1>10 DEF after, at

(* A handler of one robot keeps the invariant if it does for that robot,   *)
(* and leaves the advance events of the others alone.                      *)
LEMMA OneRobotDone ==
    ASSUME IInv, queue # <<>>, NEW r \in Robots, NEW s, NEW q, RobotDone(r, s, q),
           QueueOK(q, Head(queue).at), RobotOK(r, s, q, driven'[r]),
           \A o \in Robots \ {r} : ChainSame(queue, q, o) /\ driven'[o] = driven[o],
           driven' \in [Robots -> Seq(Map.nodes \X Map.nodes)],
           station' = station, downLinks' = downLinks
    PROVE  IInv'
<1>1. QueueOK(queue, now) /\ now \in Nat
  BY DEF IInv
<1>2. Head(queue).at \in Nat
  BY <1>1, TailOf
<1>3. /\ now' = Head(queue).at /\ robots' = [robots EXCEPT ![r] = s] /\ queue' = q
      /\ scenario' = scenario /\ truth' = truth /\ until' = until /\ running' = running
      /\ injected' = injected
  BY DEF RobotDone
<1>4. s \in Robot
  BY DEF RobotOK, Good
<1>5. ASSUME NEW o \in Robots PROVE RobotOK(o, robots'[o], queue', driven'[o])
  <2>1. CASE o = r
    <3>1. robots'[o] = s
      BY <1>3, <2>1 DEF IInv
    <3>. QED
      BY <1>3, <2>1, <3>1
  <2>2. CASE o # r
    <3>1. robots'[o] = robots[o] /\ driven'[o] = driven[o] /\ ChainSame(queue, q, o)
      BY <1>3, <2>2 DEF IInv
    <3>2. RobotOK(o, robots[o], queue, driven[o])
      BY DEF IInv
    <3>3. ChainOK(q, o, robots[o])
      BY <3>1, <3>2, ChainKept DEF RobotOK, SameCourse
    <3>. QED
      BY <1>3, <3>1, <3>2, <3>3 DEF RobotOK
  <2>. QED
    BY <2>1, <2>2
<1>6. robots' \in [Robots -> Robot]
  BY <1>3, <1>4 DEF IInv
<1>. QED
  BY <1>2, <1>3, <1>5, <1>6, InvariantNext DEF IInv

\* advance_robot, when the robot leaves its node, keeps the invariant.
LEMMA DepartKeeps ==
    ASSUME IInv, NEW r \in Robots, Depart(r)
    PROVE  IInv'
<1> DEFINE at == Head(queue).at
           s == AtNode(r, at)
           p == Departed(s.robot, at)
           pair == <<p.transit.from, p.transit.to>>
<1>1. /\ HasDue("advance") /\ Head(queue).robot = r
      /\ CanDepart(s.robot)
      /\ driven' = [driven EXCEPT ![r] = Append(@, pair)]
      /\ station' = station /\ downLinks' = downLinks
  BY DEF Depart
<1>2. PICK q \in Sent(Tail(queue), Messages(r, s.emitted), at) :
        RobotDone(r, p, Enqueue(q, Advance(r, p.transit.arrival)))
  BY DEF Depart
<1>3. /\ Settings.moves /\ at \in Nat /\ Good(r, s.robot)
      /\ ~InTransit(s.robot) /\ s.robot.position = EffectiveStart(robots[r])
  BY <1>1, AdvanceIsDue
<1>4. Goes /\ queue # <<>> /\ RobotOK(r, robots[r], queue, driven[r])
      /\ driven \in [Robots -> Seq(Map.nodes \X Map.nodes)]
  BY <1>1 DEF IInv, HasDue
<1> DEFINE t == p.transit.arrival
           after == Enqueue(q, Advance(r, t))
<1>5. /\ Good(r, p) /\ InTransit(p)
      /\ p.transit.from = s.robot.position /\ p.transit.from \in Map.nodes
      /\ p.transit.to = EffectiveStart(p) /\ p.transit.to \in Map.nodes
      /\ IsHop(Map, {}, p.transit.from, p.transit.to)
      /\ t \in Nat /\ t > at
  BY <1>1, <1>3, <1>4, DepartedIsGood
<1>6. t \in Nat /\ t >= at
  BY <1>3, <1>5
<1> HIDE DEF p
<1>7. /\ QueueOK(after, at) /\ Once(after, Advances(r))
      /\ Range(after) \cap Advances(r) = {Advance(r, t)}
      /\ \A o \in Robots \ {r} : ChainSame(queue, after, o)
  BY <1>1, <1>6, AdvancedOn
<1>8. Advance(r, t).at = t /\ Advance(r, t) \in Advances(r)
  BY <1>6, AdvanceIs
<1>9. ChainOK(after, r, p)
  <2> HIDE DEF after
  <2>. QED
    BY <1>3, <1>5, <1>7, <1>8 DEF ChainOK
<1>10. OnTrail(r, driven'[r], p)
  <2>1. OnTrail(r, driven[r], robots[r]) /\ driven'[r] = Append(driven[r], pair)
    BY <1>1, <1>4 DEF RobotOK
  <2>2. p.transit.from = EffectiveStart(robots[r])
    BY <1>3, <1>5
  <2>. QED
    BY <1>5, <2>1, <2>2, TrailGoesOn
<1>11. driven' \in [Robots -> Seq(Map.nodes \X Map.nodes)]
  <2>1. driven'[r] \in Seq(Map.nodes \X Map.nodes) /\ driven'[r] = Append(driven[r], pair)
    BY <1>1, <1>4, <1>10 DEF OnTrail
  <2>. QED
    BY <1>1, <1>4, <2>1
<1>12. RobotOK(r, p, after, driven'[r])
  BY <1>5, <1>9, <1>10 DEF RobotOK
<1>13. \A o \in Robots \ {r} : driven'[o] = driven[o]
  BY <1>1, <1>4
<1> HIDE DEF after, s, at
<1>14. RobotDone(r, p, after)
  BY <1>2 DEF after
<1>. QED
  BY <1>1, <1>4, <1>7, <1>11, <1>12, <1>13, <1>14, OneRobotDone DEF at

\* advance_robot, when the robot waits and tries again, keeps the invariant.
LEMMA ParkKeeps ==
    ASSUME IInv, NEW r \in Robots, Park(r)
    PROVE  IInv'
<1> DEFINE at == Head(queue).at
           s == AtNode(r, at)
<1>1. /\ HasDue("advance") /\ Head(queue).robot = r
      /\ driven' = driven /\ station' = station /\ downLinks' = downLinks
  BY DEF Park
<1>2. PICK q \in Sent(Tail(queue), Messages(r, s.emitted), at) :
        RobotDone(r, s.robot, Enqueue(q, Advance(r, at + RetryMs)))
  BY DEF Park
<1>3. /\ Settings.moves /\ at \in Nat /\ Good(r, s.robot)
      /\ ~InTransit(s.robot) /\ s.robot.position = EffectiveStart(robots[r])
  BY <1>1, AdvanceIsDue
<1>4. Goes /\ queue # <<>> /\ RobotOK(r, robots[r], queue, driven[r])
      /\ driven \in [Robots -> Seq(Map.nodes \X Map.nodes)]
  BY <1>1 DEF IInv, HasDue
<1> DEFINE t == at + RetryMs
           after == Enqueue(q, Advance(r, t))
<1>5. t \in Nat /\ t >= at
  BY <1>3, SettingsAssumption
<1> HIDE DEF t
<1>6. /\ QueueOK(after, at) /\ Once(after, Advances(r))
      /\ Range(after) \cap Advances(r) = {Advance(r, t)}
      /\ \A o \in Robots \ {r} : ChainSame(queue, after, o)
  BY <1>1, <1>5, AdvancedOn
<1>7. ChainOK(after, r, s.robot)
  <2> HIDE DEF after, s
  <2>. QED
    BY <1>3, <1>6 DEF ChainOK
<1>8. OnTrail(r, driven'[r], s.robot)
  <2>1. OnTrail(r, driven[r], robots[r]) /\ EffectiveStart(s.robot) = s.robot.position
    BY <1>3, <1>4 DEF RobotOK, EffectiveStart
  <2>. QED
    BY <1>1, <1>3, <2>1, TrailKept
<1>9. RobotOK(r, s.robot, after, driven'[r])
  BY <1>3, <1>7, <1>8 DEF RobotOK
<1> HIDE DEF after, s, at
<1>10. RobotDone(r, s.robot, after)
  BY <1>2 DEF after, t
<1>. QED
  BY <1>1, <1>4, <1>6, <1>9, <1>10, OneRobotDone DEF at

\* advance_robot, when the mission is over, keeps the invariant.
LEMMA EndChainKeeps ==
    ASSUME IInv, NEW r \in Robots, EndChain(r)
    PROVE  IInv'
<1> DEFINE at == Head(queue).at
           s == AtNode(r, at)
           rest == Tail(queue)
<1>1. /\ HasDue("advance") /\ Head(queue).robot = r
      /\ s.robot.mission_complete /\ RobotDone(r, s.robot, rest)
      /\ driven' = driven /\ station' = station /\ downLinks' = downLinks
  BY DEF EndChain
<1>2. /\ Settings.moves /\ at \in Nat /\ Good(r, s.robot) /\ QueueOK(rest, at)
      /\ ~InTransit(s.robot) /\ s.robot.position = EffectiveStart(robots[r])
      /\ Range(rest) \cap Advances(r) = {} /\ Once(rest, Advances(r))
      /\ \A o \in Robots \ {r} : ChainSame(queue, rest, o)
  BY <1>1, AdvanceIsDue
<1>3. Goes /\ queue # <<>> /\ RobotOK(r, robots[r], queue, driven[r])
      /\ driven \in [Robots -> Seq(Map.nodes \X Map.nodes)]
  BY <1>1 DEF IInv, HasDue
<1> HIDE DEF rest, s
<1>4. ChainOK(rest, r, s.robot)
  BY <1>1, <1>2 DEF ChainOK
<1>5. OnTrail(r, driven'[r], s.robot)
  <2>1. OnTrail(r, driven[r], robots[r]) /\ EffectiveStart(s.robot) = s.robot.position
    BY <1>2, <1>3 DEF RobotOK, EffectiveStart
  <2>. QED
    BY <1>1, <1>2, <2>1, TrailKept
<1>6. RobotOK(r, s.robot, rest, driven'[r])
  BY <1>2, <1>4, <1>5 DEF RobotOK
<1>. QED
  BY <1>1, <1>2, <1>3, <1>6, OneRobotDone

(* What holds when another event is popped.                                *)
LEMMA OtherIsDue ==
    ASSUME IInv, NEW kind, kind # "advance", HasDue(kind)
    PROVE  /\ queue # <<>> /\ Head(queue) \in Event /\ Head(queue).kind = kind
           /\ Head(queue).at \in Nat /\ Head(queue).at >= now
           /\ QueueOK(Tail(queue), Head(queue).at)
           /\ Range(queue) = Range(Tail(queue)) \cup {Head(queue)}
           /\ \A r : ChainSame(queue, Tail(queue), r)
<1> DEFINE h == Head(queue)
           t == Tail(queue)
<1>1. queue # <<>> /\ h.kind = kind /\ now \in Nat /\ QueueOK(queue, now)
  BY DEF HasDue, IInv
<1>2. /\ h \in Event /\ h.at \in Nat /\ h.at >= now /\ QueueOK(t, h.at)
      /\ Range(queue) = Range(t) \cup {h}
      /\ \A A : Once(queue, A) => Once(t, A)
  BY <1>1, TailOf
<1>3. \A o : h \notin Advances(o)
  BY <1>1 DEF Advances
<1> HIDE DEF t
<1>4. \A o : ChainSame(queue, t, o)
  BY <1>2, <1>3 DEF ChainSame
<1>. QED
  BY <1>1, <1>2, <1>4 DEF t

\* Changes that leave a chain alone do so one after the other.
LEMMA ChainSameOnward ==
    ASSUME NEW q, NEW rest, NEW after, NEW r, ChainSame(q, rest, r),
           Once(rest, Advances(r)) => Once(after, Advances(r)),
           Range(after) \cap Advances(r) = Range(rest) \cap Advances(r)
    PROVE  ChainSame(q, after, r)
BY DEF ChainSame

\* A robot that stays on its course, its chain left alone, is in order.
LEMMA CourseKept ==
    ASSUME NEW r, NEW p, NEW s, NEW q, NEW after, NEW trip,
           RobotOK(r, p, q, trip), Good(r, s), SameCourse(p, s), ChainSame(q, after, r)
    PROVE  RobotOK(r, s, after, trip)
<1>1. ChainOK(after, r, s)
  BY ChainKept DEF RobotOK
<1>2. EffectiveStart(s) = EffectiveStart(p)
  BY DEF SameCourse, EffectiveStart, InTransit
<1>. QED
  BY <1>1, <1>2, TrailKept DEF RobotOK

(* A handler after which r is as far as before, and has sent something.    *)
LEMMA StandingRobotDone ==
    ASSUME IInv, NEW kind, kind # "advance", HasDue(kind), NEW r \in Robots, NEW s, NEW q,
           Good(r, s), SameCourse(robots[r], s), RobotDone(r, s, q),
           QueueOK(q, Head(queue).at),
           \A o : Once(Tail(queue), Advances(o)) => Once(q, Advances(o)),
           \A o : Range(q) \cap Advances(o) = Range(Tail(queue)) \cap Advances(o),
           driven' = driven, station' = station, downLinks' = downLinks
    PROVE  IInv'
<1>1. queue # <<>> /\ \A o : ChainSame(queue, Tail(queue), o)
  BY OtherIsDue
<1>2. \A o : ChainSame(queue, q, o)
  BY <1>1, ChainSameOnward
<1>3. RobotOK(r, robots[r], queue, driven[r])
  BY DEF IInv
<1>4. RobotOK(r, s, q, driven'[r])
  BY <1>2, <1>3, CourseKept
<1>5. driven' \in [Robots -> Seq(Map.nodes \X Map.nodes)]
  BY DEF IInv
<1>. QED
  BY <1>1, <1>2, <1>4, <1>5, OneRobotDone

\* A delivery, to a robot or to the station, keeps the invariant.
LEMMA DeliverKeeps ==
    ASSUME IInv, Deliver
    PROVE  IInv'
<1> DEFINE e == Head(queue)
<1>1. HasDue("delivery") /\ "delivery" # "advance"
  BY DEF Deliver
<1>2. /\ queue # <<>> /\ e \in Event /\ e.kind = "delivery" /\ e.at \in Nat
      /\ QueueOK(Tail(queue), e.at) /\ \A r : ChainSame(queue, Tail(queue), r)
  BY <1>1, OtherIsDue
<1>3. e.to \in Endpoints /\ e.delta \in Delta
  BY <1>2, EventCases
<1>4. CASE e.to = Station
  <2>1. /\ station' = Reconcile(e.delta, station) /\ robots' = robots /\ now' = e.at
        /\ queue' = Tail(queue) /\ scenario' = scenario /\ truth' = truth
        /\ downLinks' = downLinks /\ until' = until /\ running' = running
        /\ injected' = injected /\ driven' = driven
    BY <1>4 DEF Deliver
  <2>2. station' \in Knowledge
    BY <1>3, <2>1, ReconcileEffect DEF IInv
  <2>3. ASSUME NEW r \in Robots PROVE RobotOK(r, robots'[r], queue', driven'[r])
    <3>1. RobotOK(r, robots[r], queue, driven[r])
      BY DEF IInv
    <3>2. SameCourse(robots[r], robots[r]) /\ Good(r, robots[r])
      BY <3>1 DEF SameCourse, RobotOK
    <3>. QED
      BY <1>2, <2>1, <3>1, <3>2, CourseKept
  <2>. QED
    BY <1>2, <2>1, <2>2, <2>3, InvariantNext DEF IInv
<1>5. CASE e.to # Station
  <2> DEFINE r == e.to
             s == Learned(r, robots[r], e.delta)
  <2>1. r \in Robots
    BY <1>3, <1>5 DEF Endpoints
  <2>2. RobotDone(r, s, Tail(queue)) /\ driven' = driven /\ station' = station
        /\ downLinks' = downLinks
    BY <1>5 DEF Deliver, RobotDone
  <2>3. Good(r, s) /\ SameCourse(robots[r], s)
    BY <1>3, <2>1, LearnedIsGood DEF IInv, RobotOK
  <2> HIDE DEF r, s
  <2>. QED
    BY <1>1, <1>2, <2>1, <2>2, <2>3, StandingRobotDone
<1>. QED
  BY <1>4, <1>5

\* A scripted event is of one of four kinds.
LEMMA ActionCases ==
    ASSUME NEW a \in Actions
    PROVE  /\ a.kind = "set_link" => a.from \in Endpoints /\ a.to \in Endpoints
           /\ a.kind = "observe" => a.robot \in Robots /\ a.edge \in Edges /\ a.status \in EdgeStatus
           /\ a.kind = "resynchronize" => a.robot \in Robots
           /\ a.kind = "world" => a.edge \in Edges /\ a.status \in EdgeStatus
BY DEF Actions

\* What holds when a scripted event is popped.
LEMMA ScriptedIsDue ==
    ASSUME IInv, HasDue("scripted")
    PROVE  Head(queue).action \in Actions
BY OtherIsDue, EventCases

\* A link that goes up or down keeps the invariant (set_link).
LEMMA SetLinkKeeps ==
    ASSUME IInv, SetLink
    PROVE  IInv'
<1> DEFINE e == Head(queue)
           a == e.action
<1>1. HasDue("scripted") /\ "scripted" # "advance" /\ a.kind = "set_link"
  BY DEF SetLink
<1>2. /\ queue # <<>> /\ e.at \in Nat
      /\ QueueOK(Tail(queue), e.at) /\ \A r : ChainSame(queue, Tail(queue), r)
  BY <1>1, OtherIsDue
<1>3. a.from \in Endpoints /\ a.to \in Endpoints
  BY <1>1, ScriptedIsDue, ActionCases
<1>4. /\ robots' = robots /\ now' = e.at
      /\ queue' = Tail(queue) /\ scenario' = scenario /\ truth' = truth
      /\ station' = station /\ until' = until /\ running' = running
      /\ injected' = injected /\ driven' = driven
  BY DEF SetLink
<1>5. downLinks' \subseteq Endpoints \X Endpoints
  <2>1. \/ downLinks' = downLinks \ {<<a.from, a.to>>}
        \/ downLinks' = downLinks \cup {<<a.from, a.to>>}
    BY DEF SetLink
  <2>. QED
    BY <1>3, <2>1 DEF IInv
<1>6. ASSUME NEW r \in Robots PROVE RobotOK(r, robots'[r], queue', driven'[r])
  <2>1. RobotOK(r, robots[r], queue, driven[r])
    BY DEF IInv
  <2>2. SameCourse(robots[r], robots[r]) /\ Good(r, robots[r])
    BY <2>1 DEF SameCourse, RobotOK
  <2>. QED
    BY <1>2, <1>4, <2>1, <2>2, CourseKept
<1>. QED
  BY <1>2, <1>4, <1>5, <1>6, InvariantNext DEF IInv

\* A manual observation keeps the invariant (Robot::observe).
LEMMA ObserveEdgeKeeps ==
    ASSUME IInv, ObserveEdge
    PROVE  IInv'
<1> DEFINE at == Head(queue).at
           a == Head(queue).action
           r == a.robot
           s == Observed(r, Quiet(robots[r]), a.edge, a.status, at)
           m == Messages(r, s.emitted)
           rest == Tail(queue)
<1>1. /\ HasDue("scripted") /\ "scripted" # "advance" /\ a.kind = "observe"
      /\ station' = station /\ downLinks' = downLinks /\ driven' = driven
  BY DEF ObserveEdge
<1>2. PICK q \in Sent(rest, m, at) : RobotDone(r, s.robot, q)
  BY DEF ObserveEdge
<1>3. r \in Robots /\ a.edge \in Edges /\ a.status \in EdgeStatus
  BY <1>1, ScriptedIsDue, ActionCases
<1>4. at \in Nat /\ QueueOK(rest, at)
  BY <1>1, OtherIsDue
<1>5. Goes /\ Good(r, robots[r])
  BY <1>3 DEF IInv, RobotOK
<1>6. Quiet(robots[r]) \in Emitter(r) /\ Quiet(robots[r]).robot = robots[r]
  BY <1>3, <1>5, QuietIsGood
<1>7. s \in Emitter(r) /\ SameCourse(robots[r], s.robot)
  BY <1>3, <1>4, <1>5, <1>6, ObservedIsGood
<1>8. Good(r, s.robot) /\ s.emitted \in Seq(Delta)
  BY <1>7 DEF Emitter
<1>9. m \in Seq(Message(Delta)) /\ Delta \in SUBSET Delta
  BY <1>3, <1>5, <1>8, MessagesType
<1> HIDE DEF m, s, r, at, rest
<1>10. /\ QueueOK(q, at)
       /\ \A o : Once(rest, Advances(o)) => Once(q, Advances(o))
       /\ \A o : Range(q) \cap Advances(o) = Range(rest) \cap Advances(o)
  BY <1>2, <1>4, <1>5, <1>9, SendKeeps
<1>. QED
  BY <1>1, <1>2, <1>3, <1>7, <1>8, <1>10, StandingRobotDone DEF at, rest

\* A resynchronization offers deltas the robot knows, winners every one.
LEMMA WinnersType ==
    ASSUME NEW p \in Robot
    PROVE  Winners(p) \in Seq(Delta) /\ Winners(p) \in Seq(p.knowledge.overlay)
<1> DEFINE won(e) == IF Winner(p.knowledge, e) = {} THEN <<>>
                     ELSE <<CHOOSE d \in Winner(p.knowledge, e) : TRUE>>
           ss == [e \in Edges |-> won(e)]
           n == Len(Map.ends)
           S == p.knowledge.overlay
           D == Seq(S)
<1>1. ASSUME NEW e \in Edges PROVE won(e) \in D
  <2>1. CASE Winner(p.knowledge, e) = {}
    BY <2>1
  <2>2. CASE Winner(p.knowledge, e) # {}
    <3> DEFINE d == CHOOSE d \in Winner(p.knowledge, e) : TRUE
    <3>1. d \in Winner(p.knowledge, e)
      BY <2>2
    <3>2. d \in S
      BY <3>1 DEF Winner
    <3> HIDE DEF d, S
    <3>3. <<d>> \in Seq(S)
      BY <3>2, OneElement
    <3>. QED
      BY <2>2, <3>3 DEF d
  <2>. QED
    BY <2>1, <2>2
<1>2. n \in Nat /\ Edges = 1..n
  BY SettingsAssumption DEF IsGraph, Edges, EdgeIds
<1>3. S \subseteq Delta
  BY DEF Robot, Knowledge
<1> HIDE DEF won, n, D, S
<1>4. ss \in [1..n -> D]
  BY <1>1, <1>2
<1>5. FlattenSeq(ss) \in Seq(S)
  <2> HIDE DEF ss
  <2>1. ss \in Seq(D)
    BY <1>2, <1>4, FunctionIsSequence
  <2>. QED
    BY <2>1, FlattenSeqType DEF D
<1>6. Winners(p) \in Seq(S)
  BY <1>5 DEF Winners, won
<1>7. Seq(S) \subseteq Seq(Delta)
  BY <1>3
<1>. QED
  BY <1>6, <1>7 DEF S

\* A resynchronization keeps the invariant (Robot::resynchronize).
LEMMA ResynchronizeKeeps ==
    ASSUME IInv, Resynchronize
    PROVE  IInv'
<1> DEFINE at == Head(queue).at
           a == Head(queue).action
           r == a.robot
           m == Messages(r, Winners(robots[r]))
           rest == Tail(queue)
<1>1. /\ HasDue("scripted") /\ "scripted" # "advance" /\ a.kind = "resynchronize"
      /\ station' = station /\ downLinks' = downLinks /\ driven' = driven
  BY DEF Resynchronize
<1>2. PICK q \in Sent(rest, m, at) : RobotDone(r, robots[r], q)
  BY DEF Resynchronize
<1>3. r \in Robots
  BY <1>1, ScriptedIsDue, ActionCases
<1>4. at \in Nat /\ QueueOK(rest, at)
  BY <1>1, OtherIsDue
<1>5. Goes /\ Good(r, robots[r]) /\ robots[r] \in Robot
  BY <1>3 DEF IInv, RobotOK, Good
<1>6. m \in Seq(Message(Delta)) /\ Delta \in SUBSET Delta
  BY <1>3, <1>5, WinnersType, MessagesType
<1>7. SameCourse(robots[r], robots[r])
  BY DEF SameCourse
<1> HIDE DEF m, r, at, rest
<1>8. /\ QueueOK(q, at)
      /\ \A o : Once(rest, Advances(o)) => Once(q, Advances(o))
      /\ \A o : Range(q) \cap Advances(o) = Range(rest) \cap Advances(o)
  BY <1>2, <1>4, <1>5, <1>6, SendKeeps
<1>. QED
  BY <1>1, <1>2, <1>3, <1>5, <1>7, <1>8, StandingRobotDone DEF at, rest

\* A change of the truth, which lets every robot sense, keeps the invariant.
LEMMA SetWorldEdgeStateKeeps ==
    ASSUME IInv, SetWorldEdgeState
    PROVE  IInv'
<1> DEFINE at == Head(queue).at
           a == Head(queue).action
           facts == [truth EXCEPT ![a.edge] = a.status]
           s == [r \in Robots |-> Sensed(r, robots[r], facts, at)]
           ms == [r \in Robots |-> Messages(r, s[r].emitted)]
           m == FlattenSeq(ms)
           rest == Tail(queue)
           D == Seq(Message(Delta))
<1>1. /\ HasDue("scripted") /\ "scripted" # "advance" /\ a.kind = "world"
      /\ truth' = facts /\ robots' = [r \in Robots |-> s[r].robot]
      /\ queue' \in Sent(rest, m, at) /\ now' = at
      /\ scenario' = scenario /\ station' = station /\ downLinks' = downLinks
      /\ until' = until /\ running' = running /\ injected' = injected /\ driven' = driven
  BY DEF SetWorldEdgeState
<1>2. a.edge \in Edges /\ a.status \in EdgeStatus
  BY <1>1, ScriptedIsDue, ActionCases
<1>3. at \in Nat /\ QueueOK(rest, at) /\ \A o : ChainSame(queue, rest, o)
  BY <1>1, OtherIsDue
<1>4. Goes /\ \A r \in Robots : RobotOK(r, robots[r], queue, driven[r])
  BY DEF IInv
<1>5. facts \in [Edges -> EdgeStatus]
  BY <1>2 DEF IInv
<1> HIDE DEF facts, at, a, rest
<1>6. ASSUME NEW r \in Robots
      PROVE  /\ Good(r, s[r].robot) /\ SameCourse(robots[r], s[r].robot)
             /\ s[r].emitted \in Seq(Delta)
  <2>1. Good(r, robots[r])
    BY <1>4 DEF RobotOK
  <2>2. s[r] \in Emitter(r) /\ SameCourse(robots[r], s[r].robot)
    BY <1>3, <1>4, <1>5, <2>1, SensedIsGood
  <2>. QED
    BY <2>2 DEF Emitter
<1> HIDE DEF s, D
<1>7. ms \in [Robots -> D]
  BY <1>4, <1>6, MessagesType DEF D
<1>8. m \in Seq(Message(Delta)) /\ Delta \in SUBSET Delta
  <2>1. ms \in Seq(D)
    <3> HIDE DEF ms
    <3>. QED
      BY <1>7, SettingsAssumption, FunctionIsSequence DEF Robots
  <2> HIDE DEF ms
  <2>. QED
    BY <2>1, FlattenSeqType DEF D
<1> HIDE DEF m, ms
<1>9. /\ QueueOK(queue', at)
      /\ \A o : Once(rest, Advances(o)) => Once(queue', Advances(o))
      /\ \A o : Range(queue') \cap Advances(o) = Range(rest) \cap Advances(o)
  BY <1>1, <1>3, <1>4, <1>8, SendKeeps
<1>10. \A o : ChainSame(queue, queue', o)
  BY <1>3, <1>9, ChainSameOnward
<1>11. ASSUME NEW r \in Robots PROVE RobotOK(r, robots'[r], queue', driven'[r])
  BY <1>1, <1>4, <1>6, <1>10, CourseKept
<1>12. robots' \in [Robots -> Robot]
  BY <1>1, <1>6 DEF Good
<1>. QED
  BY <1>1, <1>3, <1>5, <1>9, <1>11, <1>12, InvariantNext DEF IInv

-----------------------------------------------------------------------------
(* Between the events: the calls a user makes.                             *)

\* A call of run_until keeps the invariant.
LEMMA RunUntilKeeps ==
    ASSUME IInv, NEW horizon \in Nat, RunUntil(horizon)
    PROVE  IInv'
BY InvariantNext DEF RunUntil, IInv

\* run_until returns, its clock at the horizon: nothing due is left behind.
LEMMA ReturnKeeps ==
    ASSUME IInv, Return
    PROVE  IInv'
<1>1. \A e \in Range(queue) : e.at > until
  BY DEF Return, Range
<1>2. /\ now' = until /\ queue' = queue /\ robots' = robots /\ driven' = driven
      /\ scenario' = scenario /\ truth' = truth /\ station' = station
      /\ downLinks' = downLinks /\ until' = until /\ running' = FALSE
      /\ injected' = injected
  BY DEF Return
<1>3. QueueOK(queue, until)
  <2>1. \A e \in Range(queue) : e \in Event
    BY DEF IInv, QueueOK, Range
  <2>. QED
    BY <1>1, <2>1, EventTicks DEF IInv, QueueOK
<1>. QED
  BY <1>2, <1>3, InvariantNext DEF IInv

\* An event scheduled from outside keeps the invariant.
LEMMA InjectKeeps ==
    ASSUME IInv, NEW action \in Actions, Inject(action, now)
    PROVE  IInv'
<1> DEFINE e == Scripted(action, now)
           q == Enqueue(queue, e)
<1>1. /\ queue' = q /\ injected' = injected + 1 /\ now' = now /\ robots' = robots
      /\ driven' = driven /\ scenario' = scenario /\ truth' = truth /\ station' = station
      /\ downLinks' = downLinks /\ until' = until /\ running' = running
  BY DEF Inject
<1>2. /\ now \in Nat /\ QueueOK(queue, now) /\ injected + 1 \in Nat
      /\ \A r \in Robots : RobotOK(r, robots[r], queue, driven[r])
  BY DEF IInv
<1>3. e \in Event /\ e.at = now /\ \A r : e \notin Advances(r)
  BY <1>2 DEF Scripted, Event, Advances
<1> HIDE DEF e
<1>4. /\ QueueOK(q, now) /\ Range(q) = Range(queue) \cup {e}
      /\ \A A : Once(queue, A) /\ (e \in A => Range(queue) \cap A = {}) => Once(q, A)
  BY <1>2, <1>3, ScheduleKeeps
<1> HIDE DEF q
<1>5. \A r : ChainSame(queue, q, r)
  BY <1>3, <1>4 DEF ChainSame
<1>6. ASSUME NEW r \in Robots PROVE RobotOK(r, robots[r], q, driven[r])
  <2>1. SameCourse(robots[r], robots[r]) /\ Good(r, robots[r])
    BY <1>2 DEF SameCourse, RobotOK
  <2>. QED
    BY <1>2, <1>5, <2>1, CourseKept
<1>. QED
  BY <1>1, <1>2, <1>4, <1>6, InvariantNext DEF IInv

\* Any command of the console keeps the invariant.
LEMMA ExecuteKeeps ==
    ASSUME IInv, NEW c \in Settings.commands, Execute(c)
    PROVE  IInv'
<1>1. /\ c.command \in {"observe", "world"} => c.status \in EdgeStatus
      /\ c.command = "link" => c.up \in BOOLEAN
      /\ c.command = "run" => c.ms \in Nat
      /\ c.command = "until" => c.tick \in Nat
  BY CommandsAssumption DEF IInv, Goes, Settings
<1>2. CASE Drive(c)
  <2>1. CASE c.command = "run" /\ RunUntil(now + c.ms)
    <3>1. now + c.ms \in Nat
      BY <1>1, <2>1 DEF IInv
    <3>. QED
      BY <2>1, <3>1, RunUntilKeeps
  <2>2. CASE c.command = "until" /\ RunUntil(c.tick)
    BY <1>1, <2>2, RunUntilKeeps
  <2>3. CASE Finish
    <3>1. Settings.duration \in Nat
      BY ScenarioTypes DEF IInv
    <3>. QED
      BY <2>3, <3>1, RunUntilKeeps DEF Finish
  <2>. QED
    BY <1>2, <2>1, <2>2, <2>3 DEF Drive
<1>3. CASE c.command = "observe" /\ InjectObserve(c)
  <2>1. PICK r \in RobotsNamed(c.robot), e \in EdgesNamed(c.edge) :
          Inject([kind |-> "observe", robot |-> r, edge |-> e, status |-> c.status], now)
    BY <1>3 DEF InjectObserve
  <2>2. [kind |-> "observe", robot |-> r, edge |-> e, status |-> c.status] \in Actions
    BY <1>1, <1>3 DEF Actions, RobotsNamed, EdgesNamed
  <2>. QED
    BY <2>1, <2>2, InjectKeeps
<1>4. CASE c.command = "world" /\ InjectWorld(c)
  <2>1. PICK e \in EdgesNamed(c.edge) :
          Inject([kind |-> "world", edge |-> e, status |-> c.status], now)
    BY <1>4 DEF InjectWorld
  <2>2. [kind |-> "world", edge |-> e, status |-> c.status] \in Actions
    BY <1>1, <1>4 DEF Actions, EdgesNamed
  <2>. QED
    BY <2>1, <2>2, InjectKeeps
<1>5. CASE c.command = "link" /\ InjectLink(c)
  <2>1. PICK from \in EndpointsNamed(c.from), to \in EndpointsNamed(c.to) :
          Inject([kind |-> "set_link", from |-> from, to |-> to, up |-> c.up], now)
    BY <1>5 DEF InjectLink
  <2>2. from \in Endpoints /\ to \in Endpoints
    BY DEF EndpointsNamed, RobotsNamed, Endpoints
  <2>3. [kind |-> "set_link", from |-> from, to |-> to, up |-> c.up] \in Actions
    BY <1>1, <1>5, <2>2 DEF Actions
  <2>. QED
    BY <2>1, <2>3, InjectKeeps
<1>6. CASE c.command = "resync" /\ InjectResync(c)
  <2>1. PICK r \in RobotsNamed(c.robot) :
          Inject([kind |-> "resynchronize", robot |-> r], now)
    BY <1>6 DEF InjectResync
  <2>2. [kind |-> "resynchronize", robot |-> r] \in Actions
    BY DEF Actions, RobotsNamed
  <2>. QED
    BY <2>1, <2>2, InjectKeeps
<1>. QED
  BY <1>2, <1>3, <1>4, <1>5, <1>6 DEF Execute

-----------------------------------------------------------------------------
(* The agenda a run begins with.                                           *)

\* i is among the first k of es, and e is what is there.
AmongFirst(es, k, e) == \E i \in 1..k : es[i] = e

\* Whatever begin() schedules, one advance event a robot, is in order.
LEMMA FirstAgenda ==
    ASSUME NEW es \in Seq(Event),
           \A r \in Robots : \A i, j \in 1..Len(es) :
              es[i] \in Advances(r) /\ es[j] \in Advances(r) => i = j
    PROVE  LET q == EnqueueAll(<<>>, es)
           IN  /\ QueueOK(q, 0)
               /\ \A e : e \in Range(q) <=> AmongFirst(es, Len(es), e)
               /\ \A r \in Robots : Once(q, Advances(r))
<1> DEFINE n == Len(es)
           Has(p, k) == /\ InOrder(p)
                        /\ \A e : e \in Range(p) <=> AmongFirst(es, k, e)
                        /\ \A r \in Robots : Once(p, Advances(r))
           K == [k \in 0..n |-> {p \in Seq(Event) : Has(p, k)}]
           none == <<>>
<1>1. n \in Nat /\ \A i \in 1..n : es[i] \in Event
  OBVIOUS
<1>2. none \in Seq(Event) /\ Has(none, 0)
  <2>1. none \in Seq(Event) /\ DOMAIN none = {}
    OBVIOUS
  <2> HIDE DEF none
  <2>. QED
    BY <2>1 DEF InOrder, Range, AmongFirst, Once
<1>3. ASSUME NEW k \in 1..n, NEW p \in Seq(Event), Has(p, k - 1)
      PROVE  Enqueue(p, es[k]) \in Seq(Event) /\ Has(Enqueue(p, es[k]), k)
  <2> DEFINE e == es[k]
             after == Enqueue(p, e)
  <2>1. e \in Event /\ InOrder(p) /\ \A x \in Range(p) : AmongFirst(es, k - 1, x)
    BY <1>1, <1>3
  <2>2. after \in Seq(Event) /\ InOrder(after)
    BY <2>1, EnqueueGrows DEF Grown
  <2>3. Range(after) = Range(p) \cup {e}
    BY <2>1, EnqueueAdds
  <2>4. ASSUME NEW x PROVE AmongFirst(es, k, x) <=> AmongFirst(es, k - 1, x) \/ x = e
    <3>1. 1..k = (1..(k - 1)) \cup {k}
      BY <1>1
    <3>. QED
      BY <3>1 DEF AmongFirst
  <2>5. ASSUME NEW r \in Robots PROVE Once(after, Advances(r))
    <3>1. ASSUME e \in Advances(r), NEW x \in Range(p) \cap Advances(r) PROVE FALSE
      <4>1. PICK i \in 1..(k - 1) : es[i] = x
        BY <2>1 DEF AmongFirst
      <4>2. i \in 1..n /\ k \in 1..n /\ i # k
        BY <1>1
      <4>. QED
        BY <3>1, <4>1, <4>2
    <3>2. Once(p, Advances(r))
      BY <1>3
    <3> HIDE DEF e
    <3>. QED
      BY <2>1, <3>1, <3>2, EnqueueOnce
  <2>6. \A x : x \in Range(after) <=> AmongFirst(es, k, x)
    BY <1>3, <2>3, <2>4
  <2>. QED
    BY <2>2, <2>5, <2>6
<1> HIDE DEF Has
<1>4. K \in [0..n -> SUBSET Seq(Event)]
  OBVIOUS
<1>5. \A k \in 0..n : K[k] = {p \in Seq(Event) : Has(p, k)}
  OBVIOUS
<1> HIDE DEF K
<1>6. none \in K[0]
  <2>1. 0 \in 0..n
    BY <1>1
  <2>2. K[0] = {p \in Seq(Event) : Has(p, 0)}
    BY <1>5, <2>1
  <2>. QED
    BY <1>2, <2>2
<1>7. \A k \in 1..n : \A p \in K[k - 1] : Enqueue(p, es[k]) \in K[k]
  BY <1>1, <1>3, <1>5
<1> HIDE DEF none
<1>8. EnqueueAll(none, es) \in K[Len(es)]
  BY <1>2, <1>4, <1>6, <1>7, EnqueueAllByStep
<1> DEFINE q == EnqueueAll(none, es)
<1>9. q \in Seq(Event) /\ Has(q, n)
  BY <1>1, <1>5, <1>8
<1> HIDE DEF q
<1>10. \A e \in Range(q) : e.at >= 0
  <2>1. \A e \in Range(q) : e \in Event
    BY <1>9 DEF Range
  <2>. QED
    BY <2>1, EventTicks
<1>. QED
  BY <1>9, <1>10 DEF Has, QueueOK, q, none

\* begin() leaves a state of the invariant.
LEMMA InitInvariant == Init => IInv
<1> SUFFICES ASSUME Init PROVE IInv
  OBVIOUS
<1>1. PICK script \in Settings.scripts :
        queue = EnqueueAll(<<>>,
          (IF Settings.moves THEN [r \in Robots |-> Advance(r, 0)] ELSE <<>>)
          \o [i \in DOMAIN script |-> Scripted(script[i][2], script[i][1])])
  BY DEF Init
<1> DEFINE advances == IF Settings.moves THEN [r \in Robots |-> Advance(r, 0)] ELSE <<>>
           scripted == [i \in DOMAIN script |-> Scripted(script[i][2], script[i][1])]
           es == advances \o scripted
           a == Len(advances)
<1>2. Goes
  BY DEF Init, Goes
<1>3. script \in Seq(Nat \X Actions) /\ NRobots \in Nat /\ Robots = 1..NRobots
  BY <1>2, ScenarioTypes, SettingsAssumption DEF Robots
<1>4. /\ advances \in Seq(Event) /\ a \in Nat
      /\ IF Settings.moves THEN a = NRobots ELSE a = 0
      /\ \A i \in 1..a : i \in Robots /\ advances[i] = Advance(i, 0)
  <2>1. CASE Settings.moves
    <3> DEFINE all == [r \in Robots |-> Advance(r, 0)]
    <3>1. all \in [1..NRobots -> Event]
      BY <1>3, AdvanceIs
    <3>2. \A i \in 1..NRobots : i \in Robots /\ all[i] = Advance(i, 0)
      BY <1>3
    <3> HIDE DEF all
    <3>3. all \in Seq(Event) /\ Len(all) = NRobots
      BY <1>3, <3>1, FunctionIsSequence
    <3>4. advances = all
      BY <2>1 DEF all
    <3> HIDE DEF advances
    <3>. QED
      BY <1>3, <2>1, <3>2, <3>3, <3>4
  <2>2. CASE ~Settings.moves
    <3>1. advances = <<>>
      BY <2>2
    <3> HIDE DEF advances
    <3>. QED
      BY <2>2, <3>1
  <2>. QED
    BY <2>1, <2>2
<1>5. scripted \in Seq(Event) /\ \A i \in 1..Len(scripted) : scripted[i].kind = "scripted"
  <2> DEFINE n == Len(script)
  <2>1. n \in Nat /\ DOMAIN script = 1..n /\ \A i \in 1..n : script[i] \in Nat \X Actions
    BY <1>3
  <2>2. \A i \in 1..n : Scripted(script[i][2], script[i][1]) \in Event
    BY <2>1 DEF Scripted, Event
  <2>3. \A i \in 1..n : Scripted(script[i][2], script[i][1]).kind = "scripted"
    BY DEF Scripted
  <2>4. scripted \in [1..n -> Event] /\ \A i \in 1..n : scripted[i].kind = "scripted"
    BY <2>1, <2>2, <2>3
  <2> HIDE DEF n, scripted
  <2>5. scripted \in Seq(Event) /\ Len(scripted) = n
    BY <2>1, <2>4, FunctionIsSequence
  <2>. QED
    BY <2>4, <2>5
<1> HIDE DEF advances, scripted
<1>6. /\ es \in Seq(Event) /\ Len(es) \in Nat /\ Len(es) >= a
      /\ \A i \in 1..a : es[i] = Advance(i, 0)
      /\ \A i \in 1..Len(es) : i > a => es[i].kind = "scripted"
  <2> DEFINE b == Len(scripted)
  <2>1. b \in Nat /\ es \in Seq(Event) /\ Len(es) = a + b
        /\ \A i \in 1..(a + b) : es[i] = IF i <= a THEN advances[i] ELSE scripted[i - a]
    BY <1>4, <1>5
  <2> HIDE DEF es
  <2>2. ASSUME NEW i \in 1..Len(es), i > a PROVE es[i].kind = "scripted"
    <3>1. i - a \in 1..b /\ i \in 1..(a + b) /\ ~(i <= a)
      BY <1>4, <2>1, <2>2
    <3>. QED
      BY <1>5, <2>1, <3>1
  <2>3. \A i \in 1..a : i \in 1..(a + b) /\ i <= a
    BY <1>4, <2>1
  <2>. QED
    BY <1>4, <2>1, <2>2, <2>3
<1> HIDE DEF es, a
<1>7. ASSUME NEW r \in Robots, NEW i \in 1..Len(es), es[i] \in Advances(r)
      PROVE  i = r /\ i \in 1..a
  <2>1. i \in 1..a
    BY <1>4, <1>6, <1>7 DEF Advances
  <2>2. i \in Robots /\ es[i] = Advance(i, 0)
    BY <1>4, <1>6, <2>1
  <2>3. es[i].robot = r /\ Advance(i, 0).robot = i
    BY <1>7 DEF Advances, Advance
  <2>. QED
    BY <2>1, <2>2, <2>3
<1>8. /\ QueueOK(EnqueueAll(<<>>, es), 0)
      /\ \A e : e \in Range(EnqueueAll(<<>>, es)) <=> AmongFirst(es, Len(es), e)
      /\ \A r \in Robots : Once(EnqueueAll(<<>>, es), Advances(r))
  BY <1>6, <1>7, FirstAgenda
<1>9. queue = EnqueueAll(<<>>, es)
  BY <1>1 DEF es, advances, scripted
<1>10. /\ now = 0 /\ robots = [r \in Robots |-> NewRobot(r)] /\ station = EmptyKnowledge
       /\ truth = [e \in Edges |-> "Open"] /\ downLinks = {} /\ until = 0
       /\ running = FALSE /\ injected = 0 /\ driven = [r \in Robots |-> <<>>]
  BY DEF Init
<1>11. ASSUME NEW r \in Robots PROVE RobotOK(r, robots[r], queue, driven[r])
  <2>1. Good(r, robots[r]) /\ ~InTransit(robots[r]) /\ robots[r].position = Start(r)
    BY <1>2, <1>10, NewRobotIsGood
  <2>2. OnTrail(r, driven[r], robots[r])
    <3>1. driven[r] = <<>> /\ EffectiveStart(robots[r]) = Start(r)
      BY <1>10, <2>1 DEF EffectiveStart
    <3> DEFINE none == <<>>
    <3>2. none \in Seq(Map.nodes \X Map.nodes) /\ Len(none) = 0
      OBVIOUS
    <3> HIDE DEF none
    <3>3. driven[r] = none
      BY <3>1 DEF none
    <3>. QED
      BY <3>1, <3>2, <3>3 DEF OnTrail, none
  <2>3. ChainOK(queue, r, robots[r])
    <3>1. CASE Settings.moves
      <4>1. r \in 1..a /\ r \in 1..Len(es)
        BY <1>3, <1>4, <1>6, <3>1
      <4>2. es[r] \in Advances(r)
        BY <1>6, <4>1, AdvanceIs
      <4>3. es[r] \in Range(queue)
        BY <1>8, <1>9, <4>1 DEF AmongFirst
      <4>. QED
        BY <1>8, <1>9, <2>1, <3>1, <4>2, <4>3 DEF ChainOK
    <3>2. CASE ~Settings.moves
      <4>1. ASSUME NEW e \in Range(queue) \cap Advances(r) PROVE FALSE
        <5>1. PICK i \in 1..Len(es) : es[i] = e
          BY <1>8, <1>9 DEF AmongFirst
        <5>2. i \in 1..a
          BY <1>7, <5>1
        <5>. QED
          BY <1>4, <3>2, <5>2
      <4>. QED
        BY <2>1, <3>2, <4>1 DEF ChainOK
    <3>. QED
      BY <3>1, <3>2
  <2>. QED
    BY <2>1, <2>2, <2>3 DEF RobotOK
<1>12. robots \in [Robots -> Robot]
  BY <1>10, <1>11 DEF RobotOK, Good
<1>13. driven \in [Robots -> Seq(Map.nodes \X Map.nodes)]
  BY <1>10, <1>11 DEF RobotOK, OnTrail
<1>14. station \in Knowledge /\ truth \in [Edges -> EdgeStatus]
  BY <1>10 DEF EmptyKnowledge, Knowledge, EdgeStatus
<1>. QED
  BY <1>2, <1>8, <1>9, <1>10, <1>11, <1>12, <1>13, <1>14 DEF IInv

-----------------------------------------------------------------------------
(* The theorems.                                                           *)

(* Every step keeps the invariant: each event's handler as a whole, the    *)
(* return of run_until, and every command the console takes in between.    *)
LEMMA NextKeeps == IInv /\ [Next]_vars => IInv'
<1> SUFFICES ASSUME IInv, [Next]_vars PROVE IInv'
  OBVIOUS
<1>1. CASE UNCHANGED vars
  BY <1>1 DEF vars, IInv, Goes, RobotOK, Good, OnTheRoad, CurrentPlan, Goal, Start,
              Settings, ChainOK, OnTrail
<1>2. ASSUME NEW r \in Robots, Depart(r) \/ Park(r) \/ EndChain(r) PROVE IInv'
  BY <1>2, DepartKeeps, ParkKeeps, EndChainKeeps
<1>3. CASE Deliver
  BY <1>3, DeliverKeeps
<1>4. CASE SetLink
  BY <1>4, SetLinkKeeps
<1>5. CASE ObserveEdge
  BY <1>5, ObserveEdgeKeeps
<1>6. CASE Resynchronize
  BY <1>6, ResynchronizeKeeps
<1>7. CASE SetWorldEdgeState
  BY <1>7, SetWorldEdgeStateKeeps
<1>8. CASE Return
  BY <1>8, ReturnKeeps
<1>9. ASSUME NEW c \in Settings.commands, Execute(c) PROVE IInv'
  BY <1>9, ExecuteKeeps
<1>. QED
  BY <1>1, <1>2, <1>3, <1>4, <1>5, <1>6, <1>7, <1>8, <1>9 DEF Next, HandleEvent

(* The invariant holds throughout every run, whatever is typed between the *)
(* horizons, whatever the network loses, doubles and delays.               *)
THEOREM InvariantHolds == Spec => []IInv
<1>1. Init => IInv
  BY InitInvariant
<1>2. IInv /\ [Next]_vars => IInv'
  BY NextKeeps
<1>. QED
  BY <1>1, <1>2, PTL DEF Spec

(* The variables have their types; a robot in transit is on an edge of its *)
(* node, headed for the other end of it, and its mission is not over.      *)
THEOREM TypesHold == Spec => []TypeOK
<1>1. IInv => TypeOK
  <2> SUFFICES ASSUME IInv PROVE TypeOK
    OBVIOUS
  <2>1. \A r \in Robots : OnTheRoad(r, robots[r])
    BY DEF IInv, RobotOK, Good
  <2>. QED
    BY <2>1 DEF IInv, Goes, QueueOK, TypeOK
<1>. QED
  BY <1>1, InvariantHolds, PTL

(* No robot is ever left without the event that moves it on, and none has  *)
(* two (ScenarioRunner::advance_robot, which schedules at most one).       *)
THEOREM ChainsHold == Spec => []OneChainPerRobot
<1>1. IInv => OneChainPerRobot
  <2> SUFFICES ASSUME IInv, Settings.moves, NEW r \in Robots
               PROVE  /\ \A i, j \in Chain(r) : i = j
                      /\ InTransit(robots[r]) =>
                           \E i \in Chain(r) : queue[i].at = robots[r].transit.arrival
                      /\ Chain(r) = {} =>
                           robots[r].mission_complete /\ ~InTransit(robots[r])
    BY DEF OneChainPerRobot
  <2>1. ChainOK(queue, r, robots[r])
    BY DEF IInv, RobotOK
  <2>2. \A i \in DOMAIN queue : queue[i] \in Event
    BY DEF IInv, QueueOK
  <2>3. \A i : i \in Chain(r) <=> i \in DOMAIN queue /\ queue[i] \in Advances(r)
    BY <2>2 DEF Chain, Advances
  <2>4. \A e : e \in Range(queue) \cap Advances(r) <=> \E i \in Chain(r) : queue[i] = e
    BY <2>3 DEF Range
  <2>5. \A i, j \in Chain(r) : i = j
    BY <2>1, <2>3 DEF ChainOK, Once
  <2>6. InTransit(robots[r]) => \E i \in Chain(r) : queue[i].at = robots[r].transit.arrival
    BY <2>1, <2>4 DEF ChainOK
  <2>7. Chain(r) = {} => Range(queue) \cap Advances(r) = {}
    BY <2>4
  <2>8. Chain(r) = {} => robots[r].mission_complete /\ ~InTransit(robots[r])
    BY <2>1, <2>7 DEF ChainOK
  <2>. QED
    BY <2>5, <2>6, <2>8
<1>. QED
  BY <1>1, InvariantHolds, PTL

(* A robot that plans again only when an edge opens or an edge of its      *)
(* route closes has the plan it would make anew, at every moment.          *)
THEOREM RoutesAreCurrent == Spec => []RouteAheadIsCurrent
<1>1. IInv => RouteAheadIsCurrent
  BY DEF IInv, RobotOK, Good, RouteAheadIsCurrent
<1>. QED
  BY <1>1, InvariantHolds, PTL

(* The line drawn of a robot after i of its departures: as it grows, it    *)
(* holds the first node and then every node it set out for.                *)
IsLine(trip, i, line) ==
    /\ line \in Seq(Map.nodes)
    /\ IF i = 0 THEN Len(line) = 0
       ELSE /\ Len(line) = i + 1
            /\ line[1] = trip[1][1]
            /\ \A j \in 1..i : line[j + 1] = trip[j][2]

\* One departure makes the line longer by the node it is for.
LEMMA LineGrows ==
    ASSUME NEW r \in Robots, NEW trip, NEW p, OnTrail(r, trip, p), NEW i \in 1..Len(trip),
           NEW sofar, IsLine(trip, i - 1, sofar)
    PROVE  IsLine(trip, i,
                  (IF sofar # <<>> /\ Last(sofar) = trip[i][1] THEN sofar
                   ELSE Append(sofar, trip[i][1])) \o <<trip[i][2]>>)
<1> DEFINE from == trip[i][1]
           to == trip[i][2]
           base == IF sofar # <<>> /\ Last(sofar) = from THEN sofar ELSE Append(sofar, from)
           line == base \o <<to>>
<1>1. /\ trip \in Seq(Map.nodes \X Map.nodes) /\ Len(trip) \in Nat /\ i \in Nat \ {0}
      /\ sofar \in Seq(Map.nodes)
  BY DEF OnTrail, IsLine
<1>2. from \in Map.nodes /\ to \in Map.nodes
  <2>1. trip[i] \in Map.nodes \X Map.nodes
    BY <1>1
  <2>. QED
    BY <2>1
<1>3. /\ base \in Seq(Map.nodes) /\ Len(base) = i /\ base[1] = trip[1][1]
      /\ \A j \in 1..(i - 1) : base[j + 1] = trip[j][2]
  <2>1. CASE i = 1
    <3>1. Len(sofar) = 0 /\ sofar = <<>>
      BY <2>1 DEF IsLine
    <3>2. base = Append(sofar, from)
      BY <3>1
    <3> HIDE DEF base
    <3>. QED
      BY <1>1, <1>2, <2>1, <3>1, <3>2
  <2>2. CASE i # 1
    <3>1. i - 1 \in 1..(Len(trip) - 1) /\ i - 1 # 0 /\ (i - 1) + 1 = i
      BY <1>1, <2>2
    <3>2. /\ Len(sofar) = i /\ sofar[1] = trip[1][1]
          /\ \A j \in 1..(i - 1) : sofar[j + 1] = trip[j][2]
      BY <3>1 DEF IsLine
    <3>3. sofar[i] = trip[i - 1][2] /\ i - 1 \in 1..(i - 1)
      BY <1>1, <3>1, <3>2
    <3>4. trip[i][1] = trip[i - 1][2]
      BY <3>1 DEF OnTrail
    <3>5. sofar # <<>> /\ Last(sofar) = from
      BY <1>1, <3>2, <3>3, <3>4 DEF Last
    <3>6. base = sofar
      BY <3>5
    <3> HIDE DEF base
    <3>. QED
      BY <1>1, <3>2, <3>6
  <2>. QED
    BY <2>1, <2>2
<1> HIDE DEF base
<1>4. <<to>> \in Seq(Map.nodes) /\ Len(<<to>>) = 1 /\ <<to>>[1] = to
  BY <1>2, OneElement
<1>5. /\ line \in Seq(Map.nodes) /\ Len(line) = i + 1 /\ line[i + 1] = to
      /\ \A j \in 1..i : line[j] = base[j]
  BY <1>1, <1>3, <1>4
<1> HIDE DEF line
<1>6. ASSUME NEW j \in 1..i PROVE line[j + 1] = trip[j][2]
  <2>1. CASE j = i
    BY <1>5, <2>1
  <2>2. CASE j # i
    <3>1. j \in 1..(i - 1) /\ j + 1 \in 1..i
      BY <1>1, <2>2
    <3>. QED
      BY <1>3, <1>5, <3>1
  <2>. QED
    BY <2>1, <2>2
<1>7. line[1] = trip[1][1] /\ i # 0
  <2>1. 1 \in 1..i
    BY <1>1
  <2>. QED
    BY <1>1, <1>3, <1>5, <2>1
<1>8. IsLine(trip, i, line)
  BY <1>5, <1>6, <1>7 DEF IsLine
<1>. QED
  BY <1>8 DEF line, base

\* The line write_trace_geojson draws.
LEMMA TrajectoryIs ==
    ASSUME NEW r \in Robots, NEW p, OnTrail(r, driven[r], p)
    PROVE  IsLine(driven[r], Len(driven[r]), Trajectory(r))
<1> DEFINE trip == driven[r]
           n == Len(trip)
           D == Seq(Map.nodes)
           Go(x, i) == (IF x # <<>> /\ Last(x) = trip[i][1] THEN x
                        ELSE Append(x, trip[i][1])) \o <<trip[i][2]>>
           Draws(f) == f = [i \in 0..n |->
                IF i = 0 THEN <<>>
                ELSE LET from == trip[i][1]
                         sofar == f[i - 1]
                     IN  (IF sofar # <<>> /\ Last(sofar) = from THEN sofar
                          ELSE Append(sofar, from)) \o <<trip[i][2]>>]
           line == CHOOSE f : Draws(f)
           step == [i \in 1..n |-> [x \in D |-> Go(x, i)]]
           none == <<>>
<1>1. n \in Nat /\ trip \in Seq(Map.nodes \X Map.nodes)
  BY DEF OnTrail
<1>2. none \in D /\ IsLine(trip, 0, none)
  BY DEF IsLine
<1>3. ASSUME NEW i \in 1..n, NEW x \in D PROVE Go(x, i) \in D
  <2>1. trip[i] \in Map.nodes \X Map.nodes
    BY <1>1
  <2> DEFINE from == trip[i][1]
             to == trip[i][2]
             base == IF x # <<>> /\ Last(x) = from THEN x ELSE Append(x, from)
  <2>2. from \in Map.nodes /\ to \in Map.nodes
    BY <2>1
  <2> HIDE DEF from, to
  <2>3. base \in D /\ <<to>> \in D
    <3>1. Append(x, from) \in Seq(Map.nodes)
      BY <2>2
    <3>2. <<to>> \in Seq(Map.nodes)
      BY <2>2, OneElement
    <3>3. base = x \/ base = Append(x, from)
      OBVIOUS
    <3> HIDE DEF base
    <3>. QED
      BY <3>1, <3>2, <3>3
  <2> HIDE DEF base
  <2>4. base \o <<to>> \in D
    BY <2>3
  <2>. QED
    BY <2>4 DEF base, from, to
<1>4. step \in [1..n -> [D -> D]] /\ \A i \in 1..n : \A x \in D : step[i][x] = Go(x, i)
  BY <1>3
<1> HIDE DEF Go, step, none, D, n, trip
<1>5. PICK f : Recurs(f, n, D, none, step)
  BY <1>1, <1>2, <1>4, Recursion
<1>6. f = [i \in 0..n |-> IF i = 0 THEN none ELSE Go(f[i - 1], i)]
  <2>1. f \in [0..n -> D] /\ f[0] = none /\ \A i \in 1..n : f[i] = step[i][f[i - 1]]
    BY <1>5 DEF Recurs
  <2>2. ASSUME NEW i \in 0..n PROVE f[i] = IF i = 0 THEN none ELSE Go(f[i - 1], i)
    <3>1. CASE i = 0
      BY <2>1, <3>1
    <3>2. CASE i # 0
      <4>1. i \in 1..n /\ i - 1 \in 0..n
        BY <1>1, <3>2
      <4>2. f[i - 1] \in D
        BY <2>1, <4>1
      <4>. QED
        BY <1>4, <2>1, <3>2, <4>1, <4>2
    <3>. QED
      BY <3>1, <3>2
  <2>. QED
    BY <2>1, <2>2
<1>7. Draws(f)
  BY <1>6 DEF Go, none
<1>8. Draws(line)
  <2> HIDE DEF Draws
  <2>. QED
    BY <1>7
<1>9. Trajectory(r) = line[n]
  BY DEF Trajectory, n, trip
<1>10. \A i \in 0..n : line[i] = IF i = 0 THEN none ELSE Go(line[i - 1], i)
  <2> HIDE DEF line
  <2>. QED
    BY <1>8 DEF Go, none
<1> HIDE DEF line, Draws
<1> DEFINE T == {i \in Nat : i <= n => IsLine(trip, i, line[i])}
<1>11. 0 \in T
  BY <1>1, <1>2, <1>10
<1>12. ASSUME NEW k \in Nat, k \in T PROVE k + 1 \in T
  <2>1. SUFFICES ASSUME k + 1 <= n PROVE IsLine(trip, k + 1, line[k + 1])
    OBVIOUS
  <2> DEFINE i == k + 1
  <2>2. i \in 1..n /\ i \in 0..n /\ i # 0 /\ i - 1 = k
    BY <1>1, <2>1
  <2>3. IsLine(trip, k, line[k])
    BY <1>1, <1>12, <2>1
  <2> HIDE DEF i
  <2>4. line[i] = Go(line[k], i) /\ IsLine(trip, i - 1, line[k]) /\ OnTrail(r, trip, p)
        /\ i \in 1..Len(trip)
    BY <1>10, <2>2, <2>3 DEF trip, n
  <2>5. IsLine(trip, i, Go(line[k], i))
    BY <2>4, LineGrows DEF Go
  <2>. QED
    BY <2>4, <2>5 DEF i
<1> HIDE DEF T
<1>13. n \in T
  BY <1>1, <1>11, <1>12, Ind
<1>. QED
  BY <1>1, <1>9, <1>13 DEF T, n, trip

(* The trajectory of a robot, as the export draws it from its departures,  *)
(* is the way it went: every piece of it a road, driven as it allows, none *)
(* left out and none drawn twice.                                          *)
THEOREM TrajectoriesHold == Spec => []TrajectoryIsDriven
<1>1. IInv => TrajectoryIsDriven
  <2> SUFFICES ASSUME IInv, NEW r \in Robots
               PROVE  LET line == IF driven[r] = <<>> THEN <<Start(r)>> ELSE Trajectory(r)
                      IN  /\ Head(line) = Start(r)
                          /\ Last(line) = EffectiveStart(robots[r])
                          /\ Len(line) = Len(driven[r]) + 1
                          /\ \A i \in 1..(Len(line) - 1) : IsHop(Map, {}, line[i], line[i + 1])
    BY DEF TrajectoryIsDriven
  <2>1. OnTrail(r, driven[r], robots[r]) /\ driven[r] \in Seq(Map.nodes \X Map.nodes)
    BY DEF IInv, RobotOK
  <2>2. CASE driven[r] = <<>>
    <3>1. EffectiveStart(robots[r]) = Start(r) /\ Len(driven[r]) = 0
      BY <2>1, <2>2 DEF OnTrail
    <3> DEFINE line == <<Start(r)>>
    <3>2. Len(line) = 1 /\ Head(line) = Start(r) /\ Last(line) = Start(r)
      BY DEF Last
    <3> HIDE DEF line
    <3>. QED
      BY <2>2, <3>1, <3>2 DEF line
  <2>3. CASE driven[r] # <<>>
    <3> DEFINE n == Len(driven[r])
               line == Trajectory(r)
    <3>1. n \in Nat /\ n # 0 /\ IsLine(driven[r], n, line)
      BY <2>1, <2>3, TrajectoryIs
    <3> HIDE DEF line
    <3>2. /\ line \in Seq(Map.nodes) /\ Len(line) = n + 1 /\ line[1] = driven[r][1][1]
          /\ \A j \in 1..n : line[j + 1] = driven[r][j][2]
      BY <3>1 DEF IsLine
    <3>3. /\ driven[r][1][1] = Start(r) /\ EffectiveStart(robots[r]) = driven[r][n][2]
          /\ \A i \in 1..n : IsHop(Map, {}, driven[r][i][1], driven[r][i][2])
          /\ \A i \in 1..(n - 1) : driven[r][i + 1][1] = driven[r][i][2]
      BY <2>1, <2>3 DEF OnTrail
    <3>4. Head(line) = Start(r)
      BY <3>1, <3>2, <3>3
    <3>5. Last(line) = EffectiveStart(robots[r])
      BY <3>1, <3>2, <3>3 DEF Last
    <3>6. ASSUME NEW i \in 1..n PROVE line[i] = driven[r][i][1]
      <4>1. CASE i = 1
        BY <3>2, <4>1
      <4>2. CASE i # 1
        <5>1. i - 1 \in 1..(n - 1) /\ i - 1 \in 1..n /\ (i - 1) + 1 = i
          BY <3>1, <4>2
        <5>2. line[(i - 1) + 1] = driven[r][i - 1][2] /\ driven[r][(i - 1) + 1][1] = driven[r][i - 1][2]
          BY <3>2, <3>3, <5>1
        <5>. QED
          BY <5>1, <5>2
      <4>. QED
        BY <4>1, <4>2
    <3>7. 1..(Len(line) - 1) = 1..n
      BY <3>1, <3>2
    <3>. QED
      BY <2>3, <3>2, <3>3, <3>4, <3>5, <3>6, <3>7 DEF line
  <2>. QED
    BY <2>2, <2>3
<1>. QED
  BY <1>1, InvariantHolds, PTL

-----------------------------------------------------------------------------
(***************************************************************************)
(* A robot that has just sensed believes what it saw.                      *)
(*                                                                         *)
(* An observation of one's own enters through the same reconcile() as the  *)
(* deltas of others, and that may refuse it: as stale, as a repetition, or *)
(* as dominated.  That it does neither rests on a second invariant, HInv:  *)
(* no delta, wherever it is -- in a robot's knowledge, or under way, sent  *)
(* back to its own source by a resynchronization even -- is newer than the *)
(* clock, or further in its source's stream than the source itself.        *)
(***************************************************************************)

\* Deltas that are not of the future, nor ahead of their source's stream.
Past(fleet, tick) ==
    {d \in Delta : /\ d.observed_at <= tick
                   /\ d.source_sequence <=
                        fleet[d.source].streams[d.edge].last_sequence}

\* A participant knows deltas of D only, and one winner per edge.
KnowsOf(k, D) ==
    /\ k.overlay \subseteq D /\ k.progression \subseteq D
    /\ \A x, y \in k.overlay : x.edge = y.edge => x = y

\* The invariant of what is known and under way.
HInv ==
    /\ \A e \in Range(queue) : e.kind = "delivery" => e.delta \in Past(robots, now)
    /\ \A r \in Robots : KnowsOf(robots[r].knowledge, Past(robots, now))

-----------------------------------------------------------------------------
(* One robot in the course of a handler.  B are the deltas of the others   *)
(* that there were when it began.                                          *)

Heard(r, p, at, B) ==
    {d \in Delta : /\ d.observed_at <= at
                   /\ d.source = r =>
                        d.source_sequence <= p.streams[d.edge].last_sequence
                   /\ d.source # r => d \in B}

\* No stream goes back.
Further(p, q) ==
    \A e \in Edges : p.streams[e].last_sequence <= q.streams[e].last_sequence

\* r believes that e is as it was seen, or another's Blocked of this tick.
Believes(r, k, e, status, at) ==
    \/ IsBlocked(k, e) <=> status = "Blocked"
    \/ \E s \in Winner(k, e) : s.source # r /\ s.observed_at = at /\ s.status = "Blocked"

\* As a robot's streams go further, it can have heard no less.
LEMMA HeardGrows ==
    ASSUME NEW r \in Robots, NEW p \in Robot, NEW q \in Robot, Further(p, q), NEW at, NEW B
    PROVE  Heard(r, p, at, B) \subseteq Heard(r, q, at, B)
<1> SUFFICES ASSUME NEW d \in Heard(r, p, at, B)
             PROVE  d \in Heard(r, q, at, B)
  OBVIOUS
<1>1. d \in Delta /\ d.edge \in Edges /\ d.source_sequence \in Nat
  BY DEF Heard, Delta
<1>2. /\ p.streams[d.edge].last_sequence \in Nat
      /\ q.streams[d.edge].last_sequence \in Nat
      /\ p.streams[d.edge].last_sequence <= q.streams[d.edge].last_sequence
  BY <1>1 DEF Robot, Further
<1>. QED
  BY <1>1, <1>2 DEF Heard

\* What is known beside a delta that is reconciled stays of the same kind.
LEMMA ReconcileKnowsOf ==
    ASSUME NEW k \in Knowledge, NEW D \in SUBSET Delta, NEW d \in D, KnowsOf(k, D)
    PROVE  KnowsOf(Reconcile(d, k), D)
<1>1. Apply(d, k) \in Knowledge /\ KnowsOf(Apply(d, k), D)
  <2>1. CASE d \in k.overlay
    BY <2>1 DEF Apply, KnowsOf
  <2>2. CASE d \notin k.overlay
    <3> DEFINE won == (k.overlay \ Winner(k, d.edge)) \cup {d}
               next == k.version + 1
    <3>1. won \subseteq D /\ won \in SUBSET Delta /\ next \in Nat
      BY DEF KnowsOf, Knowledge
    <3>2. \A x, y \in won : x.edge = y.edge => x = y
      BY DEF KnowsOf, Winner
    <3>3. Apply(d, k) = [k EXCEPT !.overlay = won, !.version = next]
      BY <2>2 DEF Apply, Knowledge
    <3> HIDE DEF won, next
    <3>. QED
      BY <3>1, <3>2, <3>3 DEF Knowledge, KnowsOf
  <2>. QED
    BY <2>1, <2>2
<1>2. ASSUME NEW m \in Knowledge, KnowsOf(m, D)
      PROVE  KnowsOf(RecordProgression(d, m), D)
  <2> DEFINE done == (m.progression \ Latest(m, d.source, d.edge)) \cup {d}
  <2>1. done \subseteq D
    BY <1>2 DEF KnowsOf
  <2>2. RecordProgression(d, m) = [m EXCEPT !.progression = done]
    BY DEF RecordProgression
  <2> HIDE DEF done
  <2>. QED
    BY <1>2, <2>1, <2>2 DEF KnowsOf, Knowledge
<1>. QED
  BY <1>1, <1>2 DEF Reconcile

(* A new event of r's own stream, no older than anything known, is neither *)
(* refused nor taken for a repetition: r believes it, unless another's     *)
(* Blocked of the same tick stands against its Open.                       *)
LEMMA OwnIsBelieved ==
    ASSUME NEW k \in Knowledge, NEW r, NEW d \in Delta, d.source = r,
           NEW D \in SUBSET Delta, KnowsOf(k, D),
           \A x \in D : x.observed_at <= d.observed_at,
           \A x \in D : x.source = r /\ x.edge = d.edge =>
                           x.source_sequence < d.source_sequence,
           ~(IsBlocked(k, d.edge) <=> d.status = "Blocked")
    PROVE  Believes(r, Reconcile(d, k), d.edge, d.status, d.observed_at)
<1> DEFINE e == d.edge
           n == Reconcile(d, k)
<1>1. /\ \A x \in k.progression : x \in Delta /\ x \in D
      /\ \A x \in k.overlay : x \in Delta /\ x \in D
  BY DEF KnowsOf
<1>2. d.source_sequence \in Nat \ {0} /\ d.status \in EdgeStatus /\ d.observed_at \in Nat
  BY DEF Delta
<1>3. ~IsStale(d, k) /\ ~IsRepeat(d, k)
  <2>1. ASSUME NEW x \in Latest(k, d.source, d.edge)
        PROVE  x.source_sequence \in Nat /\ x.source_sequence < d.source_sequence
    BY <1>1 DEF Latest, Delta
  <2>. QED
    BY <1>2, <2>1 DEF IsStale, IsRepeat
<1>4. CASE ~IsDominated(d, k)
  <2>1. n = RecordProgression(d, Apply(d, k))
    BY <1>3, <1>4 DEF Reconcile, Decision
  <2>2. d \notin k.overlay
    <3> SUFFICES ASSUME d \in k.overlay PROVE FALSE
      OBVIOUS
    <3>1. d.source_sequence < d.source_sequence
      BY <1>1
    <3>. QED
      BY <1>2, <3>1
  <2>3. Winner(Apply(d, k), e) = {d}
    <3> DEFINE won == (k.overlay \ Winner(k, d.edge)) \cup {d}
               next == k.version + 1
    <3>1. Apply(d, k) = [k EXCEPT !.overlay = won, !.version = next]
      BY <2>2 DEF Apply, Knowledge
    <3>2. {x \in won : x.edge = e} = {d}
      BY DEF Winner
    <3> HIDE DEF won, next
    <3>3. Apply(d, k).overlay = won
      BY <3>1 DEF Knowledge
    <3>. QED
      BY <3>2, <3>3 DEF Winner
  <2>4. Winner(n, e) = {d}
    BY <2>1, <2>3 DEF RecordProgression, Winner
  <2>. QED
    BY <2>4 DEF Believes, IsBlocked
<1>5. CASE IsDominated(d, k)
  <2>1. n = RecordProgression(d, k)
    BY <1>3, <1>5 DEF Reconcile, Decision
  <2>2. Winner(n, e) = Winner(k, e)
    BY <2>1 DEF RecordProgression, Winner, Knowledge
  <2>3. PICK s \in Winner(k, e) : s.source # r /\ ~Supersedes(d, s)
    BY <1>5 DEF IsDominated
  <2>4. /\ s \in Delta /\ s.observed_at \in Nat /\ s.status \in EdgeStatus
        /\ s.observed_at <= d.observed_at /\ \A x \in Winner(k, e) : x = s
    <3>1. s \in k.overlay /\ s.edge = e
      BY DEF Winner
    <3>2. s \in Delta /\ s \in D
      BY <1>1, <3>1
    <3>. QED
      BY <3>1, <3>2 DEF Delta, Winner, KnowsOf
  <2>5. s.observed_at = d.observed_at /\ ~(d.status = "Blocked" /\ s.status = "Open")
    BY <1>2, <2>3, <2>4 DEF Supersedes
  <2>6. IsBlocked(k, e) <=> s.status = "Blocked"
    BY <2>3, <2>4 DEF IsBlocked
  <2>7. s.status = "Blocked"
    BY <1>2, <2>4, <2>5, <2>6 DEF EdgeStatus
  <2>. QED
    BY <2>2, <2>3, <2>5, <2>7 DEF Believes
<1>. QED
  BY <1>4, <1>5

-----------------------------------------------------------------------------
(* Observing and sensing.                                                  *)

\* The beliefs about other edges are left alone (MapReconciler).
LEMMA OthersAreLeft ==
    ASSUME NEW k \in Knowledge, NEW d \in Delta, NEW r, NEW e, e # d.edge, NEW status, NEW at
    PROVE  Believes(r, k, e, status, at) => Believes(r, Reconcile(d, k), e, status, at)
<1>1. Reconcile(d, k).overlay \in {k.overlay, (k.overlay \ Winner(k, d.edge)) \cup {d}}
  BY ReconcileEffect
<1>2. Winner(Reconcile(d, k), e) = Winner(k, e)
  BY <1>1 DEF Winner
<1>. QED
  BY <1>2 DEF Believes, IsBlocked

(* Robot::observe: the delta made is the robot's newest, and what the      *)
(* robot knows beside it was there before.                                 *)
LEMMA ObservedIsHeard ==
    ASSUME Goes, NEW r \in Robots, NEW s \in Emitter(r), NEW e \in Edges,
           NEW status \in EdgeStatus, NEW at \in Nat, NEW B,
           KnowsOf(s.robot.knowledge, Heard(r, s.robot, at, B)),
           s.emitted \in Seq(Heard(r, s.robot, at, B))
    PROVE  LET q == Observed(r, s, e, status, at)
           IN  /\ Further(s.robot, q.robot)
               /\ KnowsOf(q.robot.knowledge, Heard(r, q.robot, at, B))
               /\ q.emitted \in Seq(Heard(r, q.robot, at, B))
               /\ \A f, st : f # e /\ Believes(r, s.robot.knowledge, f, st, at) =>
                                Believes(r, q.robot.knowledge, f, st, at)
               /\ ~(IsBlocked(s.robot.knowledge, e) <=> status = "Blocked") =>
                     Believes(r, q.robot.knowledge, e, status, at)
<1> DEFINE p == s.robot
           k == p.knowledge
           d == TheDelta(r, p, e, status, at)
           noted == Noted(p, e, at)
           q == Observed(r, s, e, status, at)
           H == Heard(r, p, at, B)
           J == Heard(r, q.robot, at, B)
<1>1. Good(r, p) /\ p \in Robot /\ k \in Knowledge
  BY DEF Emitter, Good, Robot
<1>2. /\ d \in Delta /\ q \in Emitter(r) /\ q.robot = Learned(r, noted, d)
      /\ q.emitted = Append(s.emitted, d)
  BY ObservedIsGood
<1>3. /\ Good(r, noted) /\ noted.knowledge = k
      /\ noted.streams[e].last_sequence = p.streams[e].last_sequence + 1
      /\ \A f \in Edges \ {e} : noted.streams[f] = p.streams[f]
  <2>1. Good(r, noted)
    BY <1>1, NotedIsGood
  <2> DEFINE new == [last_sequence |-> p.streams[e].last_sequence + 1, last_observed_at |-> at]
             streams == [p.streams EXCEPT ![e] = new]
  <2>2. noted = [p EXCEPT !.streams = streams]
    BY <1>1 DEF Noted, Robot
  <2>3. streams[e] = new /\ \A f \in Edges \ {e} : streams[f] = p.streams[f]
    BY <1>1 DEF Robot
  <2> HIDE DEF streams
  <2>4. noted.streams = streams /\ noted.knowledge = k
    BY <1>1, <2>2 DEF Robot
  <2>. QED
    BY <2>1, <2>3, <2>4
<1>4. /\ d.edge = e /\ d.status = status /\ d.observed_at = at /\ d.source = r
      /\ d.source_sequence = p.streams[e].last_sequence + 1
  BY DEF TheDelta
<1> HIDE DEF d, noted, q
<1>5. q.robot.knowledge = Reconcile(d, k) /\ q.robot.streams = noted.streams
  BY <1>2, <1>3, LearnedIsGood
<1>6. Good(r, q.robot) /\ q.robot \in Robot
  BY <1>2 DEF Emitter, Good
<1>7. /\ p.streams \in [Edges -> [last_sequence : Nat, last_observed_at : Nat]]
      /\ q.robot.streams[e].last_sequence = p.streams[e].last_sequence + 1
      /\ \A f \in Edges \ {e} : q.robot.streams[f] = p.streams[f]
  BY <1>1, <1>3, <1>5 DEF Robot
<1>8. Further(p, q.robot)
  <2> SUFFICES ASSUME NEW f \in Edges
               PROVE  p.streams[f].last_sequence <= q.robot.streams[f].last_sequence
    BY DEF Further
  <2>1. p.streams[f].last_sequence \in Nat
    BY <1>7
  <2>2. CASE f = e
    BY <1>7, <2>1, <2>2
  <2>3. CASE f # e
    BY <1>7, <2>1, <2>3
  <2>. QED
    BY <2>2, <2>3
<1>9. H \subseteq J /\ J \in SUBSET Delta
  <2>1. H \subseteq J
    BY <1>1, <1>6, <1>8, HeardGrows
  <2>. QED
    BY <2>1 DEF Heard
<1>10. d \in J
  <2>1. d.source_sequence = q.robot.streams[d.edge].last_sequence
    BY <1>4, <1>7
  <2>2. d.source_sequence \in Nat
    BY <1>2 DEF Delta
  <2>. QED
    BY <1>2, <1>4, <2>1, <2>2 DEF Heard
<1>11. H \in SUBSET Delta /\ \A x \in H : x.observed_at <= d.observed_at
  BY <1>4 DEF Heard
<1>12. ASSUME NEW x \in H, x.source = r, x.edge = d.edge
       PROVE  x.source_sequence < d.source_sequence
  <2>1. x.source_sequence <= p.streams[e].last_sequence /\ x.source_sequence \in Nat
    BY <1>4, <1>12 DEF Heard, Delta
  <2>2. p.streams[e].last_sequence \in Nat
    BY <1>7
  <2>. QED
    BY <1>4, <2>1, <2>2
<1>13. KnowsOf(k, H) /\ KnowsOf(k, J) /\ s.emitted \in Seq(J)
  <2>1. KnowsOf(k, H) /\ s.emitted \in Seq(H)
    OBVIOUS
  <2> HIDE DEF H, J, k
  <2>. QED
    BY <1>9, <2>1 DEF KnowsOf
<1> HIDE DEF H, J, k, p
<1>14. KnowsOf(q.robot.knowledge, J)
  BY <1>1, <1>5, <1>9, <1>10, <1>13, ReconcileKnowsOf
<1>15. q.emitted \in Seq(J)
  BY <1>2, <1>10, <1>13
<1>16. \A f, st : f # e /\ Believes(r, k, f, st, at) =>
                    Believes(r, q.robot.knowledge, f, st, at)
  BY <1>1, <1>2, <1>4, <1>5, OthersAreLeft
<1>17. ~(IsBlocked(k, e) <=> status = "Blocked") =>
          Believes(r, q.robot.knowledge, e, status, at)
  <2>1. SUFFICES ASSUME ~(IsBlocked(k, e) <=> status = "Blocked")
                 PROVE  Believes(r, Reconcile(d, k), d.edge, d.status, d.observed_at)
    BY <1>4, <1>5
  <2>. QED
    BY <1>1, <1>2, <1>4, <1>11, <1>12, <1>13, <2>1, OwnIsBelieved
<1>. QED
  BY <1>8, <1>14, <1>15, <1>16, <1>17 DEF J, k, p, q

(* sense_for: the robot believes what it saw, of every edge at its node.   *)
LEMMA SensedIsHeard ==
    ASSUME Goes, NEW r \in Robots, NEW p, Good(r, p), NEW facts \in [Edges -> EdgeStatus],
           NEW at \in Nat, NEW B, KnowsOf(p.knowledge, Heard(r, p, at, B))
    PROVE  LET s == Sensed(r, p, facts, at)
           IN  /\ Further(p, s.robot)
               /\ KnowsOf(s.robot.knowledge, Heard(r, s.robot, at, B))
               /\ s.emitted \in Seq(Heard(r, s.robot, at, B))
               /\ Settings.senses =>
                    \A e \in Adjacency(Map, p.position) :
                       Believes(r, s.robot.knowledge, e, facts[e], at)
<1>1. p \in Robot
  BY DEF Good
<1>2. Further(p, p)
  <2>1. \A e \in Edges : p.streams[e].last_sequence \in Nat
    BY <1>1 DEF Robot
  <2>. QED
    BY <2>1 DEF Further
<1>3. /\ Quiet(p) \in Emitter(r) /\ Quiet(p).robot = p
      /\ Quiet(p).emitted \in Seq(Heard(r, p, at, B))
  <2>1. <<>> \in Seq(Heard(r, p, at, B))
    OBVIOUS
  <2>. QED
    BY <2>1, QuietIsGood
<1>4. CASE ~Settings.senses
  BY <1>2, <1>3, <1>4 DEF Sensed
<1>5. CASE Settings.senses
  <2> DEFINE n == Len(Map.ends)
             E == Emitter(r)
             A == Adjacency(Map, p.position)
             Has(s, i) == /\ Further(p, s.robot)
                          /\ KnowsOf(s.robot.knowledge, Heard(r, s.robot, at, B))
                          /\ s.emitted \in Seq(Heard(r, s.robot, at, B))
                          /\ \A e \in A : e <= i =>
                               Believes(r, s.robot.knowledge, e, facts[e], at)
             K == [i \in 0..n |-> {s \in E : Has(s, i)}]
  <2>1. n \in Nat /\ Edges = 1..n /\ A \subseteq 1..n
    BY SettingsAssumption DEF IsGraph, Edges, EdgeIds, Adjacency
  <2>2. Has(Quiet(p), 0)
    <3>1. \A e \in A : ~(e <= 0)
      BY <2>1
    <3>. QED
      BY <1>2, <1>3, <3>1
  <2>3. ASSUME NEW e \in 1..n, NEW s \in E, Has(s, e - 1),
               e \notin A \/ (IsBlocked(s.robot.knowledge, e) <=> facts[e] = "Blocked")
        PROVE  Has(s, e)
    <3> SUFFICES ASSUME NEW f \in A, f <= e
                 PROVE  Believes(r, s.robot.knowledge, f, facts[f], at)
      BY <2>3
    <3>1. CASE f <= e - 1
      BY <2>3, <3>1
    <3>2. CASE ~(f <= e - 1)
      <4>1. f = e
        BY <2>1, <3>2
      <4>. QED
        BY <2>3, <4>1 DEF Believes
    <3>. QED
      BY <3>1, <3>2
  <2>4. ASSUME NEW e \in 1..n, NEW s \in E, Has(s, e - 1), e \in A,
               ~(IsBlocked(s.robot.knowledge, e) <=> facts[e] = "Blocked")
        PROVE  Observed(r, s, e, facts[e], at) \in E /\ Has(Observed(r, s, e, facts[e], at), e)
    <3> DEFINE q == Observed(r, s, e, facts[e], at)
    <3>1. e \in Edges /\ facts[e] \in EdgeStatus /\ s \in Emitter(r)
      BY <2>1
    <3>2. q \in E
      BY <3>1, ObservedIsGood
    <3>3. /\ Further(s.robot, q.robot)
          /\ KnowsOf(q.robot.knowledge, Heard(r, q.robot, at, B))
          /\ q.emitted \in Seq(Heard(r, q.robot, at, B))
          /\ \A f, st : f # e /\ Believes(r, s.robot.knowledge, f, st, at) =>
                           Believes(r, q.robot.knowledge, f, st, at)
          /\ Believes(r, q.robot.knowledge, e, facts[e], at)
      BY <2>4, <3>1, ObservedIsHeard
    <3> HIDE DEF q
    <3>4. Further(p, q.robot)
      <4>1. q.robot \in Robot /\ s.robot \in Robot /\ Further(p, s.robot)
        BY <2>4, <3>2 DEF Emitter, Good
      <4>2. \A f \in Edges : /\ p.streams[f].last_sequence \in Nat
                             /\ s.robot.streams[f].last_sequence \in Nat
                             /\ q.robot.streams[f].last_sequence \in Nat
        BY <1>1, <4>1 DEF Robot
      <4>. QED
        BY <3>3, <4>1, <4>2 DEF Further
    <3>5. ASSUME NEW f \in A, f <= e PROVE Believes(r, q.robot.knowledge, f, facts[f], at)
      <4>1. CASE f = e
        BY <3>3, <4>1
      <4>2. CASE f # e
        <5>1. f <= e - 1
          BY <2>1, <3>5, <4>2
        <5>. QED
          BY <2>4, <3>3, <4>2, <5>1
      <4>. QED
        BY <4>1, <4>2
    <3>. QED
      BY <3>2, <3>3, <3>4, <3>5 DEF q
  <2> HIDE DEF Has
  <2>5. K \in [0..n -> SUBSET E] /\ \A i \in 0..n : K[i] = {s \in E : Has(s, i)}
    OBVIOUS
  <2> HIDE DEF K
  <2>6. Quiet(p) \in K[0]
    <3>1. 0 \in 0..n
      BY <2>1
    <3>2. K[0] = {s \in E : Has(s, 0)}
      BY <2>5, <3>1
    <3>. QED
      BY <1>3, <2>2, <3>2
  <2>7. ASSUME NEW e \in 1..n
        PROVE  K[e] = {s \in E : Has(s, e)} /\ K[e - 1] = {s \in E : Has(s, e - 1)}
    <3>1. e \in 0..n /\ e - 1 \in 0..n
      BY <2>1
    <3>. QED
      BY <2>5, <3>1
  <2>8. Sensed(r, p, facts, at) \in K[Len(Map.ends)]
    BY <1>5, <2>3, <2>4, <2>5, <2>6, <2>7, SensedByStep
  <2>9. Has(Sensed(r, p, facts, at), n)
    <3>1. n \in 0..n
      BY <2>1
    <3>. QED
      BY <2>5, <2>8, <3>1
  <2>. QED
    BY <2>1, <2>9 DEF Has
<1>. QED
  BY <1>4, <1>5

-----------------------------------------------------------------------------
(* The steps.                                                              *)

\* What was past stays past, as the clock and the streams go on.
LEMMA PastGrows ==
    ASSUME NEW fleet \in [Robots -> Robot], NEW later \in [Robots -> Robot],
           \A r \in Robots : Further(fleet[r], later[r]),
           NEW t \in Nat, NEW u \in Nat, t <= u
    PROVE  Past(fleet, t) \subseteq Past(later, u)
<1> SUFFICES ASSUME NEW d \in Past(fleet, t) PROVE d \in Past(later, u)
  OBVIOUS
<1> DEFINE x == fleet[d.source].streams[d.edge].last_sequence
           y == later[d.source].streams[d.edge].last_sequence
<1>1. /\ d \in Delta /\ d.edge \in Edges /\ d.source \in Robots
      /\ d.source_sequence \in Nat /\ d.observed_at \in Nat
      /\ d.observed_at <= t /\ d.source_sequence <= x
  BY DEF Past, Delta
<1>2. fleet[d.source] \in Robot /\ later[d.source] \in Robot
  BY <1>1
<1>3. x \in Nat /\ y \in Nat /\ x <= y
  BY <1>1, <1>2 DEF Robot, Further
<1>4. d.source_sequence <= y /\ d.observed_at <= u
  <2> HIDE DEF x, y
  <2>. QED
    BY <1>1, <1>3
<1>. QED
  BY <1>1, <1>4 DEF Past

\* What r has heard of in a handler is past when the handler is done.
LEMMA HeardIsPast ==
    ASSUME NEW fleet \in [Robots -> Robot], NEW later \in [Robots -> Robot],
           \A o \in Robots : Further(fleet[o], later[o]),
           NEW t \in Nat, NEW u \in Nat, t <= u, NEW r \in Robots
    PROVE  Heard(r, later[r], u, Past(fleet, t)) \subseteq Past(later, u)
<1>1. Past(fleet, t) \subseteq Past(later, u)
  BY PastGrows
<1> SUFFICES ASSUME NEW d \in Heard(r, later[r], u, Past(fleet, t))
             PROVE  d \in Past(later, u)
  OBVIOUS
<1>. QED
  BY <1>1 DEF Heard, Past

\* And what was past when it began, r may have heard of.
LEMMA PastIsHeard ==
    ASSUME NEW fleet \in [Robots -> Robot], NEW r \in Robots, NEW t \in Nat, NEW u \in Nat, t <= u
    PROVE  Past(fleet, t) \subseteq Heard(r, fleet[r], u, Past(fleet, t))
<1> SUFFICES ASSUME NEW d \in Past(fleet, t)
             PROVE  d \in Heard(r, fleet[r], u, Past(fleet, t))
  OBVIOUS
<1>1. /\ d \in Delta /\ d.observed_at \in Nat /\ d.observed_at <= t
      /\ d.source_sequence <= fleet[d.source].streams[d.edge].last_sequence
  BY DEF Past, Delta
<1>2. d.observed_at <= u
  BY <1>1
<1>. QED
  BY <1>1, <1>2 DEF Heard

\* Knowing less is knowing of more.
LEMMA KnowsOfMore ==
    ASSUME NEW k, NEW D, NEW E, KnowsOf(k, D), D \subseteq E
    PROVE  KnowsOf(k, E)
BY DEF KnowsOf

\* A robot whose streams are as they were.
LEMMA FurtherOrSame ==
    ASSUME NEW p \in Robot, NEW q, q.streams = p.streams
    PROVE  Further(p, q)
<1>1. \A e \in Edges : p.streams[e].last_sequence \in Nat
  BY DEF Robot
<1>. QED
  BY <1>1 DEF Further

(* A step keeps the second invariant if all it adds to what is known and   *)
(* under way is past when it is done.                                      *)
LEMMA HeardNext ==
    ASSUME IInv, HInv, IInv',
           now <= now', \A r \in Robots : Further(robots[r], robots'[r]),
           \A r \in Robots : KnowsOf(robots'[r].knowledge, Past(robots', now')),
           \A e \in Range(queue') : \/ e \in Range(queue) \/ e.kind # "delivery"
                                    \/ e \in Deliveries(Past(robots', now'), now')
    PROVE  HInv'
<1>1. /\ robots \in [Robots -> Robot] /\ robots' \in [Robots -> Robot]
      /\ now \in Nat /\ now' \in Nat
  BY DEF IInv
<1> DEFINE later == robots'
           tick == now'
<1>2. Past(robots, now) \subseteq Past(later, tick)
  <2>1. /\ later \in [Robots -> Robot] /\ tick \in Nat /\ now <= tick
        /\ \A r \in Robots : Further(robots[r], later[r])
    BY <1>1
  <2> HIDE DEF later, tick
  <2>. QED
    BY <1>1, <2>1, PastGrows
<1>3. ASSUME NEW e \in Range(queue'), e.kind = "delivery" PROVE e.delta \in Past(later, tick)
  <2>1. CASE e \in Range(queue)
    BY <1>2, <1>3, <2>1 DEF HInv
  <2>2. CASE e \in Deliveries(Past(later, tick), tick)
    BY <2>2 DEF Deliveries
  <2>. QED
    BY <1>3, <2>1, <2>2
<1>. QED
  BY <1>3 DEF HInv

\* What a step does to one robot that senses in it.
SeesTheTruth(r) ==
    \/ ~Settings.senses
    \/ /\ truth' = truth
       /\ robots'[r].position = robots[r].position \/ robots'[r].mission_complete
    \/ \A e \in Adjacency(Map, robots'[r].position) :
         \/ IsBlocked(robots'[r].knowledge, e) <=> (truth'[e] = "Blocked")
         \/ OverruledNow(r, e)'

\* A robot that believes what was seen at this tick has sensed.
LEMMA BelievesIsSensed ==
    ASSUME NEW r \in Robots, NEW facts, truth' = facts,
           \A e \in Adjacency(Map, robots'[r].position) :
              Believes(r, robots'[r].knowledge, e, facts[e], now')
    PROVE  SeesTheTruth(r)
BY DEF SeesTheTruth, Believes, OverruledNow

(* At its node a robot believes what it sees, unless it was there before   *)
(* or its mission is over (ScenarioRunner::advance_robot).                 *)
LEMMA AtNodeIsHeard ==
    ASSUME IInv, HInv, NEW r \in Robots, NEW at \in Nat, now <= at
    PROVE  LET s == AtNode(r, at)
               H == Heard(r, s.robot, at, Past(robots, now))
           IN  /\ Further(robots[r], s.robot)
               /\ KnowsOf(s.robot.knowledge, H) /\ s.emitted \in Seq(H)
               /\ \/ ~Settings.senses \/ s.robot.mission_complete
                  \/ s.robot.position = robots[r].position
                  \/ \A e \in Adjacency(Map, s.robot.position) :
                        Believes(r, s.robot.knowledge, e, truth[e], at)
<1> DEFINE p == robots[r]
           q == Arrived(r, p)
           B == Past(robots, now)
<1>1. /\ Goes /\ Good(r, p) /\ p \in Robot /\ truth \in [Edges -> EdgeStatus]
      /\ robots \in [Robots -> Robot] /\ now \in Nat /\ KnowsOf(p.knowledge, B)
  BY DEF IInv, HInv, RobotOK, Good
<1>2. B \subseteq Heard(r, p, at, B)
  BY <1>1, PastIsHeard
<1> HIDE DEF B, p
<1>3. KnowsOf(p.knowledge, Heard(r, p, at, B))
  BY <1>1, <1>2, KnowsOfMore
<1>4. CASE ~InTransit(p)
  <2>1. AtNode(r, at) = Quiet(p)
    BY <1>4 DEF AtNode, p
  <2>2. <<>> \in Seq(Heard(r, p, at, B)) /\ Further(p, p)
    BY <1>1, FurtherOrSame
  <2>3. Quiet(p).robot = p /\ Quiet(p).emitted = <<>>
    BY DEF Quiet
  <2>. QED
    BY <1>3, <2>1, <2>2, <2>3 DEF p, B
<1>5. CASE InTransit(p)
  <2>1. Good(r, q) /\ q.knowledge = p.knowledge /\ q.streams = p.streams
    BY <1>1, <1>5, ArrivedIsGood
  <2>2. q \in Robot /\ Further(p, q)
    BY <1>1, <2>1, FurtherOrSame DEF Good
  <2>3. KnowsOf(q.knowledge, Heard(r, q, at, B))
    <3>1. Heard(r, p, at, B) \subseteq Heard(r, q, at, B)
      BY <1>1, <2>2, HeardGrows
    <3>. QED
      BY <1>3, <2>1, <3>1, KnowsOfMore
  <2> HIDE DEF q
  <2>4. CASE q.mission_complete
    <3>1. AtNode(r, at) = Quiet(q)
      BY <1>5, <2>4 DEF AtNode, p, q
    <3>2. <<>> \in Seq(Heard(r, q, at, B))
      OBVIOUS
    <3>3. Quiet(q).robot = q /\ Quiet(q).emitted = <<>>
      BY DEF Quiet
    <3>. QED
      BY <2>2, <2>3, <2>4, <3>1, <3>2, <3>3 DEF p, B
  <2>5. CASE ~q.mission_complete
    <3> DEFINE s == Sensed(r, q, truth, at)
    <3>1. AtNode(r, at) = s
      BY <1>5, <2>5 DEF AtNode, p, q
    <3>2. s \in Emitter(r) /\ SameCourse(q, s.robot)
      BY <1>1, <2>1, SensedIsGood
    <3>3. /\ Further(q, s.robot)
          /\ KnowsOf(s.robot.knowledge, Heard(r, s.robot, at, B))
          /\ s.emitted \in Seq(Heard(r, s.robot, at, B))
          /\ Settings.senses =>
               \A e \in Adjacency(Map, q.position) :
                  Believes(r, s.robot.knowledge, e, truth[e], at)
      BY <1>1, <2>1, <2>3, SensedIsHeard
    <3> HIDE DEF s
    <3>4. s.robot.position = q.position
      BY <3>2 DEF SameCourse
    <3>5. s.robot \in Robot
      BY <3>2 DEF Emitter, Good
    <3>6. Further(p, s.robot)
      <4>1. \A e \in Edges : /\ p.streams[e].last_sequence \in Nat
                             /\ q.streams[e].last_sequence \in Nat
                             /\ s.robot.streams[e].last_sequence \in Nat
        BY <1>1, <2>2, <3>5 DEF Robot
      <4>. QED
        BY <2>2, <3>3, <4>1 DEF Further
    <3>. QED
      BY <3>1, <3>3, <3>4, <3>6 DEF p, B
  <2>. QED
    BY <2>4, <2>5
<1>. QED
  BY <1>4, <1>5

\* An event is not popped before its tick.
LEMMA NothingIsEarly ==
    ASSUME IInv, NEW kind, HasDue(kind)
    PROVE  /\ now \in Nat /\ Head(queue).at \in Nat /\ now <= Head(queue).at
           /\ Range(Tail(queue)) \subseteq Range(queue) /\ Head(queue) \in Range(queue)
           /\ QueueOK(Tail(queue), Head(queue).at) /\ queue # <<>>
<1>1. queue # <<>> /\ now \in Nat /\ QueueOK(queue, now)
  BY DEF HasDue, IInv
<1> DEFINE h == Head(queue)
<1>2. /\ h.at >= now /\ h.at \in Nat /\ QueueOK(Tail(queue), h.at)
      /\ Range(queue) = Range(Tail(queue)) \cup {h}
  BY <1>1, TailOf
<1> HIDE DEF h
<1>3. now <= h.at
  BY <1>1, <1>2
<1>. QED
  BY <1>1, <1>2, <1>3 DEF h

(* A handler of one robot, which sends what the robot has heard of.        *)
LEMMA OneRobotHeard ==
    ASSUME IInv, HInv, IInv', NEW kind, HasDue(kind), NEW r \in Robots, NEW p, NEW q,
           RobotDone(r, p, q), Further(robots[r], p),
           KnowsOf(p.knowledge, Heard(r, p, Head(queue).at, Past(robots, now))),
           \A e \in Range(q) :
              \/ e \in Range(queue) \/ e.kind # "delivery"
              \/ e \in Deliveries(Heard(r, p, Head(queue).at, Past(robots, now)),
                                  Head(queue).at)
    PROVE  HInv'
<1> DEFINE at == Head(queue).at
           later == robots'
           B == Past(robots, now)
           H == Heard(r, p, at, B)
<1>1. /\ now \in Nat /\ at \in Nat /\ now <= at
      /\ robots \in [Robots -> Robot] /\ later \in [Robots -> Robot]
      /\ \A o \in Robots : KnowsOf(robots[o].knowledge, B)
  BY NothingIsEarly DEF IInv, HInv
<1>2. /\ now' = at /\ queue' = q /\ later = [robots EXCEPT ![r] = p]
  BY DEF RobotDone
<1> HIDE DEF later, at
<1>3. later[r] = p /\ \A o \in Robots \ {r} : later[o] = robots[o]
  BY <1>1, <1>2
<1>4. \A o \in Robots : Further(robots[o], later[o])
  <2>1. \A o \in Robots : Further(robots[o], robots[o])
    BY <1>1, FurtherOrSame
  <2>. QED
    BY <1>3, <2>1
<1>5. H \subseteq Past(later, at)
  <2>1. Heard(r, later[r], at, Past(robots, now)) \subseteq Past(later, at)
    BY <1>1, <1>4, HeardIsPast
  <2>. QED
    BY <1>3, <2>1
<1>6. B \subseteq Past(later, at)
  BY <1>1, <1>4, PastGrows
<1>7. KnowsOf(p.knowledge, H)
  BY DEF at
<1>8. \A e \in Range(q) : \/ e \in Range(queue) \/ e.kind # "delivery"
                          \/ e \in Deliveries(H, at)
  BY DEF at
<1> HIDE DEF H, B
<1>9. ASSUME NEW o \in Robots PROVE KnowsOf(later[o].knowledge, Past(later, at))
  <2>1. CASE o = r
    BY <1>3, <1>5, <1>7, <2>1, KnowsOfMore
  <2>2. CASE o # r
    BY <1>1, <1>3, <1>6, <2>2, KnowsOfMore
  <2>. QED
    BY <2>1, <2>2
<1>10. Deliveries(H, at) \subseteq Deliveries(Past(later, at), at)
  BY <1>5 DEF Deliveries
<1>11. \A e \in Range(q) : \/ e \in Range(queue) \/ e.kind # "delivery"
                           \/ e \in Deliveries(Past(later, at), at)
  BY <1>8, <1>10
<1>. QED
  BY <1>1, <1>2, <1>4, <1>9, <1>11, HeardNext DEF later

(* Whoever is not r is as before, and saw nothing new.                     *)
LEMMA OthersSawNothing ==
    ASSUME IInv, NEW r \in Robots, NEW p, NEW q, RobotDone(r, p, q),
           NEW o \in Robots, o # r
    PROVE  SeesTheTruth(o)
<1>1. robots'[o] = robots[o] /\ truth' = truth
  BY DEF RobotDone, IInv
<1>. QED
  BY <1>1 DEF SeesTheTruth

(* advance_robot, when there is a next event for the robot.                *)
LEMMA AdvanceIsSensed ==
    ASSUME IInv, HInv, IInv', NEW r \in Robots, HasDue("advance"), Head(queue).robot = r,
           NEW q \in Sent(Tail(queue), Messages(r, AtNode(r, Head(queue).at).emitted),
                          Head(queue).at),
           NEW t \in Nat, t >= Head(queue).at, NEW p \in Robot,
           p.knowledge = AtNode(r, Head(queue).at).robot.knowledge,
           p.streams = AtNode(r, Head(queue).at).robot.streams,
           p.position = AtNode(r, Head(queue).at).robot.position,
           p.mission_complete = AtNode(r, Head(queue).at).robot.mission_complete,
           RobotDone(r, p, Enqueue(q, Advance(r, t)))
    PROVE  HInv' /\ \A o \in Robots : SeesTheTruth(o)
<1> DEFINE at == Head(queue).at
           s == AtNode(r, at)
           rest == Tail(queue)
           B == Past(robots, now)
           H == Heard(r, p, at, B)
           J == Heard(r, s.robot, at, B)
           m == Messages(r, s.emitted)
           after == Enqueue(q, Advance(r, t))
<1>1. /\ now \in Nat /\ at \in Nat /\ now <= at /\ Range(rest) \subseteq Range(queue)
      /\ QueueOK(rest, at) /\ Goes
  BY NothingIsEarly DEF IInv
<1>2. /\ Further(robots[r], s.robot)
      /\ KnowsOf(s.robot.knowledge, J) /\ s.emitted \in Seq(J)
      /\ \/ ~Settings.senses \/ s.robot.mission_complete
         \/ s.robot.position = robots[r].position
         \/ \A e \in Adjacency(Map, s.robot.position) :
               Believes(r, s.robot.knowledge, e, truth[e], at)
  BY <1>1, AtNodeIsHeard
<1>3. H = J
  BY DEF Heard
<1>4. J \in SUBSET Delta
  BY DEF Heard
<1>5. RobotDone(r, p, after) /\ q \in Sent(rest, m, at)
  OBVIOUS
<1>6. m \in Seq(Message(J))
  BY <1>1, <1>2, MessagesType
<1> HIDE DEF m, rest, at, B
<1>7. /\ QueueOK(q, at)
      /\ Range(q) \subseteq Range(rest) \cup Deliveries(J, at)
  <2> HIDE DEF J, s
  <2>. QED
    BY <1>1, <1>4, <1>5, <1>6, SendKeeps
<1>8. Range(after) = Range(q) \cup {Advance(r, t)}
  <2>1. Advance(r, t) \in Event /\ q \in Seq(Event)
    BY <1>7, AdvanceIs DEF QueueOK
  <2>. QED
    BY <2>1, EnqueueAdds
<1>9. \A e \in Range(after) : \/ e \in Range(queue) \/ e.kind # "delivery"
                              \/ e \in Deliveries(H, at)
  BY <1>1, <1>3, <1>7, <1>8 DEF Advance
<1> HIDE DEF after, s
<1>10. Further(robots[r], p) /\ KnowsOf(p.knowledge, H)
  <2>1. p.streams = s.robot.streams /\ p.knowledge = s.robot.knowledge
    BY DEF s, at
  <2> HIDE DEF H, J
  <2>. QED
    BY <1>2, <1>3, <2>1 DEF Further
<1>11. HInv'
  BY <1>5, <1>9, <1>10, OneRobotHeard DEF at, B
<1>12. SeesTheTruth(r)
  <2>1. /\ robots'[r] = p /\ truth' = truth /\ now' = at
    BY <1>5 DEF RobotDone, IInv, at
  <2>2. /\ p.knowledge = s.robot.knowledge /\ p.position = s.robot.position
        /\ p.mission_complete = s.robot.mission_complete
    BY DEF s, at
  <2>3. scenario' = scenario
    BY <1>5 DEF RobotDone
  <2>4. CASE ~Settings.senses \/ p.mission_complete \/ p.position = robots[r].position
    BY <2>1, <2>4 DEF SeesTheTruth
  <2>5. CASE \A e \in Adjacency(Map, p.position) : Believes(r, p.knowledge, e, truth[e], at)
    BY <2>1, <2>5, BelievesIsSensed
  <2>. QED
    BY <1>2, <2>2, <2>4, <2>5
<1>. QED
  BY <1>5, <1>11, <1>12, OthersSawNothing

\* A robot that leaves a node has sensed there.
LEMMA DepartIsSensed ==
    ASSUME IInv, HInv, IInv', NEW r \in Robots, Depart(r)
    PROVE  HInv' /\ \A o \in Robots : SeesTheTruth(o)
<1> DEFINE at == Head(queue).at
           s == AtNode(r, at)
           p == Departed(s.robot, at)
           t == p.transit.arrival
<1>1. HasDue("advance") /\ Head(queue).robot = r /\ CanDepart(s.robot)
  BY DEF Depart
<1>2. PICK q \in Sent(Tail(queue), Messages(r, s.emitted), at) :
        RobotDone(r, p, Enqueue(q, Advance(r, t)))
  BY DEF Depart
<1>3. at \in Nat /\ Good(r, s.robot) /\ Goes
  BY <1>1, AdvanceIsDue DEF IInv
<1>4. /\ Good(r, p) /\ t \in Nat /\ t > at
      /\ p.position = s.robot.position /\ p.knowledge = s.robot.knowledge
      /\ p.mission_complete = s.robot.mission_complete /\ p.streams = s.robot.streams
  BY <1>1, <1>3, DepartedIsGood
<1>5. p \in Robot /\ t >= at
  BY <1>3, <1>4 DEF Good
<1> HIDE DEF p, t
<1>. QED
  BY <1>1, <1>2, <1>4, <1>5, AdvanceIsSensed

\* So has one that waits.
LEMMA ParkIsSensed ==
    ASSUME IInv, HInv, IInv', NEW r \in Robots, Park(r)
    PROVE  HInv' /\ \A o \in Robots : SeesTheTruth(o)
<1> DEFINE at == Head(queue).at
           s == AtNode(r, at)
           p == s.robot
           t == at + RetryMs
<1>1. HasDue("advance") /\ Head(queue).robot = r
  BY DEF Park
<1>2. PICK q \in Sent(Tail(queue), Messages(r, s.emitted), at) :
        RobotDone(r, p, Enqueue(q, Advance(r, t)))
  BY DEF Park
<1>3. at \in Nat /\ Good(r, p)
  BY <1>1, AdvanceIsDue
<1>4. p \in Robot /\ t \in Nat /\ t >= at
  BY <1>3, SettingsAssumption DEF Good
<1> HIDE DEF t
<1>. QED
  BY <1>1, <1>2, <1>4, AdvanceIsSensed

\* A robot whose mission is over does not sense.
LEMMA EndChainIsSensed ==
    ASSUME IInv, HInv, IInv', NEW r \in Robots, EndChain(r)
    PROVE  HInv' /\ \A o \in Robots : SeesTheTruth(o)
<1> DEFINE at == Head(queue).at
           s == AtNode(r, at)
           p == s.robot
           B == Past(robots, now)
<1>1. /\ HasDue("advance") /\ p.mission_complete /\ RobotDone(r, p, Tail(queue))
  BY DEF EndChain
<1>2. /\ now \in Nat /\ at \in Nat /\ now <= at
      /\ Range(Tail(queue)) \subseteq Range(queue)
  BY <1>1, NothingIsEarly
<1>3. Further(robots[r], p) /\ KnowsOf(p.knowledge, Heard(r, p, at, B))
  BY <1>2, AtNodeIsHeard
<1> HIDE DEF s
<1>4. HInv'
  BY <1>1, <1>2, <1>3, OneRobotHeard
<1>5. SeesTheTruth(r)
  <2>1. robots'[r] = p /\ truth' = truth
    BY <1>1 DEF RobotDone, IInv
  <2>. QED
    BY <1>1, <2>1 DEF SeesTheTruth
<1>. QED
  BY <1>1, <1>4, <1>5, OthersSawNothing

\* Nobody sees anything in a step that moves nobody.
LEMMA StandingSeesNothing ==
    ASSUME truth' = truth, NEW r \in Robots, robots'[r].position = robots[r].position
    PROVE  SeesTheTruth(r)
BY DEF SeesTheTruth

(* A step that only changes what is scheduled, and schedules no delivery.  *)
LEMMA NobodyHears ==
    ASSUME IInv, HInv, IInv', robots' = robots, truth' = truth, now <= now',
           \A e \in Range(queue') : e \in Range(queue) \/ e.kind # "delivery"
    PROVE  HInv' /\ \A r \in Robots : SeesTheTruth(r)
<1> DEFINE tick == now'
<1>1. /\ now \in Nat /\ tick \in Nat /\ robots \in [Robots -> Robot]
      /\ \A r \in Robots : KnowsOf(robots[r].knowledge, Past(robots, now))
  BY DEF IInv, HInv
<1>2. \A r \in Robots : Further(robots[r], robots[r])
  BY <1>1, FurtherOrSame
<1>3. now <= tick
  OBVIOUS
<1> HIDE DEF tick
<1>4. Past(robots, now) \subseteq Past(robots, tick)
  BY <1>1, <1>2, <1>3, PastGrows
<1>5. \A r \in Robots : KnowsOf(robots[r].knowledge, Past(robots, tick))
  BY <1>1, <1>4, KnowsOfMore
<1>6. HInv'
  BY <1>2, <1>3, <1>5, HeardNext DEF tick
<1>. QED
  BY <1>6, StandingSeesNothing

\* What is delivered was known to its sender: past, at the latest now.
LEMMA DeliverIsHeard ==
    ASSUME IInv, HInv, IInv', Deliver
    PROVE  HInv' /\ \A r \in Robots : SeesTheTruth(r)
<1> DEFINE e == Head(queue)
           at == e.at
           B == Past(robots, now)
<1>1. HasDue("delivery") /\ "delivery" # "advance" /\ now' = at /\ queue' = Tail(queue)
  BY DEF Deliver
<1>2. /\ now \in Nat /\ at \in Nat /\ now <= at /\ e \in Range(queue)
      /\ Range(Tail(queue)) \subseteq Range(queue) /\ e.kind = "delivery"
  BY <1>1, NothingIsEarly DEF HasDue
<1>3. e.to \in Endpoints /\ e.delta \in Delta /\ e.delta \in B
  BY <1>1, <1>2, OtherIsDue, EventCases DEF HInv
<1>4. CASE e.to = Station
  <2>1. robots' = robots /\ truth' = truth
    BY <1>4 DEF Deliver
  <2>. QED
    BY <1>1, <1>2, <2>1, NobodyHears
<1>5. CASE e.to # Station
  <2> DEFINE r == e.to
             d == e.delta
             p == robots[r]
             q == Learned(r, p, d)
             H == Heard(r, q, at, B)
  <2>1. r \in Robots
    BY <1>3, <1>5 DEF Endpoints
  <2>2. RobotDone(r, q, Tail(queue))
    BY <1>5 DEF Deliver, RobotDone
  <2>3. /\ Goes /\ Good(r, p) /\ p \in Robot /\ robots \in [Robots -> Robot]
        /\ KnowsOf(p.knowledge, B) /\ p.knowledge \in Knowledge
    BY <2>1 DEF IInv, HInv, RobotOK, Good, Robot
  <2>4. B \subseteq Heard(r, p, at, B)
    BY <1>2, <2>1, <2>3, PastIsHeard
  <2> HIDE DEF r, p, d, B
  <2>5. d \in B /\ d \in Delta
    BY <1>3 DEF d
  <2>6. /\ Good(r, q) /\ SameCourse(p, q) /\ q.streams = p.streams
        /\ q.knowledge = Reconcile(d, p.knowledge)
    BY <2>1, <2>3, <2>5, LearnedIsGood
  <2> HIDE DEF q
  <2>7. Heard(r, p, at, B) = H /\ H \in SUBSET Delta
    BY <2>6 DEF Heard
  <2> HIDE DEF H
  <2>8. d \in H /\ KnowsOf(p.knowledge, H)
    BY <2>3, <2>4, <2>5, <2>7, KnowsOfMore
  <2>9. KnowsOf(q.knowledge, H)
    BY <2>3, <2>6, <2>7, <2>8, ReconcileKnowsOf
  <2>10. Further(p, q)
    BY <2>3, <2>6, FurtherOrSame
  <2>11. HInv'
    BY <1>1, <1>2, <2>1, <2>2, <2>9, <2>10, OneRobotHeard DEF p, H, B
  <2>12. SeesTheTruth(r)
    <3>1. robots'[r] = q /\ truth' = truth
      BY <2>1, <2>2 DEF RobotDone, IInv
    <3>2. q.position = robots[r].position
      BY <2>6 DEF SameCourse, p
    <3>. QED
      BY <2>1, <3>1, <3>2, StandingSeesNothing
  <2>. QED
    BY <2>1, <2>2, <2>11, <2>12, OthersSawNothing
<1>. QED
  BY <1>4, <1>5

\* A manual observation is the newest of its stream.
LEMMA ObserveEdgeIsHeard ==
    ASSUME IInv, HInv, IInv', ObserveEdge
    PROVE  HInv' /\ \A o \in Robots : SeesTheTruth(o)
<1> DEFINE at == Head(queue).at
           a == Head(queue).action
           r == a.robot
           p == robots[r]
           s == Observed(r, Quiet(p), a.edge, a.status, at)
           B == Past(robots, now)
           H == Heard(r, s.robot, at, B)
           m == Messages(r, s.emitted)
           rest == Tail(queue)
<1>1. HasDue("scripted") /\ "scripted" # "advance" /\ a.kind = "observe"
  BY DEF ObserveEdge
<1>2. PICK q \in Sent(rest, m, at) : RobotDone(r, s.robot, q)
  BY DEF ObserveEdge
<1>3. r \in Robots /\ a.edge \in Edges /\ a.status \in EdgeStatus
  BY <1>1, ScriptedIsDue, ActionCases
<1>4. /\ now \in Nat /\ at \in Nat /\ now <= at /\ QueueOK(rest, at)
      /\ Range(rest) \subseteq Range(queue)
  BY <1>1, NothingIsEarly
<1>5. /\ Goes /\ Good(r, p) /\ p \in Robot /\ robots \in [Robots -> Robot]
      /\ KnowsOf(p.knowledge, B)
  BY <1>3 DEF IInv, HInv, RobotOK, Good
<1>6. Quiet(p) \in Emitter(r) /\ Quiet(p).robot = p /\ Quiet(p).emitted = <<>>
  BY <1>3, <1>5, QuietIsGood
<1>7. B \subseteq Heard(r, p, at, B)
  BY <1>3, <1>4, <1>5, PastIsHeard
<1>8. s \in Emitter(r) /\ SameCourse(p, s.robot)
  BY <1>3, <1>4, <1>5, <1>6, ObservedIsGood
<1> HIDE DEF B
<1>9. KnowsOf(p.knowledge, Heard(r, p, at, B))
  <2> HIDE DEF p, r, at
  <2>. QED
    BY <1>5, <1>7, KnowsOfMore
<1>10. <<>> \in Seq(Heard(r, p, at, B))
  OBVIOUS
<1>11. /\ Further(p, s.robot) /\ KnowsOf(s.robot.knowledge, H) /\ s.emitted \in Seq(H)
  <2> DEFINE z == Quiet(p)
             e == a.edge
             status == a.status
  <2>1. KnowsOf(z.robot.knowledge, Heard(r, z.robot, at, B))
    BY <1>6, <1>9
  <2>2. z.emitted \in Seq(Heard(r, z.robot, at, B))
    BY <1>6, <1>10
  <2>3. s = Observed(r, z, e, status, at)
    OBVIOUS
  <2>4. z \in Emitter(r) /\ z.robot = p /\ e \in Edges /\ status \in EdgeStatus
    BY <1>3, <1>6
  <2> HIDE DEF z, s, p, r, at, e, status
  <2>. QED
    BY <1>3, <1>4, <1>5, <2>1, <2>2, <2>3, <2>4, ObservedIsHeard
<1>12. H \in SUBSET Delta
  BY DEF Heard
<1> HIDE DEF H, s, p, r, at, rest, a
<1>13. m \in Seq(Message(H))
  BY <1>3, <1>5, <1>11, MessagesType
<1> HIDE DEF m
<1>14. Range(q) \subseteq Range(rest) \cup Deliveries(H, at)
  BY <1>2, <1>4, <1>5, <1>12, <1>13, SendKeeps
<1>15. \A e \in Range(q) : \/ e \in Range(queue) \/ e.kind # "delivery"
                           \/ e \in Deliveries(H, at)
  BY <1>4, <1>14
<1>16. HInv'
  BY <1>1, <1>2, <1>3, <1>11, <1>15, OneRobotHeard DEF at, p, H, B
<1>17. SeesTheTruth(r)
  <2>1. robots'[r] = s.robot /\ truth' = truth
    BY <1>2, <1>3 DEF RobotDone, IInv
  <2>2. s.robot.position = robots[r].position
    BY <1>8 DEF SameCourse, p
  <2>. QED
    BY <1>3, <2>1, <2>2, StandingSeesNothing
<1>. QED
  BY <1>2, <1>3, <1>16, <1>17, OthersSawNothing

\* What a resynchronization sends, the sender knew.
LEMMA ResynchronizeIsHeard ==
    ASSUME IInv, HInv, IInv', Resynchronize
    PROVE  HInv' /\ \A o \in Robots : SeesTheTruth(o)
<1> DEFINE at == Head(queue).at
           r == Head(queue).action.robot
           p == robots[r]
           B == Past(robots, now)
           H == Heard(r, p, at, B)
           m == Messages(r, Winners(p))
           rest == Tail(queue)
<1>1. /\ HasDue("scripted") /\ "scripted" # "advance"
      /\ Head(queue).action.kind = "resynchronize"
  BY DEF Resynchronize
<1>2. PICK q \in Sent(rest, m, at) : RobotDone(r, p, q)
  BY DEF Resynchronize
<1>3. r \in Robots
  BY <1>1, ScriptedIsDue, ActionCases
<1>4. /\ now \in Nat /\ at \in Nat /\ now <= at /\ QueueOK(rest, at)
      /\ Range(rest) \subseteq Range(queue)
  BY <1>1, NothingIsEarly
<1>5. /\ Goes /\ p \in Robot /\ robots \in [Robots -> Robot] /\ KnowsOf(p.knowledge, B)
  BY <1>3 DEF IInv, HInv, RobotOK, Good
<1>6. B \subseteq Heard(r, p, at, B)
  BY <1>3, <1>4, <1>5, PastIsHeard
<1>7. H \in SUBSET Delta
  BY DEF Heard
<1>8. Further(p, p)
  BY <1>5, FurtherOrSame
<1> HIDE DEF B, p, r, at, rest, H
<1>9. KnowsOf(p.knowledge, H)
  BY <1>5, <1>6, KnowsOfMore DEF H
<1>10. Winners(p) \in Seq(H)
  <2>1. Winners(p) \in Seq(p.knowledge.overlay)
    BY <1>5, WinnersType
  <2>2. p.knowledge.overlay \subseteq H
    BY <1>9 DEF KnowsOf
  <2>. QED
    BY <2>1, <2>2
<1>11. m \in Seq(Message(H))
  BY <1>3, <1>5, <1>10, MessagesType
<1> HIDE DEF m
<1>12. Range(q) \subseteq Range(rest) \cup Deliveries(H, at)
  BY <1>2, <1>4, <1>5, <1>7, <1>11, SendKeeps
<1>13. \A e \in Range(q) : \/ e \in Range(queue) \/ e.kind # "delivery"
                           \/ e \in Deliveries(H, at)
  BY <1>4, <1>12
<1>14. HInv'
  BY <1>1, <1>2, <1>3, <1>8, <1>9, <1>13, OneRobotHeard DEF at, p, H, B
<1>15. SeesTheTruth(r)
  <2>1. robots'[r] = p /\ truth' = truth
    BY <1>2, <1>3 DEF RobotDone, IInv
  <2>2. p.position = robots[r].position
    BY DEF p
  <2>. QED
    BY <1>3, <2>1, <2>2, StandingSeesNothing
<1>. QED
  BY <1>2, <1>3, <1>14, <1>15, OthersSawNothing

(* A change of the truth: every robot senses, and what they all send is    *)
(* known when the last of them is done.                                    *)
LEMMA SetWorldEdgeStateIsSensed ==
    ASSUME IInv, HInv, IInv', SetWorldEdgeState
    PROVE  HInv' /\ \A o \in Robots : SeesTheTruth(o)
<1> DEFINE at == Head(queue).at
           a == Head(queue).action
           facts == [truth EXCEPT ![a.edge] = a.status]
           s == [r \in Robots |-> Sensed(r, robots[r], facts, at)]
           ms == [r \in Robots |-> Messages(r, s[r].emitted)]
           m == FlattenSeq(ms)
           rest == Tail(queue)
           B == Past(robots, now)
           later == robots'
           P == Past(later, at)
           M == Seq(Message(P))
<1>1. /\ HasDue("scripted") /\ "scripted" # "advance" /\ a.kind = "world"
      /\ truth' = facts /\ later = [r \in Robots |-> s[r].robot]
      /\ queue' \in Sent(rest, m, at) /\ now' = at /\ scenario' = scenario
  BY DEF SetWorldEdgeState
<1>2. a.edge \in Edges /\ a.status \in EdgeStatus
  BY <1>1, ScriptedIsDue, ActionCases
<1>3. /\ now \in Nat /\ at \in Nat /\ now <= at /\ QueueOK(rest, at)
      /\ Range(rest) \subseteq Range(queue)
  BY <1>1, NothingIsEarly
<1>4. /\ Goes /\ robots \in [Robots -> Robot] /\ later \in [Robots -> Robot]
      /\ \A r \in Robots : Good(r, robots[r]) /\ KnowsOf(robots[r].knowledge, B)
  BY DEF IInv, HInv, RobotOK
<1>5. facts \in [Edges -> EdgeStatus]
  BY <1>2 DEF IInv
<1> HIDE DEF facts, at, a, rest, B
<1>6. ASSUME NEW r \in Robots
      PROVE  /\ Further(robots[r], s[r].robot)
             /\ KnowsOf(s[r].robot.knowledge, Heard(r, s[r].robot, at, B))
             /\ s[r].emitted \in Seq(Heard(r, s[r].robot, at, B))
             /\ s[r].robot.position = robots[r].position
             /\ Settings.senses =>
                  \A e \in Adjacency(Map, robots[r].position) :
                     Believes(r, s[r].robot.knowledge, e, facts[e], at)
  <2> DEFINE p == robots[r]
             z == Sensed(r, p, facts, at)
  <2>1. Good(r, p) /\ KnowsOf(p.knowledge, B)
    BY <1>4
  <2>2. B \subseteq Heard(r, p, at, B)
    BY <1>3, <1>4, PastIsHeard DEF B
  <2> HIDE DEF p
  <2>3. KnowsOf(p.knowledge, Heard(r, p, at, B))
    BY <2>1, <2>2, KnowsOfMore
  <2>4. /\ Further(p, z.robot)
        /\ KnowsOf(z.robot.knowledge, Heard(r, z.robot, at, B))
        /\ z.emitted \in Seq(Heard(r, z.robot, at, B))
        /\ Settings.senses =>
             \A e \in Adjacency(Map, p.position) :
                Believes(r, z.robot.knowledge, e, facts[e], at)
    BY <1>3, <1>4, <1>5, <2>1, <2>3, SensedIsHeard
  <2>5. z.robot.position = p.position
    BY <1>3, <1>4, <1>5, <2>1, SensedIsGood DEF SameCourse
  <2>6. s[r] = z
    BY DEF p
  <2> HIDE DEF z, s
  <2>. QED
    BY <2>4, <2>5, <2>6 DEF p
<1> HIDE DEF s, later
<1>7. \A r \in Robots : later[r] = s[r].robot /\ Further(robots[r], later[r])
  BY <1>1, <1>6
<1>8. ASSUME NEW r \in Robots PROVE Heard(r, s[r].robot, at, B) \subseteq P
  <2>1. Heard(r, later[r], at, Past(robots, now)) \subseteq Past(later, at)
    BY <1>3, <1>4, <1>7, HeardIsPast
  <2>. QED
    BY <1>7, <2>1 DEF B
<1>9. P \in SUBSET Delta
  BY DEF Past
<1> HIDE DEF P, M
<1>10. ASSUME NEW r \in Robots
       PROVE  /\ KnowsOf(later[r].knowledge, P)
              /\ Messages(r, s[r].emitted) \in M
  <2> DEFINE H == Heard(r, s[r].robot, at, B)
             deltas == s[r].emitted
  <2>1. H \subseteq P /\ KnowsOf(s[r].robot.knowledge, H) /\ deltas \in Seq(H)
    BY <1>6, <1>8
  <2> HIDE DEF H, deltas
  <2>2. KnowsOf(s[r].robot.knowledge, P)
    BY <2>1, KnowsOfMore
  <2>3. deltas \in Seq(P)
    BY <2>1
  <2>4. Messages(r, deltas) \in Seq(Message(P))
    BY <1>4, <2>3, MessagesType
  <2>. QED
    BY <1>7, <2>2, <2>4 DEF deltas, M
<1>11. ms \in [Robots -> M]
  BY <1>10
<1>12. m \in Seq(Message(P))
  <2>1. ms \in Seq(M)
    <3> HIDE DEF ms
    <3>. QED
      BY <1>11, SettingsAssumption, FunctionIsSequence DEF Robots
  <2> HIDE DEF ms
  <2>. QED
    BY <2>1, FlattenSeqType DEF M
<1> HIDE DEF m, ms
<1>13. Range(queue') \subseteq Range(rest) \cup Deliveries(P, at)
  <2> DEFINE after == queue'
  <2>1. after \in Sent(rest, m, at)
    BY <1>1
  <2> HIDE DEF after
  <2>2. Range(after) \subseteq Range(rest) \cup Deliveries(P, at)
    BY <1>3, <1>4, <1>9, <1>12, <2>1, SendKeeps
  <2>. QED
    BY <2>2 DEF after
<1>14. HInv'
  BY <1>1, <1>3, <1>7, <1>10, <1>13, HeardNext DEF P, later
<1>15. ASSUME NEW r \in Robots PROVE SeesTheTruth(r)
  <2>1. CASE ~Settings.senses
    BY <2>1 DEF SeesTheTruth
  <2>2. CASE Settings.senses
    <3>1. \A e \in Adjacency(Map, robots'[r].position) :
             Believes(r, robots'[r].knowledge, e, facts[e], now')
      BY <1>1, <1>6, <1>7, <2>2 DEF later
    <3>. QED
      BY <1>1, <3>1, BelievesIsSensed
  <2>. QED
    BY <2>1, <2>2
<1>. QED
  BY <1>14, <1>15

-----------------------------------------------------------------------------
(* Between the events, and the theorem.                                    *)

\* An event that is injected is no delivery.
LEMMA InjectIsHeard ==
    ASSUME IInv, HInv, IInv', NEW action, Inject(action, now)
    PROVE  HInv' /\ \A r \in Robots : SeesTheTruth(r)
<1> DEFINE e == Scripted(action, now)
<1>1. /\ queue' = Enqueue(queue, e) /\ robots' = robots /\ truth' = truth /\ now' = now
  BY DEF Inject
<1>2. /\ queue \in Seq(Event) /\ now \in Nat
  BY DEF IInv, QueueOK
<1>3. e.kind # "delivery"
  BY DEF Scripted
<1> HIDE DEF e
<1>4. Range(queue') = Range(queue) \cup {e}
  <2> DEFINE S == Event \cup {e}
  <2>1. queue \in Seq(S) /\ e \in S
    BY <1>2
  <2> HIDE DEF S
  <2>2. Range(Enqueue(queue, e)) = Range(queue) \cup {e}
    BY <2>1, EnqueueAdds
  <2>. QED
    BY <1>1, <2>2
<1>. QED
  BY <1>1, <1>2, <1>3, <1>4, NobodyHears

\* A command injects something, or sets a horizon.
LEMMA ExecuteIsHeard ==
    ASSUME IInv, HInv, IInv', NEW c, Execute(c)
    PROVE  HInv' /\ \A r \in Robots : SeesTheTruth(r)
<1>1. now \in Nat
  BY DEF IInv
<1>2. CASE Drive(c)
  <2>1. robots' = robots /\ truth' = truth /\ now' = now /\ queue' = queue
    BY <1>2 DEF Drive, RunUntil, Finish
  <2>. QED
    BY <1>1, <2>1, NobodyHears
<1>3. CASE \/ c.command = "observe" /\ InjectObserve(c)
           \/ c.command = "world" /\ InjectWorld(c)
           \/ c.command = "link" /\ InjectLink(c)
           \/ c.command = "resync" /\ InjectResync(c)
  <2>1. \E action : Inject(action, now)
    BY <1>3 DEF InjectObserve, InjectWorld, InjectLink, InjectResync
  <2>. QED
    BY <2>1, InjectIsHeard
<1>. QED
  BY <1>2, <1>3 DEF Execute

\* At the start nothing is known and nothing is under way.
LEMMA InitIsHeard == Init => HInv
<1> SUFFICES ASSUME Init PROVE HInv
  OBVIOUS
<1>1. PICK script \in Settings.scripts :
        queue = EnqueueAll(<<>>,
           (IF Settings.moves THEN [r \in Robots |-> Advance(r, 0)] ELSE <<>>)
           \o [i \in DOMAIN script |-> Scripted(script[i][2], script[i][1])])
  BY DEF Init
<1> DEFINE New == {e \in Event : e.kind # "delivery"}
           first == IF Settings.moves THEN [r \in Robots |-> Advance(r, 0)] ELSE <<>>
           later == [i \in DOMAIN script |-> Scripted(script[i][2], script[i][1])]
           none == <<>>
<1>2. Goes /\ robots = [r \in Robots |-> NewRobot(r)]
  BY DEF Init, Goes
<1>3. script \in Seq(Nat \X Actions)
  BY <1>2, ScenarioTypes
<1>4. first \in Seq(New)
  <2>1. CASE Settings.moves
    <3>1. first \in [1..NRobots -> New] /\ NRobots \in Nat
      BY <2>1, SettingsAssumption DEF Robots, Advance, Event
    <3> HIDE DEF first, New
    <3>. QED
      BY <3>1, FunctionIsSequence
  <2>2. CASE ~Settings.moves
    BY <2>2
  <2>. QED
    BY <2>1, <2>2
<1>5. later \in Seq(New)
  <2> DEFINE n == Len(script)
  <2>1. n \in Nat /\ DOMAIN script = 1..n
    BY <1>3
  <2>2. ASSUME NEW i \in 1..n PROVE Scripted(script[i][2], script[i][1]) \in New
    <3>1. script[i][2] \in Actions /\ script[i][1] \in Nat
      BY <1>3, <2>1
    <3>. QED
      BY <3>1 DEF Scripted, Event
  <2> HIDE DEF n, New
  <2>3. later \in [1..n -> New]
    BY <2>1, <2>2
  <2> HIDE DEF later
  <2>. QED
    BY <2>1, <2>3, FunctionIsSequence
<1> DEFINE es == first \o later
<1>6. es \in Seq(New) /\ New \subseteq Event
  <2>1. New \subseteq Event
    OBVIOUS
  <2> HIDE DEF first, later, New
  <2>. QED
    BY <1>4, <1>5, <2>1
<1>7. queue = EnqueueAll(none, es)
  BY <1>1
<1>8. none \in Seq(Event) /\ InOrder(none) /\ DOMAIN none = {}
  BY DEF InOrder
<1>9. \A e \in New : e.kind # "delivery"
  OBVIOUS
<1> HIDE DEF es, New, none
<1>10. Range(queue) \subseteq Range(none) \cup New
  BY <1>6, <1>7, <1>8, EnqueueAllGrows DEF Grown
<1>11. Range(none) = {}
  BY <1>8 DEF Range
<1>12. ASSUME NEW r \in Robots PROVE KnowsOf(robots[r].knowledge, Past(robots, now))
  <2>1. robots[r].knowledge = EmptyKnowledge
    BY <1>2, NewRobotIsGood
  <2>. QED
    BY <2>1 DEF EmptyKnowledge, KnowsOf
<1>. QED
  BY <1>9, <1>10, <1>11, <1>12 DEF HInv

\* The clock does not pass the horizon of the call that moves it.
BeforeHorizon == running => now <= until

\* Nor does any step make it.
LEMMA StaysBeforeHorizon == IInv /\ BeforeHorizon /\ [Next]_vars => BeforeHorizon'
<1> SUFFICES ASSUME IInv, BeforeHorizon, [Next]_vars PROVE BeforeHorizon'
  OBVIOUS
<1>0. now \in Nat /\ until \in Nat
  BY DEF IInv
<1>1. CASE UNCHANGED vars
  BY <1>1 DEF vars, BeforeHorizon
<1>2. ASSUME NEW r \in Robots, Depart(r) \/ Park(r) \/ EndChain(r) PROVE BeforeHorizon'
  BY <1>2 DEF Depart, Park, EndChain, RobotDone, HasDue, BeforeHorizon
<1>3. CASE Deliver \/ SetLink \/ ObserveEdge \/ Resynchronize \/ SetWorldEdgeState
  BY <1>3 DEF Deliver, SetLink, ObserveEdge, Resynchronize, SetWorldEdgeState, RobotDone,
              HasDue, BeforeHorizon
<1>4. CASE Return
  BY <1>4 DEF Return, BeforeHorizon
<1>5. ASSUME NEW c \in Settings.commands, Execute(c) PROVE BeforeHorizon'
  <2>1. ASSUME NEW horizon, RunUntil(horizon) PROVE BeforeHorizon'
    <3>1. horizon >= now /\ until' = horizon /\ now' = now
      BY <2>1 DEF RunUntil
    <3>. QED
      BY <3>1 DEF BeforeHorizon
  <2>2. ASSUME NEW action, Inject(action, now) PROVE BeforeHorizon'
    BY <2>2 DEF Inject, BeforeHorizon
  <2>. QED
    BY <1>5, <2>1, <2>2 DEF Execute, Drive, Finish, InjectObserve, InjectWorld, InjectLink,
                            InjectResync
<1>. QED
  BY <1>1, <1>2, <1>3, <1>4, <1>5 DEF Next, HandleEvent

(* Every step keeps the second invariant, and lets those who sense in it   *)
(* see the truth.                                                          *)
LEMMA NextIsSensed ==
    IInv /\ HInv /\ BeforeHorizon /\ IInv' /\ [Next]_vars
        => HInv' /\ \A r \in Robots : SeesTheTruth(r)
<1> SUFFICES ASSUME IInv, HInv, BeforeHorizon, IInv', [Next]_vars
             PROVE  HInv' /\ \A r \in Robots : SeesTheTruth(r)
  OBVIOUS
<1>0. now \in Nat
  BY DEF IInv
<1>1. CASE UNCHANGED vars
  BY <1>0, <1>1, NobodyHears DEF vars
<1>2. ASSUME NEW r \in Robots, Depart(r) \/ Park(r) \/ EndChain(r)
      PROVE  HInv' /\ \A o \in Robots : SeesTheTruth(o)
  BY <1>2, DepartIsSensed, ParkIsSensed, EndChainIsSensed
<1>3. CASE Deliver
  BY <1>3, DeliverIsHeard
<1>4. CASE SetLink
  <2>1. /\ HasDue("scripted") /\ queue' = Tail(queue) /\ now' = Head(queue).at
        /\ robots' = robots /\ truth' = truth
    BY <1>4 DEF SetLink
  <2>2. Range(Tail(queue)) \subseteq Range(queue) /\ now <= Head(queue).at
    BY <2>1, NothingIsEarly
  <2>. QED
    BY <2>1, <2>2, NobodyHears
<1>5. CASE ObserveEdge
  BY <1>5, ObserveEdgeIsHeard
<1>6. CASE Resynchronize
  BY <1>6, ResynchronizeIsHeard
<1>7. CASE SetWorldEdgeState
  BY <1>7, SetWorldEdgeStateIsSensed
<1>8. CASE Return
  <2>1. running /\ now' = until /\ queue' = queue /\ robots' = robots /\ truth' = truth
    BY <1>8 DEF Return
  <2>2. now <= until
    BY <2>1 DEF BeforeHorizon
  <2>. QED
    BY <2>1, <2>2, NobodyHears
<1>9. ASSUME NEW c \in Settings.commands, Execute(c)
      PROVE  HInv' /\ \A r \in Robots : SeesTheTruth(r)
  BY <1>9, ExecuteIsHeard
<1>. QED
  BY <1>1, <1>2, <1>3, <1>4, <1>5, <1>6, <1>7, <1>8, <1>9 DEF Next, HandleEvent


(* A robot that has just sensed believes the truth of every edge at its    *)
(* node, or another robot's Blocked of the same tick, whatever it had      *)
(* heard before (ScenarioRunner::sense_for, MapReconciler).                *)
THEOREM WhatIsSensedIsBelieved == Spec => SensedIsBelieved
<1>1. Init => HInv /\ BeforeHorizon
  BY InitIsHeard DEF Init, BeforeHorizon
<1>2. IInv /\ BeforeHorizon /\ [Next]_vars => BeforeHorizon'
  BY StaysBeforeHorizon
<1>3. IInv /\ HInv /\ BeforeHorizon /\ IInv' /\ [Next]_vars => HInv'
  BY NextIsSensed
<1>4. IInv /\ HInv /\ BeforeHorizon /\ IInv' /\ [Next]_vars
        => [ \A r \in Robots :
               \/ ~Settings.senses
               \/ /\ truth' = truth
                  /\ robots'[r].position = robots[r].position \/ robots'[r].mission_complete
               \/ \A e \in Adjacency(Map, robots'[r].position) :
                    \/ IsBlocked(robots'[r].knowledge, e) <=> (truth'[e] = "Blocked")
                    \/ OverruledNow(r, e)'
           ]_vars
  BY NextIsSensed DEF SeesTheTruth
<1>5. Spec => []IInv
  BY InvariantHolds
<1>6. Spec => [](HInv /\ BeforeHorizon)
  BY <1>1, <1>2, <1>3, <1>5, PTL DEF Spec
<1>. QED
  BY <1>4, <1>5, <1>6, PTL DEF Spec, SensedIsBelieved
=============================================================================
