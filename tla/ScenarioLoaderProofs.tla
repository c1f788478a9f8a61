------------------------ MODULE ScenarioLoaderProofs ------------------------
(***************************************************************************)
(* From a document to the end of its run, for every document and map.      *)
(*                                                                         *)
(* One inductive invariant, Inv, carries what the loader checked to where  *)
(* it is relied on.  What has been checked grows with the stage (StageOK); *)
(* loaded events are in order, each from its place in the file (EventsOK); *)
(* in the agenda they stay so, whatever the chains put between them        *)
(* (AgendaOK); what is executed is what is no longer there (ExecutedOK);   *)
(* and a robot's estimate is off a latitude of the map by no more than a   *)
(* fix may be and what has been driven since the start (FleetOK).  A step  *)
(* that throws contradicts one of the parts, or what IsReasonable says of  *)
(* ticks and of localization.                                              *)
(***************************************************************************)
EXTENDS ScenarioLoader, OperatorLemmas

\* Of two elements of s, the earlier one and the later one are a pair of B.
AllPairs(s, B) == \A i, j \in 1..Len(s) : i < j => <<s[i], s[j]>> \in B

\* Enqueuing e keeps that, if e may follow what is due no later and precede the rest.
LEMMA EnqueuePairs ==
    ASSUME NEW S, \A s \in S : s.at \in Int, NEW q \in Seq(S), InOrder(q), NEW e \in S,
           NEW B, AllPairs(q, B),
           \A i \in 1..Len(q) : /\ q[i].at <= e.at => <<q[i], e>> \in B
                                /\ e.at < q[i].at => <<e, q[i]>> \in B
    PROVE  AllPairs(Enqueue(q, e), B)
<1> DEFINE p == Enqueue(q, e)
<1>1. PICK place : Inserted(q, p, e, place)
  BY EnqueueInserts
<1> HIDE DEF p
<1>2. /\ Len(q) \in Nat /\ Len(p) = Len(q) + 1 /\ place \in 1..Len(p) /\ p[place] = e
      /\ place \in Nat
  BY <1>1, NewIs
<1>3. SUFFICES ASSUME NEW i \in 1..Len(p), NEW j \in 1..Len(p), i < j
               PROVE  <<p[i], p[j]>> \in B
  BY DEF AllPairs, p
<1>4. CASE i # place /\ j # place
  <2>1. PICK k \in 1..Len(q) : i = Moved(k, place)
    BY <1>1, <1>4, MovedFrom
  <2>2. PICK l \in 1..Len(q) : j = Moved(l, place)
    BY <1>1, <1>4, MovedFrom
  <2>3. p[i] = q[k] /\ p[j] = q[l]
    BY <1>1, <2>1, <2>2, MovedIs
  <2>4. k < l
    BY <1>2, <1>3, <2>1, <2>2 DEF Moved
  <2>. QED
    BY <2>3, <2>4 DEF AllPairs
<1>5. CASE j = place
  <2>1. PICK k \in 1..Len(q) : i = Moved(k, place)
    BY <1>1, <1>3, <1>5, MovedFrom
  <2>2. p[i] = q[k] /\ (k < place => q[k].at <= e.at)
    BY <1>1, <2>1, MovedIs
  <2>3. k < place
    BY <1>2, <1>3, <1>5, <2>1 DEF Moved
  <2>. QED
    BY <1>2, <1>5, <2>2, <2>3
<1>6. CASE i = place
  <2>1. PICK k \in 1..Len(q) : j = Moved(k, place)
    BY <1>1, <1>3, <1>6, MovedFrom
  <2>2. p[j] = q[k] /\ (~(k < place) => e.at < q[k].at)
    BY <1>1, <2>1, MovedIs
  <2>3. ~(k < place)
    BY <1>2, <1>3, <1>6, <2>1 DEF Moved
  <2>. QED
    BY <1>2, <1>6, <2>2, <2>3
<1>. QED
  BY <1>4, <1>5, <1>6

\* What may be scheduled in this order: any two may stand as their ticks demand.
Schedulable(es, B) ==
    \A i, j \in 1..Len(es) :
       i < j => /\ es[i].at <= es[j].at => <<es[i], es[j]>> \in B
                /\ es[j].at < es[i].at => <<es[j], es[i]>> \in B

\* The agenda that comes of it has these events and no others, in such an order.
LEMMA EnqueueAllPairs ==
    ASSUME NEW S, \A s \in S : s.at \in Int, NEW es \in Seq(S), NEW B, Schedulable(es, B)
    PROVE  LET q == EnqueueAll(<<>>, es)
           IN  /\ q \in Seq(S) /\ InOrder(q) /\ AllPairs(q, B)
               /\ Range(q) = Range(es)
<1> DEFINE n == Len(es)
           First(k) == {es[i] : i \in 1..k}
           Has(p, k) == InOrder(p) /\ AllPairs(p, B) /\ Range(p) = First(k)
           K == [k \in 0..n |-> {p \in Seq(S) : Has(p, k)}]
           none == <<>>
<1>1. n \in Nat /\ \A i \in 1..n : es[i] \in S
  OBVIOUS
<1>2. none \in Seq(S) /\ Has(none, 0)
  <2>1. none \in Seq(S) /\ DOMAIN none = {} /\ 1..Len(none) = {}
    OBVIOUS
  <2>2. 1..0 = {}
    OBVIOUS
  <2> HIDE DEF none
  <2>. QED
    BY <2>1, <2>2 DEF InOrder, Range, AllPairs
<1>3. ASSUME NEW k \in 1..n, NEW p \in Seq(S), Has(p, k - 1)
      PROVE  Enqueue(p, es[k]) \in Seq(S) /\ Has(Enqueue(p, es[k]), k)
  <2> DEFINE e == es[k]
             after == Enqueue(p, e)
  <2>1. e \in S /\ InOrder(p) /\ AllPairs(p, B) /\ Range(p) = First(k - 1)
    BY <1>1, <1>3
  <2>2. after \in Seq(S) /\ InOrder(after)
    BY <2>1, EnqueueShifts, EnqueueInOrder
  <2>3. Range(after) = First(k)
    <3>1. 1..k = (1..(k - 1)) \cup {k}
      BY <1>1
    <3>2. Range(after) = Range(p) \cup {e}
      BY <2>1, EnqueueAdds
    <3>. QED
      BY <2>1, <3>1, <3>2
  <2>4. ASSUME NEW i \in 1..Len(p)
        PROVE  /\ p[i].at <= e.at => <<p[i], e>> \in B
               /\ e.at < p[i].at => <<e, p[i]>> \in B
    <3>1. p[i] \in Range(p)
      BY DEF Range
    <3>2. PICK j \in 1..(k - 1) : p[i] = es[j]
      BY <2>1, <3>1
    <3>3. j \in 1..n /\ k \in 1..n /\ j < k
      BY <1>1
    <3>. QED
      BY <3>2, <3>3 DEF Schedulable
  <2>5. AllPairs(after, B)
    <3> HIDE DEF e
    <3>. QED
      BY <2>1, <2>4, EnqueuePairs
  <2>. QED
    BY <2>2, <2>3, <2>5
<1> HIDE DEF Has
<1>4. K \in [0..n -> SUBSET Seq(S)]
  OBVIOUS
<1>5. \A k \in 0..n : K[k] = {p \in Seq(S) : Has(p, k)}
  OBVIOUS
<1> HIDE DEF K
<1>6. none \in K[0]
  <2>1. 0 \in 0..n
    BY <1>1
  <2>2. K[0] = {p \in Seq(S) : Has(p, 0)}
    BY <1>5, <2>1
  <2>. QED
    BY <1>2, <2>2
<1>7. \A k \in 1..n : \A p \in K[k - 1] : Enqueue(p, es[k]) \in K[k]
  BY <1>1, <1>3, <1>5
<1> HIDE DEF none
<1>8. EnqueueAll(none, es) \in K[Len(es)]
  BY <1>2, <1>4, <1>6, <1>7, EnqueueAllByStep
<1> DEFINE q == EnqueueAll(none, es)
<1>9. q \in Seq(S) /\ Has(q, n)
  BY <1>1, <1>5, <1>8
<1> HIDE DEF q
<1>10. Range(es) = First(n)
  BY <1>1 DEF Range
<1>. QED
  BY <1>9, <1>10 DEF Has, q, none

-----------------------------------------------------------------------------
(* The invariant.                                                          *)

\* Noises that are numbers.
HasNoises(m) == Sigma(m) \in Int /\ TurnSigma(m) \in Int

\* The scenario has its fields, and those are what the loader lets through.
ScenarioOK ==
    LET n == scenario.network  m == scenario.movement  l == scenario.localization
    IN  /\ scenario = [network |-> n, movement |-> m, sensing |-> scenario.sensing,
                       localization |-> l, duration |-> scenario.duration,
                       station |-> scenario.station, robots |-> scenario.robots,
                       events |-> scenario.events]
        /\ n.min \in Tick /\ n.max \in Tick /\ n.min <= n.max
        /\ m.perCost \in Tick \ {0} /\ m.retry \in Tick \ {0}
        /\ l.period \in Tick \ {0} /\ HasNoises(l.initial)
        /\ l.reckoning # Absent => /\ l.reckoning.scale \in Nat /\ l.reckoning.drift \in Int
                                   /\ l.enabled
        /\ l.enabled => geometry # Absent
        /\ scenario.duration \in Tick \cup {Absent}
        /\ scenario.station \in (0..MaxByte) \cup {Absent}
        /\ scenario.robots \in Seq(Range(scenario.robots))
        /\ \A r \in Range(scenario.robots) :
              r.id \in 0..MaxByte /\ r.endpoint \in 0..MaxByte /\ r.start \in NodeNames

BeforeRobots == {"network", "movement", "sensing", "localization", "duration",
                 "station", "robots"}
BeforeRun == BeforeRobots \cup {"events", "loaded", "constructed", "refused"}

(* How far reading has come is how much has been checked; the document's   *)
(* events are read last and the run starts from nothing.                   *)
StageOK ==
    /\ geometry \in Geometries /\ stage \in Stages
    /\ \/ stage \in {"network", "movement", "sensing", "localization", "duration"}
       \/ scenario.duration # Absent
       \/ ~scenario.movement.enabled /\ ~scenario.localization.enabled
    /\ stage \in BeforeRobots \/ NamesAreUnique(scenario.robots)
    /\ stage \in BeforeRobots \cup {"events"} => file = <<>> /\ scenario.events = <<>>
    /\ stage \in BeforeRun => agenda = <<>> /\ executed = <<>> /\ now = 0

\* The loaded events: each from its place in the file, none left out, in order.
Scripted(e) ==
    /\ e.line \in DOMAIN file /\ e.at = file[e.line].at /\ e.at \in Tick
    /\ e.action \in Actions
    /\ e.action = "set_gnss_model" => scenario.localization.enabled /\ HasNoises(e.model)

Precedes(x, y) == x.at < y.at \/ (x.at = y.at /\ x.line < y.line)

EventsOK ==
    LET E == Range(scenario.events)
    IN  /\ file \in Seq(Range(file))
        /\ scenario.events \in Seq(E) /\ \A e \in E : Scripted(e)
        /\ AllPairs(scenario.events, {p \in E \X E : Precedes(p[1], p[2])})
        /\ \A i \in DOMAIN file : \E e \in E : e.line = i

\* What the agenda may hold: the chains that are enabled and the script.
Links == {c \in [at : Tick, action : {"advance", "sample"}, robot : DOMAIN scenario.robots] :
            /\ c.action = "advance" => scenario.movement.enabled
            /\ c.action = "sample" => scenario.localization.enabled}
Schedule == Links \cup Range(scenario.events)

\* Of two events of the script, the earlier one comes first.
InTurn == {p \in Schedule \X Schedule :
             p[1].action \in Actions /\ p[2].action \in Actions => Precedes(p[1], p[2])}

AgendaOK ==
    /\ now \in Tick /\ (scenario.duration # Absent => now <= scenario.duration)
    /\ agenda \in Seq(Schedule) /\ InOrder(agenda) /\ AllPairs(agenda, InTurn)
    /\ \A e \in Range(agenda) : e.at >= now
    /\ \A stream \in DOMAIN observed : observed[stream] \in 0..now

\* The place i in the file comes before j in the run.
Before(i, j) == file[i].at < file[j].at \/ (file[i].at = file[j].at /\ i < j)

\* An event of the file is executed or still to come, and then after those.
Awaits(i) == \E e \in Range(agenda) : e.action \in Actions /\ e.line = i
ExecutedOK ==
    /\ executed \in Seq(DOMAIN file)
    /\ \A p, q \in DOMAIN executed : p < q => Before(executed[p], executed[q])
    /\ \A p \in DOMAIN executed : \A e \in Range(agenda) :
          e.action \in Actions => Before(executed[p], e.line)
    /\ stage \in {"running", "finished"} \/ executed # <<>> =>
         \A i \in DOMAIN file \ Range(executed) : Awaits(i)
    /\ stage = "finished" =>
         \A e \in Range(agenda) : scenario.duration # Absent /\ e.at > scenario.duration

\* The most that a fix is off the truth, and the fastest that a robot goes.
Bound(spread, pace) ==
    /\ spread \in Spreads /\ \A s \in Spreads : s <= spread
    /\ pace \in Paces /\ \A p \in Paces : p <= pace

\* What dead reckoning makes of the motion until a tick, at most.
Creep(pace, tick) == (pace * tick) * (1 + scenario.localization.reckoning.scale)

\* An estimate, off a latitude of the map by a fix and the motion so far.
IsClose(latitude, at) ==
    \A spread \in Spreads, pace \in Paces :
       Bound(spread, pace) =>
         \E l \in Latitudes : Magnitude(latitude) <= Magnitude(l) + spread + Creep(pace, at)

\* A robot of the run.  Only dead reckoning keeps an estimate.
RobotStates ==
    [node : NodeNames, road : Roads \cup {Absent}, model : Models, at : Nat,
     latitude : Int \cup {Absent}]
RobotOK(robot) ==
    /\ robot \in RobotStates
    /\ robot.road # Absent => scenario.movement.enabled
    /\ robot.latitude # Absent =>
         Reckons /\ (LocalizationIsReasonable => IsClose(robot.latitude, robot.at))

FleetOK ==
    stage = "running" =>
      /\ DOMAIN fleet = DOMAIN scenario.robots
      /\ \A robot \in Range(fleet) : RobotOK(robot) /\ robot.at <= now

Inv == /\ ScenarioOK /\ StageOK /\ EventsOK /\ AgendaOK /\ ExecutedOK /\ FleetOK
       /\ ReasonableRunsDoNotThrow

\* Before anything is read.
LEMMA FirstInv ==
    ASSUME Init
    PROVE  Inv
<1>1. scenario = Defaults /\ stage = "network" /\ file = <<>> /\ agenda = <<>> /\ now = 0
      /\ executed = <<>> /\ DOMAIN observed = {} /\ geometry \in Geometries
  BY BoundsAssumption DEF Init
<1>2. 1 \in Tick /\ 0 \in Tick
  BY BoundsAssumption DEF Tick
<1>3. ScenarioOK
  BY <1>1, <1>2 DEF ScenarioOK, Defaults, Range, HasNoises, Sigma, TurnSigma
<1>4. StageOK
  BY <1>1 DEF StageOK, Stages, BeforeRobots, BeforeRun, Defaults
<1>5. EventsOK
  BY <1>1 DEF EventsOK, Defaults, Range, AllPairs
<1>6. AgendaOK
  BY <1>1, <1>2 DEF AgendaOK, Defaults, Range, AllPairs, InOrder
<1>7. ExecutedOK
  BY <1>1 DEF ExecutedOK, Range
<1>8. FleetOK
  BY <1>1 DEF FleetOK
<1>. QED
  BY <1>1, <1>3, <1>4, <1>5, <1>6, <1>7, <1>8 DEF Inv, ReasonableRunsDoNotThrow

\* A document of no events has its events in order.
LEMMA NoEvents ==
    ASSUME file' = <<>>, scenario'.events = <<>>
    PROVE  EventsOK'
BY DEF EventsOK, Range, AllPairs

\* While there is no run, its part of the invariant holds.
LEMMA IdleKeeps ==
    ASSUME Inv, stage \in BeforeRun, UNCHANGED running,
           stage' \in BeforeRun \cup {"threw"}, ScenarioOK', StageOK', EventsOK',
           stage' = "threw" => ~IsReasonable'
    PROVE  Inv'
<1>1. agenda' = <<>> /\ executed' = <<>> /\ now' = 0 /\ observed' = observed /\ now = 0
  BY DEF Inv, StageOK, running
<1>2. AgendaOK'
  <2>1. \A stream \in DOMAIN observed : observed[stream] \in 0..0
    BY <1>1 DEF Inv, AgendaOK
  <2>2. 0 \in Tick
    BY BoundsAssumption DEF Tick
  <2>3. scenario'.duration # Absent => 0 <= scenario'.duration
    BY DEF ScenarioOK, Tick
  <2>. QED
    BY <1>1, <2>1, <2>2, <2>3 DEF AgendaOK, Range, AllPairs, InOrder
<1>3. ExecutedOK'
  <2>1. stage' \notin {"running", "finished"}
    BY DEF BeforeRun, BeforeRobots
  <2>. QED
    BY <1>1, <2>1 DEF ExecutedOK, Range
<1>4. FleetOK'
  BY DEF FleetOK, BeforeRun, BeforeRobots
<1>. QED
  BY <1>2, <1>3, <1>4 DEF Inv, ReasonableRunsDoNotThrow

\* What is left of a refused document is the program's defaults.
LEMMA RefuseKeeps ==
    ASSUME Inv, stage \in BeforeRobots \cup {"events"}, Refuse
    PROVE  Inv'
<1>1. /\ stage' = "refused" /\ scenario' = Defaults /\ file' = <<>> /\ geometry' = geometry
      /\ UNCHANGED running /\ geometry \in Geometries
  BY DEF Refuse, Inv, StageOK
<1>2. 1 \in Tick /\ 0 \in Tick
  BY BoundsAssumption DEF Tick
<1>3. ScenarioOK'
  BY <1>1, <1>2 DEF ScenarioOK, Defaults, Range, HasNoises, Sigma, TurnSigma
<1>4. agenda' = <<>> /\ executed' = <<>> /\ now' = 0
  BY <1>1 DEF Inv, StageOK, BeforeRun, running
<1>5. StageOK'
  BY <1>1, <1>4 DEF StageOK, Stages, BeforeRobots, BeforeRun, Defaults, NamesAreUnique
<1>6. EventsOK'
  BY <1>1, NoEvents DEF Defaults
<1>. QED
  BY <1>1, <1>3, <1>5, <1>6, IdleKeeps DEF BeforeRun

\* A block that is taken over adds to the scenario, and the next one is read.
LEMMA ReadKeeps ==
    ASSUME Inv, stage \in BeforeRobots, stage' \in BeforeRobots \cup {"events"},
           UNCHANGED <<geometry, file, running>>,
           scenario'.events = scenario.events, ScenarioOK',
           \/ stage' \in {"network", "movement", "sensing", "localization", "duration"}
           \/ scenario'.duration # Absent
           \/ ~scenario'.movement.enabled /\ ~scenario'.localization.enabled,
           stage' \in BeforeRobots \/ NamesAreUnique(scenario.robots)'
    PROVE  Inv'
<1>1. /\ agenda = <<>> /\ executed = <<>> /\ now = 0 /\ file = <<>>
      /\ scenario.events = <<>> /\ geometry \in Geometries
  BY DEF Inv, StageOK, BeforeRun
<1>2. StageOK'
  BY <1>1 DEF StageOK, Stages, BeforeRobots, BeforeRun, running
<1>3. EventsOK'
  BY <1>1, NoEvents
<1>. QED
  BY <1>2, <1>3, IdleKeeps DEF BeforeRun, BeforeRobots

\* Latencies that are accepted are a range of ticks.
LEMMA ParseNetworkKeeps ==
    ASSUME Inv, ParseNetwork
    PROVE  Inv'
<1>1. PICK n \in Networks :
        Read("movement", NetworkAccepted(n),
             IF n = Absent THEN scenario
             ELSE [scenario EXCEPT !.network = [min |-> n.min, max |-> n.max]])
  BY DEF ParseNetwork
<1>2. CASE ~NetworkAccepted(n)
  BY <1>1, <1>2, RefuseKeeps DEF Read, ParseNetwork, BeforeRobots
<1>3. CASE NetworkAccepted(n)
  <2>1. /\ stage' = "movement" /\ UNCHANGED <<geometry, file, running>>
        /\ scenario' = IF n = Absent THEN scenario
             ELSE [scenario EXCEPT !.network = [min |-> n.min, max |-> n.max]]
    BY <1>1, <1>3 DEF Read
  <2>2. ScenarioOK' /\ scenario'.events = scenario.events
    BY <1>3, <2>1 DEF Inv, ScenarioOK, NetworkAccepted, IsCount
  <2>. QED
    BY <2>1, <2>2, ReadKeeps DEF ParseNetwork, BeforeRobots
<1>. QED
  BY <1>2, <1>3

\* Costs and retries that are accepted take time.
LEMMA ParseMovementKeeps ==
    ASSUME Inv, ParseMovement
    PROVE  Inv'
<1>1. PICK m \in Movements :
        Read("sensing", MovementAccepted(m),
             IF m = Absent THEN scenario
             ELSE [scenario EXCEPT !.movement =
                     [enabled |-> TRUE, perCost |-> Default(m.perCost, @.perCost),
                      retry |-> Default(m.retry, @.retry)]])
  BY DEF ParseMovement
<1>2. CASE ~MovementAccepted(m)
  BY <1>1, <1>2, RefuseKeeps DEF Read, ParseMovement, BeforeRobots
<1>3. CASE MovementAccepted(m)
  <2>1. /\ stage' = "sensing" /\ UNCHANGED <<geometry, file, running>>
        /\ scenario' = IF m = Absent THEN scenario
             ELSE [scenario EXCEPT !.movement =
                     [enabled |-> TRUE, perCost |-> Default(m.perCost, @.perCost),
                      retry |-> Default(m.retry, @.retry)]]
    BY <1>1, <1>3 DEF Read
  <2>2. ScenarioOK' /\ scenario'.events = scenario.events
    BY <1>3, <2>1 DEF Inv, ScenarioOK, MovementAccepted, IsPositive, IfPresent, Default
  <2>. QED
    BY <2>1, <2>2, ReadKeeps DEF ParseMovement, BeforeRobots
<1>. QED
  BY <1>2, <1>3

\* How robots sense is of no consequence to the rest of the scenario.
LEMMA ParseSensingKeeps ==
    ASSUME Inv, ParseSensing
    PROVE  Inv'
<1>1. PICK mode \in Sensings :
        Read("localization", mode \in {Absent, "none", "perfect_local"},
             [scenario EXCEPT !.sensing = (mode = "perfect_local")])
  BY DEF ParseSensing
<1>2. CASE ~(mode \in {Absent, "none", "perfect_local"})
  BY <1>1, <1>2, RefuseKeeps DEF Read, ParseSensing, BeforeRobots
<1>3. CASE mode \in {Absent, "none", "perfect_local"}
  <2>1. /\ stage' = "localization" /\ UNCHANGED <<geometry, file, running>>
        /\ scenario' = [scenario EXCEPT !.sensing = (mode = "perfect_local")]
    BY <1>1, <1>3 DEF Read
  <2>2. ScenarioOK' /\ scenario'.events = scenario.events
    BY <2>1 DEF Inv, ScenarioOK
  <2>. QED
    BY <2>1, <2>2, ReadKeeps DEF ParseSensing, BeforeRobots
<1>. QED
  BY <1>2, <1>3

\* A localization that is accepted has a period, a scale and a map to be on.
LEMMA ParseLocalizationKeeps ==
    ASSUME Inv, ParseLocalization
    PROVE  Inv'
<1> DEFINE ReckoningOf(l) ==
             IF l.reckoning = Absent THEN Absent
             ELSE [scale |-> Default(l.reckoning.scale, 0),
                   drift |-> Default(l.reckoning.drift, 0)]
<1>1. PICK l \in Localizations :
        Read("duration", LocalizationAccepted(l),
             IF l = Absent THEN scenario
             ELSE [scenario EXCEPT !.localization =
                     [enabled |-> TRUE, period |-> Default(l.period, @.period),
                      initial |-> l.initial, reckoning |-> ReckoningOf(l)]])
  BY DEF ParseLocalization
<1>2. CASE ~LocalizationAccepted(l)
  BY <1>1, <1>2, RefuseKeeps DEF Read, ParseLocalization, BeforeRobots
<1>3. CASE LocalizationAccepted(l)
  <2>1. /\ stage' = "duration" /\ UNCHANGED <<geometry, file, running>>
        /\ scenario' = IF l = Absent THEN scenario
             ELSE [scenario EXCEPT !.localization =
                     [enabled |-> TRUE, period |-> Default(l.period, @.period),
                      initial |-> l.initial, reckoning |-> ReckoningOf(l)]]
    BY <1>1, <1>3 DEF Read
  <2>2. ScenarioOK' /\ scenario'.events = scenario.events
    <3>1. HasNoises(l.initial) \/ l = Absent
      BY <1>3, BoundsAssumption, GeodesyAssumption
      DEF LocalizationAccepted, IsModelSpec, IfPresent, IsNumber, Default, HasNoises,
          Sigma, TurnSigma
    <3>2. \/ l = Absent
          \/ ReckoningOf(l) = Absent
          \/ ReckoningOf(l).scale \in Nat /\ ReckoningOf(l).drift \in Int
      BY <1>3, GeodesyAssumption
      DEF LocalizationAccepted, IsReckoning, IfPresent, IsNumber, Default
    <3> HIDE DEF ReckoningOf
    <3>3. l = Absent \/ (Default(l.period, scenario.localization.period) \in Tick \ {0}
                        /\ geometry # Absent)
      BY <1>3 DEF LocalizationAccepted, IsPositive, IfPresent, Default, Inv, ScenarioOK
    <3>. QED
      BY <2>1, <3>1, <3>2, <3>3 DEF Inv, ScenarioOK
  <2>. QED
    BY <2>1, <2>2, ReadKeeps DEF ParseLocalization, BeforeRobots
<1>. QED
  BY <1>2, <1>3

\* From here on a chain has a horizon.
LEMMA ParseDurationKeeps ==
    ASSUME Inv, ParseDuration
    PROVE  Inv'
<1>1. PICK d \in Durations :
        Read("station", DurationAccepted(d), [scenario EXCEPT !.duration = d])
  BY DEF ParseDuration
<1>2. CASE ~DurationAccepted(d)
  BY <1>1, <1>2, RefuseKeeps DEF Read, ParseDuration, BeforeRobots
<1>3. CASE DurationAccepted(d)
  <2>1. /\ stage' = "station" /\ UNCHANGED <<geometry, file, running>>
        /\ scenario' = [scenario EXCEPT !.duration = d]
    BY <1>1, <1>3 DEF Read
  <2>2. /\ ScenarioOK' /\ scenario'.events = scenario.events
        /\ scenario'.duration = d /\ scenario'.movement = scenario.movement
        /\ scenario'.localization = scenario.localization
    BY <1>3, <2>1 DEF Inv, ScenarioOK, DurationAccepted, IfPresent, IsCount
  <2>. QED
    BY <1>3, <2>1, <2>2, ReadKeeps DEF ParseDuration, BeforeRobots, DurationAccepted
<1>. QED
  BY <1>2, <1>3

\* A station's endpoint fits its byte.
LEMMA ParseStationKeeps ==
    ASSUME Inv, ParseStation
    PROVE  Inv'
<1>1. PICK endpoint \in Stations :
        Read("robots", IfPresent(IsSmall, endpoint), [scenario EXCEPT !.station = endpoint])
  BY DEF ParseStation
<1>2. CASE ~IfPresent(IsSmall, endpoint)
  BY <1>1, <1>2, RefuseKeeps DEF Read, ParseStation, BeforeRobots
<1>3. CASE IfPresent(IsSmall, endpoint)
  <2>1. /\ stage' = "robots" /\ UNCHANGED <<geometry, file, running>>
        /\ scenario' = [scenario EXCEPT !.station = endpoint]
    BY <1>1, <1>3 DEF Read
  <2>2. /\ ScenarioOK' /\ scenario'.events = scenario.events
        /\ scenario'.duration = scenario.duration /\ scenario'.movement = scenario.movement
        /\ scenario'.localization = scenario.localization
    BY <1>3, <2>1 DEF Inv, ScenarioOK, IfPresent, IsSmall
  <2>3. \/ scenario.duration # Absent
        \/ ~scenario.movement.enabled /\ ~scenario.localization.enabled
    BY DEF Inv, StageOK, ParseStation
  <2>. QED
    BY <2>1, <2>2, <2>3, ReadKeeps DEF ParseStation, BeforeRobots
<1>. QED
  BY <1>2, <1>3

\* From here on names, ids and endpoints are unique.
LEMMA ParseRobotsKeeps ==
    ASSUME Inv, ParseRobots
    PROVE  Inv'
<1> DEFINE Right(robots) == /\ robots # <<>>
                            /\ \A i \in DOMAIN robots : RobotAccepted(robots[i])
                            /\ NamesAreUnique(robots)
<1>1. PICK robots \in RobotLists :
        Read("events", Right(robots), [scenario EXCEPT !.robots = robots])
  BY DEF ParseRobots
<1>2. CASE ~Right(robots)
  BY <1>1, <1>2, RefuseKeeps DEF Read, ParseRobots, BeforeRobots
<1>3. CASE Right(robots)
  <2>1. /\ stage' = "events" /\ UNCHANGED <<geometry, file, running>>
        /\ scenario' = [scenario EXCEPT !.robots = robots]
    BY <1>1, <1>3 DEF Read
  <2>2. /\ robots \in Seq(Range(robots))
        /\ \A r \in Range(robots) :
              r.id \in 0..MaxByte /\ r.endpoint \in 0..MaxByte /\ r.start \in NodeNames
    BY <1>3, ArraysAssumption DEF RobotAccepted, IsSmall, Range
  <2>3. /\ ScenarioOK' /\ scenario'.events = scenario.events
        /\ scenario'.duration = scenario.duration /\ scenario'.movement = scenario.movement
        /\ scenario'.localization = scenario.localization
        /\ scenario'.robots = robots /\ scenario'.station = scenario.station
    BY <2>1, <2>2 DEF Inv, ScenarioOK
  <2>4. \/ scenario.duration # Absent
        \/ ~scenario.movement.enabled /\ ~scenario.localization.enabled
    BY DEF Inv, StageOK, ParseRobots
  <2>5. NamesAreUnique(scenario.robots)'
    BY <1>3, <2>3 DEF NamesAreUnique
  <2>. QED
    BY <2>1, <2>3, <2>4, <2>5, ReadKeeps DEF ParseRobots, BeforeRobots
<1>. QED
  BY <1>2, <1>3

\* Names resolved, an event has its tick, its action and its place in the file;
\* and the run needs to know no more than this of it.
LEMMA ResolvedIs ==
    ASSUME NEW e, EventAccepted(e), NEW line
    PROVE  /\ Resolved(e, line).at = e.at /\ Resolved(e, line).line = line
           /\ Resolved(e, line).action = e.action
           /\ e.at \in Tick /\ e.action \in Actions
           /\ e.action = "set_gnss_model" =>
                scenario.localization.enabled /\ HasNoises(Resolved(e, line).model)
<1>1. /\ e.at \in Tick /\ e.action \in Actions
      /\ e.action = "set_gnss_model" => scenario.localization.enabled /\ IsModelSpec(e.model)
  BY DEF EventAccepted, IsCount, Actions
<1>2. e.action = "set_gnss_model" => HasNoises(e.model)
  BY <1>1, GeodesyAssumption
  DEF IsModelSpec, IfPresent, IsNumber, Default, HasNoises, Sigma, TurnSigma
<1>3. e.action = "set_gnss_model" => Resolved(e, line).model = e.model
  BY DEF Resolved
<1>. QED
  BY <1>1, <1>2, <1>3 DEF Resolved, Actions

\* The events of the file are all loaded, and sorted.
LEMMA ParseEventsKeeps ==
    ASSUME Inv, ParseEvents
    PROVE  Inv'
<1>1. PICK events \in EventLists :
        IF \A i \in DOMAIN events : EventAccepted(events[i])
        THEN /\ stage' = "loaded"
             /\ file' = events
             /\ scenario' = [scenario EXCEPT !.events =
                               Sorted([i \in DOMAIN events |-> Resolved(events[i], i)])]
             /\ UNCHANGED <<geometry, running>>
        ELSE Refuse
  BY DEF ParseEvents
<1>2. CASE ~(\A i \in DOMAIN events : EventAccepted(events[i]))
  BY <1>1, <1>2, RefuseKeeps DEF ParseEvents
<1>3. CASE \A i \in DOMAIN events : EventAccepted(events[i])
  <2> DEFINE es == [i \in DOMAIN events |-> Resolved(events[i], i)]
             sorted == Sorted(es)
             E == Range(sorted)
             order == {p \in E \X E : Precedes(p[1], p[2])}
  <2>1. /\ stage' = "loaded" /\ file' = events
        /\ scenario' = [scenario EXCEPT !.events = sorted]
        /\ UNCHANGED <<geometry, running>>
    BY <1>1, <1>3
  <2>2. events \in Seq(Range(events)) /\ Len(events) \in Nat /\ DOMAIN events = 1..Len(events)
    BY ArraysAssumption
  <2>3. ASSUME NEW i \in DOMAIN events
        PROVE  /\ es[i].at = events[i].at /\ es[i].line = i /\ es[i].at \in Tick
               /\ es[i].action \in Actions
               /\ es[i].action = "set_gnss_model" =>
                    scenario.localization.enabled /\ HasNoises(es[i].model)
    <3>1. es[i] = Resolved(events[i], i)
      OBVIOUS
    <3>2. EventAccepted(events[i])
      BY <1>3
    <3>. QED
      BY <3>1, <3>2, ResolvedIs
  <2>4. es \in Seq(Range(es)) /\ Len(es) = Len(events) /\ DOMAIN es = DOMAIN events
    BY <2>2 DEF Range
  <2> HIDE DEF es
  <2>5. \A e \in Range(es) : e.at \in Int
    BY <2>3, <2>4 DEF Range, Tick
  <2>6. /\ sorted \in Seq(Range(es)) /\ InOrder(sorted) /\ Range(sorted) = Range(es)
        /\ AllPairs(sorted, {p \in Range(es) \X Range(es) : Precedes(p[1], p[2])})
    <3> DEFINE B == {p \in Range(es) \X Range(es) : Precedes(p[1], p[2])}
    <3>1. ASSUME NEW i \in 1..Len(es), NEW j \in 1..Len(es), i < j
          PROVE  /\ es[i].at <= es[j].at => <<es[i], es[j]>> \in B
                 /\ es[j].at < es[i].at => <<es[j], es[i]>> \in B
      <4>1. es[i] \in Range(es) /\ es[j] \in Range(es)
        BY <2>2, <2>4 DEF Range
      <4>2. /\ es[i].at \in Int /\ es[j].at \in Int
            /\ es[i].line = i /\ es[j].line = j /\ i \in Int /\ j \in Int
        BY <2>2, <2>3, <2>4, <2>5, <4>1
      <4>. QED
        BY <3>1, <4>1, <4>2 DEF Precedes
    <3>2. Schedulable(es, B)
      BY <3>1 DEF Schedulable
    <3> HIDE DEF B
    <3>3. LET q == EnqueueAll(<<>>, es)
          IN  q \in Seq(Range(es)) /\ InOrder(q) /\ AllPairs(q, B) /\ Range(q) = Range(es)
      BY <2>4, <2>5, <3>2, EnqueueAllPairs
    <3>. QED
      BY <3>3 DEF Sorted, B
  <2> HIDE DEF sorted
  <2>7. /\ ScenarioOK' /\ scenario'.events = sorted
        /\ scenario'.duration = scenario.duration /\ scenario'.movement = scenario.movement
        /\ scenario'.localization = scenario.localization
        /\ scenario'.robots = scenario.robots /\ scenario'.station = scenario.station
    BY <2>1 DEF Inv, ScenarioOK
  <2>8. EventsOK'
    <3>1. ASSUME NEW e \in E PROVE Scripted(e)'
      <4>1. PICK i \in DOMAIN events : e = es[i]
        BY <2>4, <2>6 DEF Range
      <4>. QED
        BY <2>1, <2>3, <2>7, <4>1 DEF Scripted
    <3>2. ASSUME NEW i \in DOMAIN events PROVE \E e \in E : e.line = i
      BY <2>3, <2>4, <2>6 DEF Range
    <3>3. AllPairs(sorted, order) /\ sorted \in Seq(E)
      BY <2>6
    <3>. QED
      BY <2>1, <2>2, <2>7, <3>1, <3>2, <3>3 DEF EventsOK
  <2>9. StageOK'
    <3>1. /\ \/ scenario.duration # Absent
             \/ ~scenario.movement.enabled /\ ~scenario.localization.enabled
          /\ NamesAreUnique(scenario.robots)
          /\ agenda = <<>> /\ executed = <<>> /\ now = 0 /\ geometry \in Geometries
      BY DEF Inv, StageOK, ParseEvents, BeforeRobots, BeforeRun
    <3>2. NamesAreUnique(scenario.robots)'
      BY <2>7, <3>1 DEF NamesAreUnique
    <3>. QED
      BY <2>1, <2>7, <3>1, <3>2 DEF StageOK, Stages, BeforeRobots, BeforeRun, running
  <2>. QED
    BY <2>1, <2>7, <2>8, <2>9, IdleKeeps DEF BeforeRun, ParseEvents
<1>. QED
  BY <1>2, <1>3

\* What is reasonable is a matter of the scenario and the map.
LEMMA ReasonStays ==
    ASSUME UNCHANGED <<geometry, scenario>>
    PROVE  /\ IsReasonable' = IsReasonable
           /\ \A robot : RobotOK(robot)' = RobotOK(robot)
<1>1. Models' = Models /\ Latitudes' = Latitudes /\ Reckons' = Reckons /\ LastTick' = LastTick
  BY DEF Models, Latitudes, Reckons, LastTick
<1>2. Paces' = Paces /\ Spreads' = Spreads
  BY <1>1 DEF Paces, Spreads, Pace, TraversalTicks
<1>3. LocalizationIsReasonable' = LocalizationIsReasonable
  BY <1>1, <1>2 DEF LocalizationIsReasonable
<1>4. TicksAreReasonable' = TicksAreReasonable
  BY <1>1 DEF TicksAreReasonable, TraversalTicks
<1>5. \A latitude, at : IsClose(latitude, at)' = IsClose(latitude, at)
  BY <1>1, <1>2 DEF IsClose, Bound, Creep
<1>6. RobotStates' = RobotStates
  BY <1>1 DEF RobotStates
<1>7. \A robot : RobotOK(robot)' = RobotOK(robot)
  BY <1>1, <1>3, <1>5, <1>6 DEF RobotOK
<1>. QED
  BY <1>3, <1>4, <1>7 DEF IsReasonable

\* The runner's constructor refuses nothing that the loader let through, but a noise.
LEMMA ConstructKeeps ==
    ASSUME Inv, Construct
    PROVE  Inv'
<1>1. /\ stage = "loaded" /\ stage' = IF Constructible THEN "constructed" ELSE "threw"
      /\ UNCHANGED <<geometry, scenario, file, running>>
  BY DEF Construct
<1>2. ASSUME ~Constructible PROVE ~IsReasonable
  <2>1. \/ scenario.duration # Absent
        \/ ~scenario.movement.enabled /\ ~scenario.localization.enabled
    BY <1>1 DEF Inv, StageOK
  <2>2. /\ scenario.movement.perCost # 0 /\ scenario.movement.retry # 0
        /\ scenario.localization.period # 0
        /\ scenario.localization.reckoning # Absent =>
             scenario.localization.reckoning.scale > -1 /\ scenario.localization.enabled
        /\ scenario.localization.enabled => geometry # Absent
    BY DEF Inv, ScenarioOK
  <2>3. scenario.localization.enabled /\ ~IsModel(scenario.localization.initial)
    BY <1>2, <2>1, <2>2 DEF Constructible
  <2>. QED
    BY <2>3 DEF IsReasonable, LocalizationIsReasonable, Models
<1>3. ScenarioOK'
  BY <1>1 DEF Inv, ScenarioOK
<1>4. EventsOK'
  BY <1>1 DEF Inv, EventsOK, Scripted
<1>5. /\ IsReasonable' = IsReasonable
      /\ NamesAreUnique(scenario.robots)' = NamesAreUnique(scenario.robots)
  BY <1>1, ReasonStays DEF NamesAreUnique
<1>6. StageOK'
  BY <1>1, <1>5 DEF Inv, StageOK, Stages, BeforeRobots, BeforeRun, running
<1>. QED
  BY <1>1, <1>2, <1>3, <1>4, <1>5, <1>6, IdleKeeps DEF BeforeRun

\* Nor does anything that the run is wired from.
LEMMA WiringHolds ==
    ASSUME Inv, stage = "constructed", IsReasonable
    PROVE  Wirable
<1> DEFINE robots == scenario.robots
           n == Len(robots)
           mobile == [i \in DOMAIN robots |-> robots[i].endpoint]
           fixed == IF scenario.station = Absent THEN <<>> ELSE <<scenario.station>>
           endpoints == mobile \o fixed
<1>1. n \in Nat /\ DOMAIN robots = 1..n
  BY DEF Inv, ScenarioOK
<1>2. /\ \A i, j \in 1..n : i # j => robots[i].endpoint # robots[j].endpoint
      /\ \A i \in 1..n : robots[i].endpoint # scenario.station
  BY <1>1 DEF Inv, StageOK, BeforeRobots, NamesAreUnique
<1>3. Len(mobile) = n /\ mobile \in Seq({robots[i].endpoint : i \in 1..n})
      /\ \A i \in 1..n : mobile[i] = robots[i].endpoint
  BY <1>1
<1>4. IsInjective(endpoints)
  <2> HIDE DEF mobile, robots, n
  <2>1. CASE scenario.station = Absent
    <3>1. endpoints = mobile /\ DOMAIN mobile = 1..n
      BY <1>1, <1>3, <2>1
    <3>. QED
      BY <1>1, <1>2, <1>3, <3>1 DEF IsInjective
  <2>2. CASE scenario.station # Absent
    <3>1. /\ DOMAIN endpoints = 1..(n + 1) /\ endpoints[n + 1] = scenario.station
          /\ \A i \in 1..n : endpoints[i] = robots[i].endpoint
      BY <1>1, <1>3, <2>2
    <3>2. \A i \in 1..(n + 1) : i = n + 1 \/ i \in 1..n
      BY <1>1
    <3> HIDE DEF endpoints
    <3>. QED
      BY <1>2, <3>1, <3>2 DEF IsInjective
  <2>. QED
    BY <2>1, <2>2
<1>5. scenario.network.min <= scenario.network.max /\ scenario.network.max # MaxTick
  BY BoundsAssumption DEF Inv, ScenarioOK, IsReasonable, TicksAreReasonable, Tick
<1>. QED
  BY <1>4, <1>5 DEF Wirable

\* What was loaded stays as it is while the run goes on.
LEMMA LoadedStays ==
    ASSUME Inv, UNCHANGED <<geometry, scenario, file>>
    PROVE  /\ ScenarioOK' /\ EventsOK' /\ Schedule' = Schedule /\ InTurn' = InTurn
           /\ IsReasonable' = IsReasonable
           /\ \A robot : RobotOK(robot)' = RobotOK(robot)
           /\ NamesAreUnique(scenario.robots)' = NamesAreUnique(scenario.robots)
           /\ \A i, j : Before(i, j)' = Before(i, j)
<1>1. ScenarioOK'
  BY DEF Inv, ScenarioOK
<1>2. EventsOK'
  BY DEF Inv, EventsOK, Scripted
<1>3. Schedule' = Schedule /\ InTurn' = InTurn
  BY DEF Schedule, Links, InTurn
<1>4. /\ IsReasonable' = IsReasonable
      /\ \A robot : RobotOK(robot)' = RobotOK(robot)
      /\ NamesAreUnique(scenario.robots)' = NamesAreUnique(scenario.robots)
  BY ReasonStays DEF NamesAreUnique
<1>5. \A i, j : Before(i, j)' = Before(i, j)
  BY DEF Before
<1>. QED
  BY <1>1, <1>2, <1>3, <1>4, <1>5

\* A step of the run keeps the invariant if it keeps what the run is about.
LEMMA RunKeeps ==
    ASSUME Inv, stage \in {"constructed", "running"}, UNCHANGED <<geometry, scenario, file>>,
           stage' \in {"running", "threw", "finished"}, AgendaOK', ExecutedOK', FleetOK',
           stage' = "threw" => ~IsReasonable
    PROVE  Inv'
<1>1. StageOK'
  <2>1. /\ geometry \in Geometries
        /\ \/ scenario.duration # Absent
           \/ ~scenario.movement.enabled /\ ~scenario.localization.enabled
        /\ NamesAreUnique(scenario.robots)
    BY DEF Inv, StageOK, BeforeRobots
  <2>. QED
    BY <2>1, LoadedStays DEF StageOK, Stages, BeforeRobots, BeforeRun
<1>. QED
  BY <1>1, LoadedStays DEF Inv, ReasonableRunsDoNotThrow

\* The loaded events are of the schedule, and an event of the schedule has a tick.
LEMMA ScheduleIs ==
    ASSUME Inv
    PROVE  /\ \A e \in Schedule : e.at \in Tick /\ e.at \in Int
           /\ \A e \in Schedule : e.action \in Actions =>
                e \in Range(scenario.events) /\ Scripted(e) /\ e.line \in Int
           /\ \A e \in Schedule : e.action \notin Actions => e \in Links
           /\ \A e \in Links : e \in Schedule /\ e.action \notin Actions
           /\ \A e \in Range(scenario.events) : e \in Schedule /\ e.action \in Actions
           /\ Len(file) \in Nat /\ DOMAIN file = 1..Len(file)
<1>1. file \in Seq(Range(file)) /\ \A e \in Range(scenario.events) : Scripted(e)
  BY DEF Inv, EventsOK
<1>2. Len(file) \in Nat /\ DOMAIN file = 1..Len(file)
  BY <1>1
<1>3. \A e \in Range(scenario.events) : e.at \in Tick /\ e.action \in Actions /\ e.line \in Int
  BY <1>1, <1>2 DEF Scripted
<1>4. \A e \in Links : e.at \in Tick /\ e.action \notin Actions
  BY DEF Links, Actions
<1>5. Tick \subseteq Int
  BY DEF Tick
<1>. QED
  BY <1>1, <1>2, <1>3, <1>4, <1>5 DEF Schedule

\* What may be scheduled one after the other.
LEMMA SchedulableTogether ==
    ASSUME NEW S, NEW s \in Seq(S), NEW t \in Seq(S), NEW B,
           Schedulable(s, B), Schedulable(t, B),
           \A x \in Range(s) : \A y \in Range(t) :
              /\ x.at <= y.at => <<x, y>> \in B
              /\ y.at < x.at => <<y, x>> \in B
    PROVE  /\ Schedulable(s \o t, B) /\ s \o t \in Seq(S)
           /\ Range(s \o t) = Range(s) \cup Range(t)
<1> DEFINE m == Len(s)
           n == Len(t)
           st == s \o t
<1>1. /\ m \in Nat /\ n \in Nat /\ st \in Seq(S) /\ Len(st) = m + n
      /\ DOMAIN st = 1..(m + n) /\ DOMAIN s = 1..m /\ DOMAIN t = 1..n
      /\ \A i \in 1..m : st[i] = s[i]
      /\ \A i \in 1..n : st[m + i] = t[i]
  OBVIOUS
<1> HIDE DEF m, n, st
<1>2. ASSUME NEW i \in 1..(m + n) PROVE i \in 1..m \/ \E k \in 1..n : i = m + k
  <2>1. CASE i > m
    <3>1. i - m \in 1..n /\ i = m + (i - m)
      BY <1>1, <2>1
    <3>. QED
      BY <3>1
  <2>. QED
    BY <1>1, <2>1
<1>3. ASSUME NEW i \in 1..(m + n), NEW j \in 1..(m + n), i < j
      PROVE  /\ st[i].at <= st[j].at => <<st[i], st[j]>> \in B
             /\ st[j].at < st[i].at => <<st[j], st[i]>> \in B
  <2>1. CASE i \in 1..m /\ j \in 1..m
    BY <1>1, <1>3, <2>1 DEF Schedulable, m
  <2>2. CASE i \in 1..m /\ j \notin 1..m
    <3>1. PICK k \in 1..n : j = m + k
      BY <1>2, <2>2
    <3>2. st[i] \in Range(s) /\ st[j] \in Range(t)
      BY <1>1, <2>2, <3>1 DEF Range
    <3>. QED
      BY <3>2
  <2>3. CASE i \notin 1..m
    <3>1. PICK k \in 1..n : i = m + k
      BY <1>2, <2>3
    <3>2. j \notin 1..m
      BY <1>1, <1>3, <3>1
    <3>3. PICK l \in 1..n : j = m + l
      BY <1>2, <3>2
    <3>4. k < l /\ st[i] = t[k] /\ st[j] = t[l]
      BY <1>1, <1>3, <3>1, <3>3
    <3>. QED
      BY <3>4 DEF Schedulable, n
  <2>. QED
    BY <2>1, <2>2, <2>3
<1>4. Schedulable(st, B)
  BY <1>1, <1>3 DEF Schedulable
<1>5. Range(st) = Range(s) \cup Range(t)
  <2>1. \A i \in 1..m : i \in 1..(m + n)
    BY <1>1
  <2>2. \A i \in 1..n : m + i \in 1..(m + n)
    BY <1>1
  <2>3. ASSUME NEW x \in Range(st) PROVE x \in Range(s) \cup Range(t)
    <3>1. PICK i \in 1..(m + n) : x = st[i]
      BY <1>1 DEF Range
    <3>2. CASE i \in 1..m
      BY <1>1, <3>1, <3>2 DEF Range
    <3>3. CASE i \notin 1..m
      BY <1>1, <1>2, <3>1, <3>3 DEF Range
    <3>. QED
      BY <3>2, <3>3
  <2>4. ASSUME NEW x \in Range(s) PROVE x \in Range(st)
    BY <1>1, <2>1 DEF Range
  <2>5. ASSUME NEW x \in Range(t) PROVE x \in Range(st)
    BY <1>1, <2>2 DEF Range
  <2>. QED
    BY <2>3, <2>4, <2>5
<1>. QED
  BY <1>1, <1>4, <1>5 DEF st

\* Two events may be scheduled one after the other if they are not both of the script.
LEMMA ChainsMix ==
    ASSUME Inv, NEW x \in Schedule, NEW y \in Schedule, x \in Links \/ y \in Links
    PROVE  <<x, y>> \in InTurn
BY ScheduleIs DEF InTurn

\* The events of a chain that a run starts with.
LEMMA ChainIs ==
    ASSUME Inv, NEW kind \in {"advance", "sample"},
           kind = "advance" => scenario.movement.enabled,
           kind = "sample" => scenario.localization.enabled
    PROVE  Chain(kind) \in Seq(Links)
<1>1. scenario.robots \in Seq(Range(scenario.robots))
  BY DEF Inv, ScenarioOK
<1>2. 0 \in Tick
  BY BoundsAssumption DEF Tick
<1>3. \A i \in DOMAIN scenario.robots : [at |-> 0, action |-> kind, robot |-> i] \in Links
  BY <1>2 DEF Links
<1>. QED
  BY <1>1, <1>3 DEF Chain

\* Chains may be scheduled in any order.
LEMMA ChainSchedulable ==
    ASSUME Inv, NEW s \in Seq(Links)
    PROVE  Schedulable(s, InTurn)
<1>1. \A i \in 1..Len(s) : s[i] \in Links /\ s[i] \in Schedule
  BY ScheduleIs
<1>. QED
  BY <1>1, ChainsMix DEF Schedulable

\* The loaded events may be scheduled in the order in which they were loaded.
LEMMA ScriptSchedulable ==
    ASSUME Inv
    PROVE  Schedulable(scenario.events, InTurn)
<1> DEFINE es == scenario.events
<1>1. SUFFICES ASSUME NEW i \in 1..Len(es), NEW j \in 1..Len(es), i < j
               PROVE  /\ es[i].at <= es[j].at => <<es[i], es[j]>> \in InTurn
                      /\ es[j].at < es[i].at => <<es[j], es[i]>> \in InTurn
  BY DEF Schedulable
<1>2. es[i] \in Range(es) /\ es[j] \in Range(es)
  BY DEF Range, Inv, EventsOK
<1>3. Precedes(es[i], es[j])
  BY <1>1 DEF Inv, EventsOK, AllPairs
<1>4. es[i] \in Schedule /\ es[j] \in Schedule /\ es[i].at \in Int /\ es[j].at \in Int
  BY <1>2, ScheduleIs
<1>5. es[i].at <= es[j].at
  BY <1>3, <1>4 DEF Precedes
<1>6. <<es[i], es[j]>> \in InTurn
  BY <1>3, <1>4 DEF InTurn
<1>. QED
  BY <1>4, <1>5, <1>6

\* The agenda a run begins with: the script in order, and the chains that are enabled.
LEMMA FirstSchedule ==
    ASSUME Inv
    PROVE  LET q == EnqueueAll(<<>>,
                      (IF scenario.movement.enabled THEN Chain("advance") ELSE <<>>) \o
                      scenario.events \o
                      (IF scenario.localization.enabled THEN Chain("sample") ELSE <<>>))
           IN  /\ q \in Seq(Schedule) /\ InOrder(q) /\ AllPairs(q, InTurn)
               /\ Range(scenario.events) \subseteq Range(q)
<1> DEFINE moves == IF scenario.movement.enabled THEN Chain("advance") ELSE <<>>
           events == scenario.events
           samples == IF scenario.localization.enabled THEN Chain("sample") ELSE <<>>
           both == moves \o events
           all == both \o samples
<1>1. moves \in Seq(Links) /\ samples \in Seq(Links)
  BY ChainIs
<1>2. events \in Seq(Range(events))
  BY DEF Inv, EventsOK
<1>3. /\ \A e \in Links : e \in Schedule /\ e.at \in Int
      /\ \A e \in Range(events) : e \in Schedule
      /\ \A e \in Schedule : e.at \in Int
  BY ScheduleIs
<1>4. /\ Schedulable(moves, InTurn) /\ Schedulable(samples, InTurn)
      /\ Schedulable(events, InTurn)
  BY <1>1, ChainSchedulable, ScriptSchedulable
<1> HIDE DEF moves, events, samples
<1>5. moves \in Seq(Schedule) /\ samples \in Seq(Schedule) /\ events \in Seq(Schedule)
  BY <1>1, <1>2, <1>3
<1>6. Range(moves) \subseteq Links /\ Range(samples) \subseteq Links
      /\ Range(events) \subseteq Schedule
  BY <1>1, <1>3 DEF Range
<1>7. /\ Schedulable(both, InTurn) /\ both \in Seq(Schedule)
      /\ Range(both) = Range(moves) \cup Range(events)
  <2>1. \A x \in Range(moves) : \A y \in Range(events) :
          /\ x.at <= y.at => <<x, y>> \in InTurn
          /\ y.at < x.at => <<y, x>> \in InTurn
    BY <1>3, <1>6, ChainsMix
  <2>. QED
    BY <1>4, <1>5, <2>1, SchedulableTogether
<1> HIDE DEF both
<1>8. /\ Schedulable(all, InTurn) /\ all \in Seq(Schedule)
      /\ Range(all) = Range(both) \cup Range(samples)
  <2>1. \A x \in Range(both) : \A y \in Range(samples) :
          /\ x.at <= y.at => <<x, y>> \in InTurn
          /\ y.at < x.at => <<y, x>> \in InTurn
    BY <1>3, <1>6, <1>7, ChainsMix
  <2>. QED
    BY <1>4, <1>5, <1>7, <2>1, SchedulableTogether
<1> HIDE DEF all
<1>9. LET q == EnqueueAll(<<>>, all)
      IN  /\ q \in Seq(Schedule) /\ InOrder(q) /\ AllPairs(q, InTurn)
          /\ Range(q) = Range(all)
  BY <1>3, <1>8, EnqueueAllPairs
<1>. QED
  BY <1>7, <1>8, <1>9 DEF all, both, moves, events, samples

\* The run begins with the whole script ahead of it.
LEMMA BeginKeeps ==
    ASSUME Inv, Begin
    PROVE  Inv'
<1>1. /\ stage = "constructed" /\ stage' = IF Wirable THEN "running" ELSE "threw"
      /\ UNCHANGED <<geometry, scenario, file, now, observed, executed>>
      /\ executed = <<>> /\ agenda = <<>> /\ now = 0
  BY DEF Begin, Inv, StageOK, BeforeRun
<1>2. CASE ~Wirable
  <2>1. agenda' = agenda
    BY <1>2 DEF Begin
  <2>2. AgendaOK'
    BY <1>1, <2>1, LoadedStays DEF Inv, AgendaOK
  <2>3. ExecutedOK'
    BY <1>1, <1>2, <2>1 DEF ExecutedOK, Range
  <2>. QED
    BY <1>1, <1>2, <2>2, <2>3, WiringHolds, RunKeeps DEF FleetOK
<1>3. CASE Wirable
  <2> DEFINE q == agenda'
  <2>1. /\ q \in Seq(Schedule) /\ InOrder(q) /\ AllPairs(q, InTurn)
        /\ Range(scenario.events) \subseteq Range(q)
    BY <1>3, FirstSchedule DEF Begin
  <2> HIDE DEF q
  <2>2. \A e \in Range(q) : e.at >= 0
    <3>1. \A e \in Range(q) : e \in Schedule
      BY <2>1 DEF Range
    <3>. QED
      BY <3>1, ScheduleIs DEF Tick
  <2>3. AgendaOK'
    <3>1. now' = 0 /\ observed' = observed
      BY <1>1
    <3>2. /\ 0 \in Tick /\ \A stream \in DOMAIN observed : observed[stream] \in 0..0
          /\ scenario.duration # Absent => 0 <= scenario.duration
      BY <1>1 DEF Inv, AgendaOK
    <3>. QED
      BY <1>1, <2>1, <2>2, <3>1, <3>2, LoadedStays DEF AgendaOK, q
  <2>4. ExecutedOK'
    <3>1. executed' = <<>> /\ stage' = "running" /\ file' = file
      BY <1>1, <1>3
    <3>2. ASSUME NEW i \in DOMAIN file PROVE Awaits(i)'
      <4>1. PICK e \in Range(scenario.events) : e.line = i
        BY DEF Inv, EventsOK
      <4>2. e \in Range(q) /\ e.action \in Actions
        BY <2>1, <4>1, ScheduleIs
      <4>. QED
        BY <4>1, <4>2 DEF Awaits, q
    <3>. QED
      BY <3>1, <3>2 DEF ExecutedOK, Range
  <2>5. FleetOK'
    <3>1. fleet' = [i \in DOMAIN scenario.robots |-> AtStart(i)] /\ now' = 0
      BY <1>1, <1>3 DEF Begin
    <3>2. ASSUME NEW i \in DOMAIN scenario.robots
          PROVE  RobotOK(AtStart(i)) /\ AtStart(i).at = 0
      <4>1. scenario.robots[i].start \in NodeNames
        BY DEF Inv, ScenarioOK, Range
      <4>2. AtStart(i) \in RobotStates
        BY <4>1 DEF AtStart, RobotStates, Models
      <4>. QED
        BY <4>2 DEF RobotOK, AtStart
    <3>3. ASSUME NEW robot \in Range(fleet')
          PROVE  RobotOK(robot)' /\ robot.at <= now'
      <4>1. PICK i \in DOMAIN scenario.robots : robot = AtStart(i)
        BY <3>1 DEF Range
      <4>2. RobotOK(robot) /\ robot.at = 0
        BY <3>2, <4>1
      <4>. QED
        BY <1>1, <3>1, <4>2, LoadedStays
    <3>4. DOMAIN fleet' = DOMAIN scenario'.robots
      BY <1>1, <3>1
    <3>. QED
      BY <3>1, <3>3, <3>4 DEF FleetOK
  <2>. QED
    BY <1>1, <1>3, <2>3, <2>4, <2>5, RunKeeps
<1>. QED
  BY <1>2, <1>3

\* A tick that fits 64 bits is not cut off, and what is cut off is a tick.
LEMMA PlusIs ==
    ASSUME NEW t \in Tick, NEW d \in Nat
    PROVE  Plus(t, d) \in Tick /\ (t + d <= MaxTick => Plus(t, d) = t + d)
<1> DEFINE n == MaxTick + 1
           s == t + d
<1>1. n \in Nat \ {0} /\ s \in Nat
  BY BoundsAssumption DEF Tick
<1> HIDE DEF n, s
<1>2. s % n \in 0..(n - 1)
  BY <1>1
<1>3. s < n => s % n = s
  BY <1>1
<1>. QED
  BY <1>1, <1>2, <1>3, BoundsAssumption DEF Plus, Tick, n, s

\* The least of what is enough.
IsRoundedUp(up, n, k) == up \in Int /\ n <= k * up /\ k * (up - 1) < n

\* That is what the traversal's ticks and the metres are rounded up to.
LEMMA RoundedUpIs ==
    ASSUME NEW n \in Int, NEW k \in Nat \ {0}
    PROVE  IsRoundedUp(RoundedUp(n, k), n, k)
<1> DEFINE m == -n
           q == m \div k
<1>1. m \in Int
  OBVIOUS
<1>2. q \in Int /\ k * q <= m /\ m < k * q + k
  BY <1>1
<1> HIDE DEF q
<1>3. k * (-q) = -(k * q) /\ k * (-q - 1) = -(k * q) - k /\ k * q \in Int
  BY <1>2
<1>. QED
  BY <1>1, <1>2, <1>3 DEF IsRoundedUp, RoundedUp, q

\* A traversal takes a tick at least.
LEMMA TraversalTakesTime ==
    ASSUME Inv, NEW road \in Roads
    PROVE  TraversalTicks(road.cost) \in Nat \ {0}
<1> DEFINE n == road.cost * scenario.movement.perCost
           up == RoundedUp(n, CostScale)
<1>1. road.cost \in Nat /\ scenario.movement.perCost \in Nat /\ CostScale \in Nat \ {0}
  BY BoundsAssumption, MapAssumption DEF Inv, ScenarioOK, Tick
<1>2. n \in Int
  BY <1>1
<1> HIDE DEF n
<1>3. up \in Int
  BY <1>1, <1>2, RoundedUpIs DEF IsRoundedUp
<1>4. TraversalTicks(road.cost) = IF up >= 1 THEN up ELSE 1
  BY DEF TraversalTicks, n
<1> HIDE DEF up
<1>. QED
  BY <1>3, <1>4

\* The event that is popped, and what is left after it.
LEMMA PoppedIs ==
    ASSUME Inv, Due
    PROVE  LET e == NextEvent  rest == Tail(agenda)
           IN  /\ e \in Range(agenda) /\ e \in Schedule /\ e.at \in Tick /\ e.at >= now
               /\ rest \in Seq(Schedule) /\ InOrder(rest) /\ AllPairs(rest, InTurn)
               /\ \A x \in Range(rest) : /\ x \in Range(agenda) /\ x \in Schedule
                                        /\ x.at >= e.at /\ <<e, x>> \in InTurn
               /\ \A x \in Range(agenda) : x = e \/ x \in Range(rest)
<1> DEFINE n == Len(agenda)
           e == NextEvent
           rest == Tail(agenda)
<1>1. /\ agenda \in Seq(Schedule) /\ InOrder(agenda) /\ AllPairs(agenda, InTurn)
      /\ \A x \in Range(agenda) : x.at >= now
  BY DEF Inv, AgendaOK
<1>2. agenda # <<>>
  BY DEF Due
<1>3. /\ n \in Nat /\ n >= 1 /\ DOMAIN agenda = 1..n /\ e = agenda[1]
      /\ rest \in Seq(Schedule) /\ Len(rest) = n - 1 /\ DOMAIN rest = 1..(n - 1)
      /\ \A i \in 1..(n - 1) : rest[i] = agenda[i + 1] /\ i + 1 \in 1..n
  BY <1>1, <1>2 DEF NextEvent
<1> HIDE DEF n, rest, e
<1>4. \A i \in 1..n : agenda[i] \in Range(agenda) /\ agenda[i] \in Schedule
  BY <1>1, <1>3 DEF Range
<1>5. InOrder(rest) /\ AllPairs(rest, InTurn)
  <2>1. ASSUME NEW i \in 1..(n - 1), NEW j \in 1..(n - 1), i < j
        PROVE  rest[i].at <= rest[j].at /\ <<rest[i], rest[j]>> \in InTurn
    <3>1. i + 1 \in 1..n /\ j + 1 \in 1..n /\ i + 1 < j + 1
      BY <1>3, <2>1
    <3>. QED
      BY <1>1, <1>3, <3>1 DEF InOrder, AllPairs, n
  <2>. QED
    BY <1>3, <2>1 DEF InOrder, AllPairs
<1>6. ASSUME NEW x \in Range(rest)
      PROVE  x \in Range(agenda) /\ x \in Schedule /\ x.at >= e.at /\ <<e, x>> \in InTurn
  <2>1. PICK i \in 1..(n - 1) : x = rest[i]
    BY <1>3 DEF Range
  <2>2. x = agenda[i + 1] /\ i + 1 \in 1..n /\ 1 \in 1..n /\ 1 < i + 1
    BY <1>3, <2>1
  <2>3. agenda[1].at <= agenda[i + 1].at /\ <<agenda[1], agenda[i + 1]>> \in InTurn
    BY <1>1, <1>3, <2>2 DEF InOrder, AllPairs, n
  <2>4. agenda[1].at \in Int /\ agenda[i + 1].at \in Int
    BY <1>4, <2>2, ScheduleIs
  <2>. QED
    BY <1>3, <1>4, <2>2, <2>3, <2>4
<1>7. ASSUME NEW x \in Range(agenda) PROVE x = e \/ x \in Range(rest)
  <2>1. PICK i \in 1..n : x = agenda[i]
    BY <1>3 DEF Range
  <2>2. CASE i = 1
    BY <1>3, <2>1, <2>2
  <2>3. CASE i # 1
    <3>1. i - 1 \in 1..(n - 1) /\ (i - 1) + 1 = i
      BY <1>3, <2>3
    <3>2. x = rest[i - 1]
      BY <1>3, <2>1, <3>1
    <3>. QED
      BY <1>3, <3>1, <3>2 DEF Range
  <2>. QED
    BY <2>2, <2>3
<1>8. e \in Range(agenda) /\ e \in Schedule
  BY <1>3, <1>4
<1>9. e.at \in Tick /\ e.at >= now
  BY <1>1, <1>8, ScheduleIs
<1>. QED
  BY <1>3, <1>5, <1>6, <1>7, <1>8, <1>9 DEF e, rest

(* Without a horizon only the script runs, and its last event is the last  *)
(* in the list; with one nothing is popped that is later.                  *)
LEMMA DueByTheEnd ==
    ASSUME Inv, Due
    PROVE  NextEvent.at <= LastTick /\ LastTick \in Nat
<1> DEFINE es == scenario.events
<1>1. CASE scenario.duration # Absent
  BY <1>1 DEF Due, NextEvent, LastTick, Inv, ScenarioOK, Tick
<1>2. CASE scenario.duration = Absent
  <2>1. stage = "running"
    BY DEF Due
  <2>2. ~scenario.movement.enabled /\ ~scenario.localization.enabled
    BY <1>2, <2>1 DEF Inv, StageOK
  <2>3. NextEvent \in Range(es)
    <3>1. NextEvent \in Schedule
      BY PoppedIs
    <3>2. NextEvent \notin Links
      BY <2>2 DEF Links
    <3>. QED
      BY <3>1, <3>2 DEF Schedule
  <2>4. es \in Seq(Range(es)) /\ AllPairs(es, {p \in Range(es) \X Range(es) : Precedes(p[1], p[2])})
    BY DEF Inv, EventsOK
  <2>5. Len(es) \in Nat /\ DOMAIN es = 1..Len(es) /\ (es = <<>> => Len(es) = 0)
    BY <2>4
  <2>6. PICK i \in 1..Len(es) : NextEvent = es[i]
    BY <2>3, <2>5 DEF Range
  <2>7. es # <<>> /\ Len(es) \in 1..Len(es)
    BY <2>5, <2>6
  <2>8. LastTick = es[Len(es)].at
    BY <1>2, <2>7 DEF LastTick
  <2>9. es[i].at \in Tick /\ es[Len(es)].at \in Tick
    <3>1. es[i] \in Range(es) /\ es[Len(es)] \in Range(es)
      BY <2>5, <2>6, <2>7 DEF Range
    <3>. QED
      BY <3>1, ScheduleIs
  <2>10. CASE i = Len(es)
    BY <2>6, <2>8, <2>9, <2>10 DEF Tick
  <2>11. CASE i # Len(es)
    <3>1. i < Len(es)
      BY <2>5, <2>11
    <3>2. Precedes(es[i], es[Len(es)])
      BY <2>4, <2>7, <3>1 DEF AllPairs
    <3>. QED
      BY <2>6, <2>8, <2>9, <3>2 DEF Precedes, Tick
  <2>. QED
    BY <2>10, <2>11
<1>. QED
  BY <1>1, <1>2

\* What follows the popped event, and that its tick is the clock's.
LEMMA AgendaAfter ==
    ASSUME Inv, Due, now' = NextEvent.at, UNCHANGED <<geometry, scenario, file>>,
           \/ agenda' = Tail(agenda)
           \/ \E e \in Links : e.at >= NextEvent.at /\ agenda' = Enqueue(Tail(agenda), e),
           \A stream \in DOMAIN observed' : observed'[stream] \in 0..now'
    PROVE  /\ AgendaOK'
           /\ \A x : x \in Range(agenda') /\ x.action \in Actions <=>
                     x \in Range(Tail(agenda)) /\ x.action \in Actions
<1> DEFINE rest == Tail(agenda)
           tick == NextEvent.at
<1>1. /\ rest \in Seq(Schedule) /\ InOrder(rest) /\ AllPairs(rest, InTurn) /\ tick \in Tick
      /\ \A x \in Range(rest) : x \in Schedule /\ x.at >= tick
  BY PoppedIs
<1>2. Schedule' = Schedule /\ InTurn' = InTurn
  BY LoadedStays
<1>3. scenario.duration # Absent => tick <= scenario.duration
  BY DEF Due, NextEvent
<1> HIDE DEF rest, tick
<1>4. CASE agenda' = rest
  <2>1. AgendaOK'
    BY <1>1, <1>2, <1>3, <1>4 DEF AgendaOK, tick
  <2>. QED
    BY <1>4, <2>1 DEF rest
<1>5. CASE \E e \in Links : e.at >= NextEvent.at /\ agenda' = Enqueue(rest, e)
  <2>1. PICK e \in Links : e.at >= tick /\ agenda' = Enqueue(rest, e)
    BY <1>5 DEF tick
  <2>2. /\ e \in Schedule /\ e.action \notin Actions /\ \A s \in Schedule : s.at \in Int
    BY ScheduleIs
  <2> DEFINE q == Enqueue(rest, e)
  <2>3. q \in Seq(Schedule)
    BY <1>1, <2>2, EnqueueShifts
  <2>4. InOrder(q)
    BY <1>1, <2>2, EnqueueInOrder
  <2>5. Range(q) = Range(rest) \cup {e}
    BY <1>1, <2>2, EnqueueAdds
  <2>6. AllPairs(q, InTurn)
    <3>1. ASSUME NEW i \in 1..Len(rest)
          PROVE  /\ rest[i].at <= e.at => <<rest[i], e>> \in InTurn
                 /\ e.at < rest[i].at => <<e, rest[i]>> \in InTurn
      <4>1. rest[i] \in Schedule
        BY <1>1
      <4>. QED
        BY <2>2, <4>1, ChainsMix
    <3>. QED
      BY <1>1, <2>2, <3>1, EnqueuePairs
  <2> HIDE DEF q
  <2>7. AgendaOK'
    BY <1>1, <1>2, <1>3, <2>1, <2>3, <2>4, <2>5, <2>6 DEF AgendaOK, q, tick
  <2>. QED
    BY <2>1, <2>2, <2>5, <2>7 DEF q, rest
<1>. QED
  BY <1>4, <1>5 DEF rest

\* A step of a chain leaves the record of the script as it is.
LEMMA ChainStepKeeps ==
    ASSUME Inv, Due, NextEvent.action \notin Actions, now' = NextEvent.at,
           UNCHANGED <<geometry, scenario, file, observed, executed>>, FleetOK',
           \/ agenda' = Tail(agenda)
           \/ \E e \in Links : e.at >= NextEvent.at /\ agenda' = Enqueue(Tail(agenda), e),
           stage' \in {"running", "threw"}, stage' = "threw" => ~IsReasonable
    PROVE  Inv'
<1>1. stage = "running"
  BY DEF Due
<1>2. /\ NextEvent.at \in Int /\ NextEvent.at >= now /\ now \in Int
      /\ \A x \in Range(agenda) : x = NextEvent \/ x \in Range(Tail(agenda))
      /\ \A x \in Range(Tail(agenda)) : x \in Range(agenda)
  <2>1. NextEvent.at \in Tick /\ NextEvent.at >= now
    BY PoppedIs
  <2>2. now \in Tick
    BY DEF Inv, AgendaOK
  <2>3. \A x \in Range(agenda) : x = NextEvent \/ x \in Range(Tail(agenda))
    BY PoppedIs
  <2>4. \A x \in Range(Tail(agenda)) : x \in Range(agenda)
    BY PoppedIs
  <2>. QED
    BY <2>1, <2>2, <2>3, <2>4 DEF Tick
<1>3. \A stream \in DOMAIN observed' : observed'[stream] \in 0..now'
  BY <1>2 DEF Inv, AgendaOK
<1>4. /\ AgendaOK'
      /\ \A x : x \in Range(agenda') /\ x.action \in Actions <=>
                x \in Range(Tail(agenda)) /\ x.action \in Actions
  BY <1>3, AgendaAfter
<1>5. \A x : x \in Range(agenda') /\ x.action \in Actions <=>
             x \in Range(agenda) /\ x.action \in Actions
  BY <1>2, <1>4
<1>6. ExecutedOK'
  <2>1. \A i \in DOMAIN file \ Range(executed) : Awaits(i)
    BY <1>1 DEF Inv, ExecutedOK
  <2>2. \A i : Awaits(i)' <=> Awaits(i)
    BY <1>5 DEF Awaits
  <2>3. \A p \in DOMAIN executed : \A e \in Range(agenda') :
          e.action \in Actions => Before(executed[p], e.line)
    BY <1>5 DEF Inv, ExecutedOK
  <2>4. \A p, q \in DOMAIN executed : p < q => Before(executed[p], executed[q])
    BY DEF Inv, ExecutedOK
  <2>5. executed \in Seq(DOMAIN file) /\ stage' # "finished"
    BY DEF Inv, ExecutedOK
  <2>6. \A i, j : Before(i, j)' = Before(i, j)
    BY LoadedStays
  <2>. QED
    BY <2>1, <2>2, <2>3, <2>4, <2>5, <2>6 DEF ExecutedOK
<1>. QED
  BY <1>1, <1>4, <1>6, RunKeeps

\* Rescheduling throws only where the next tick goes beyond the largest.
LEMMA RescheduleKeeps ==
    ASSUME Inv, Due, NextEvent.action \notin Actions, now' = NextEvent.at,
           NEW delay \in Nat, Reschedule(delay), FleetOK',
           IsReasonable => LastTick + delay <= MaxTick
    PROVE  Inv'
<1> DEFINE e == NextEvent
           next == Plus(e.at, delay)
<1>1. /\ agenda' = IF next < e.at THEN Tail(agenda)
                   ELSE Enqueue(Tail(agenda), [e EXCEPT !.at = next])
      /\ stage' = IF next < e.at THEN "threw" ELSE stage
      /\ UNCHANGED <<geometry, scenario, file, observed, executed>>
  BY DEF Reschedule
<1>2. e \in Schedule /\ e.at \in Tick
  BY PoppedIs
<1>3. e \in Links
  BY <1>2, ScheduleIs
<1>4. next \in Tick /\ (e.at + delay <= MaxTick => next = e.at + delay)
  BY <1>2, PlusIs
<1>5. e.at <= LastTick /\ LastTick \in Nat /\ stage = "running"
  BY DueByTheEnd DEF Due
<1> HIDE DEF e, next
<1>6. e.at \in Nat /\ next \in Nat /\ MaxTick \in Nat
  BY <1>2, <1>4, BoundsAssumption DEF Tick
<1>7. CASE next < e.at
  <2>1. ~IsReasonable
    BY <1>4, <1>5, <1>6, <1>7
  <2>. QED
    BY <1>1, <1>7, <2>1, ChainStepKeeps
<1>8. CASE ~(next < e.at)
  <2>1. [e EXCEPT !.at = next] \in Links /\ [e EXCEPT !.at = next].at >= e.at
    BY <1>3, <1>4, <1>6, <1>8 DEF Links
  <2>2. \E f \in Links : f.at >= NextEvent.at /\ agenda' = Enqueue(Tail(agenda), f)
    BY <1>1, <1>8, <2>1 DEF e
  <2>. QED
    BY <1>1, <1>5, <1>8, <2>2, ChainStepKeeps
<1>. QED
  BY <1>7, <1>8

\* A message that cannot be delivered is one beyond the largest tick.
LEMMA SendThrows ==
    ASSUME Inv, Due, Undeliverable
    PROVE  ~IsReasonable
<1>1. NextEvent.at <= LastTick /\ LastTick \in Nat
  BY DueByTheEnd
<1>2. NextEvent.at \in Tick
  BY PoppedIs
<1>3. scenario.network.max \in Tick
  BY DEF Inv, ScenarioOK
<1>. QED
  BY <1>1, <1>2, <1>3, BoundsAssumption
  DEF Undeliverable, IsReasonable, TicksAreReasonable, Tick

-----------------------------------------------------------------------------
(* Localization in the run.                                                *)

\* In so much time a motion is no longer than the pace allows.
LEMMA MotionIsBounded ==
    ASSUME NEW length \in Nat, NEW k \in Nat \ {0}, NEW d \in Nat, NEW pace \in Int,
           RoundedUp(length, k) <= pace
    PROVE  RoundedUp(length * d, k) \in Nat /\ RoundedUp(length * d, k) <= pace * d
<1> DEFINE u == RoundedUp(length, k)
           n == length * d
           v == RoundedUp(n, k)
           most == pace * d
<1>1. u \in Int /\ length <= k * u /\ u <= pace
  BY RoundedUpIs DEF IsRoundedUp
<1>2. n \in Nat
  OBVIOUS
<1>3. n <= k * most /\ most \in Int
  <2> DEFINE kp == k * pace
             ku == k * u
  <2>1. ku <= kp /\ ku \in Int /\ kp \in Int
    <3> HIDE DEF u
    <3>. QED
      BY <1>1
  <2>2. length <= kp
    BY <1>1, <2>1
  <2>3. kp * d = k * most
    OBVIOUS
  <2> HIDE DEF kp
  <2>4. length * d <= kp * d
    BY <2>1, <2>2
  <2>. QED
    BY <2>3, <2>4
<1> HIDE DEF n, most
<1>4. IsRoundedUp(v, n, k)
  BY <1>2, RoundedUpIs
<1> HIDE DEF v
<1>5. v \in Int /\ n <= k * v /\ k * (v - 1) < n
  BY <1>4 DEF IsRoundedUp
<1>6. v >= 0
  <2>1. SUFFICES ASSUME v <= -1 PROVE FALSE
    BY <1>5
  <2>2. k * v <= k * (-1)
    BY <1>5, <2>1
  <2>. QED
    BY <1>2, <1>5, <2>2
<1>7. v <= most
  <2>1. k * (v - 1) < k * most
    <3>1. k * (v - 1) \in Int /\ k * most \in Int
      BY <1>3, <1>5
    <3>. QED
      BY <1>2, <1>3, <1>5, <3>1
  <2>2. v - 1 < most
    BY <1>3, <1>5, <2>1
  <2>. QED
    BY <1>3, <1>5, <2>2
<1>. QED
  BY <1>5, <1>6, <1>7 DEF v, n, most

\* A product grows with its factors.
LEMMA ProductGrows ==
    ASSUME NEW a \in Nat, NEW b \in Nat, NEW x \in Nat, NEW y \in Nat, a <= b, x <= y
    PROVE  a * x <= b * y /\ a * x \in Nat /\ b * y \in Nat
<1>1. a * x <= b * x /\ b * x <= b * y
  OBVIOUS
<1>. QED
  BY <1>1

\* So does its magnitude.
LEMMA MagnitudeGrows ==
    ASSUME NEW a \in Nat, NEW b \in Nat, NEW c \in Int, a <= b, IsFinite(b * c)
    PROVE  IsFinite(a * c)
<1>1. CASE c >= 0
  <2>1. 0 <= a * c /\ a * c <= b * c /\ a * c \in Int /\ b * c \in Int
    BY <1>1
  <2>. QED
    BY <2>1, GeodesyAssumption DEF IsFinite, Magnitude
<1>2. CASE c < 0
  <2>1. a * (-c) <= b * (-c) /\ 0 <= a * (-c)
    BY <1>2
  <2>2. a * (-c) = -(a * c) /\ b * (-c) = -(b * c) /\ a * c \in Int /\ b * c \in Int
    OBVIOUS
  <2>. QED
    BY <2>1, <2>2, GeodesyAssumption DEF IsFinite, Magnitude
<1>. QED
  BY <1>1, <1>2

(* What dead reckoning comes to is a latitude within the distance it makes *)
(* of the motion; where it throws there was too much of it, or it went too *)
(* far.                                                                    *)
LEMMA PropagatedIs ==
    ASSUME NEW latitude \in Int, NEW motion \in Nat, NEW config, config.scale \in Nat,
           config.drift \in Int, NEW isStraight,
           NEW to \in Propagated(latitude, motion, config, isStraight)
    PROVE  LET distance == motion * (1 + config.scale)
           IN  /\ \/ to = Exception
                  \/ to \in Int /\ to # Exception
                     /\ Magnitude(to) <= Magnitude(latitude) + distance
               /\ to = Exception =>
                    \/ distance > MaxMotion
                    \/ ~IsFinite(motion * config.drift)
                    \/ distance # 0 /\ Magnitude(latitude) + distance > Domain
<1> DEFINE distance == motion * (1 + config.scale)
           reachable == {l \in (latitude - distance)..(latitude + distance) : Magnitude(l) <= Pole}
<1>1. distance \in Nat
  OBVIOUS
<1> HIDE DEF distance
<1>2. ASSUME NEW l \in reachable
      PROVE  l \in Int /\ l # Exception /\ Magnitude(l) <= Magnitude(latitude) + distance
  <2>1. l \in Int /\ l >= latitude - distance /\ l <= latitude + distance
    BY <1>1
  <2>. QED
    BY <1>1, <2>1, GeodesyAssumption DEF Magnitude
<1>3. \/ to \in reachable
      \/ /\ to = Exception
         /\ \/ distance > MaxMotion \/ ~IsFinite(motion * config.drift)
            \/ distance # 0 /\ Magnitude(latitude) + distance > Domain
  BY DEF Propagated, distance
<1> HIDE DEF reachable
<1>. QED
  BY <1>2, <1>3 DEF distance

\* A fix within the domain.
LEMMA DisplacedIs ==
    ASSUME NEW l \in Int, NEW b \in Nat, NEW east \in (-b)..b, NEW north \in (-b)..b,
           Magnitude(l) <= Pole, b > 0 => Magnitude(l) + b <= Domain
    PROVE  /\ Displaced(l, east, north) \in Int
           /\ Magnitude(Displaced(l, east, north)) <= Magnitude(l) + b
<1>1. east \in Int /\ north \in Int /\ Magnitude(east) <= b /\ Magnitude(north) <= b
  BY DEF Magnitude
<1>2. b <= MaxReal /\ Magnitude(l) \in Nat /\ Magnitude(l + north) <= Magnitude(l) + b
  BY <1>1, GeodesyAssumption DEF Magnitude
<1>3. b = 0 => east = 0 /\ north = 0
  BY DEF Magnitude
<1>4. east # 0 => Magnitude(l) <= Domain
  BY <1>2, <1>3, GeodesyAssumption
<1>5. Magnitude(l + north) <= Pole
  <2>1. CASE b = 0
    BY <1>3, <2>1
  <2>2. CASE b # 0
    BY <1>1, <1>2, <2>2, GeodesyAssumption DEF Magnitude
  <2>. QED
    BY <2>1, <2>2
<1>6. IsFinite(east) /\ IsFinite(north)
  BY <1>1, <1>2, GeodesyAssumption DEF IsFinite, Magnitude
<1>7. Displaced(l, east, north) = l + north
  BY <1>4, <1>5, <1>6 DEF Displaced
<1>. QED
  BY <1>1, <1>2, <1>7

\* The latitudes of a map that has them.
LEMMA LatitudesAre ==
    ASSUME Inv, scenario.localization.enabled
    PROVE  /\ \A l \in Latitudes : l \in Int /\ Magnitude(l) <= Pole /\ l # Exception
           /\ DOMAIN geometry.nodes \subseteq NodeNames
<1>1. geometry \in Geometries \ {Absent}
  BY DEF Inv, ScenarioOK, StageOK
<1>2. /\ DOMAIN geometry.nodes \subseteq NodeNames
      /\ \A n \in DOMAIN geometry.nodes : geometry.nodes[n] \in (-Pole)..Pole
      /\ \A ends \in DOMAIN geometry.roads : geometry.roads[ends] \subseteq (-Pole)..Pole
  BY <1>1, MapAssumption
<1>3. Latitudes \subseteq (-Pole)..Pole
  BY <1>2 DEF Latitudes, Range
<1>. QED
  BY <1>2, <1>3, GeodesyAssumption DEF Magnitude

\* The truth is on the map.
LEMMA TruthIs ==
    ASSUME Inv, scenario.localization.enabled, LocalizationIsReasonable, NEW robot,
           RobotOK(robot)
    PROVE  TruthPose(robot) \subseteq Latitudes /\ Exception \notin TruthPose(robot)
<1>1. DOMAIN geometry.nodes = NodeNames
  BY DEF LocalizationIsReasonable
<1>2. robot.node \in NodeNames /\ (robot.road # Absent => robot.road \in Roads)
  BY DEF RobotOK, RobotStates
<1>3. CASE robot.road = Absent
  <2>1. TruthPose(robot) = {geometry.nodes[robot.node]}
    BY <1>1, <1>2, <1>3 DEF TruthPose
  <2>2. geometry.nodes[robot.node] \in Latitudes
    BY <1>1, <1>2 DEF Latitudes, Range
  <2>. QED
    BY <2>1, <2>2, LatitudesAre
<1>4. CASE robot.road # Absent /\ IsDrawn(robot.road)
  <2>1. TruthPose(robot) = geometry.roads[robot.road.ends]
    BY <1>4 DEF TruthPose
  <2>2. geometry.roads[robot.road.ends] \subseteq Latitudes
    BY <1>4 DEF Latitudes, Range, IsDrawn
  <2>. QED
    BY <2>1, <2>2, LatitudesAre
<1>5. CASE robot.road # Absent /\ ~IsDrawn(robot.road)
  <2>1. robot.road.ends \subseteq NodeNames
    BY <1>2, <1>5, MapAssumption
  <2>2. IsLocated(robot.road)
    BY <1>1, <2>1 DEF IsLocated
  <2>3. TruthPose(robot) = {geometry.nodes[n] : n \in robot.road.ends}
    BY <1>5, <2>2 DEF TruthPose
  <2>4. \A n \in robot.road.ends : geometry.nodes[n] \in Latitudes
    BY <1>1, <2>1 DEF Latitudes, Range
  <2>. QED
    BY <2>3, <2>4, LatitudesAre
<1>. QED
  BY <1>3, <1>4, <1>5

\* Models' noises are numbers, and paces are.
LEMMA NumbersAre ==
    ASSUME Inv
    PROVE  /\ \A m \in Models : HasNoises(m)
           /\ Paces \subseteq Int /\ 0 \in Paces
           /\ scenario.movement.enabled => \A road \in Roads : Pace(road) \in Paces
<1>1. \A m \in Models : HasNoises(m)
  BY DEF Models, Inv, ScenarioOK, EventsOK, Scripted
<1>2. ASSUME NEW road \in Roads PROVE Pace(road) \in Int
  <2>1. road.length \in Int /\ TraversalTicks(road.cost) \in Nat \ {0}
    BY TraversalTakesTime, MapAssumption
  <2>2. IsRoundedUp(Pace(road), road.length, TraversalTicks(road.cost))
    BY <2>1, RoundedUpIs DEF Pace
  <2>. QED
    BY <2>2 DEF IsRoundedUp
<1>. QED
  BY <1>1, <1>2 DEF Paces

\* What LocalizationIsReasonable asks of the most that a fix is off and the pace.
Tolerable(spread, pace) ==
    LET config == scenario.localization.reckoning
        motion == pace * LastTick
        creep == IF Reckons THEN motion * (1 + config.scale) ELSE 0
    IN  /\ Reckons => creep <= MaxMotion /\ IsFinite(motion * config.drift)
        /\ spread + creep > 0 =>
             \A l \in Latitudes : Magnitude(l) + spread + creep <= Domain

\* There are such a spread and pace,
LEMMA BoundExists ==
    ASSUME LocalizationIsReasonable
    PROVE  \E spread \in Spreads, pace \in Paces : Bound(spread, pace) /\ Tolerable(spread, pace)
BY DEF LocalizationIsReasonable, Bound, Tolerable

\* and no others.
LEMMA BoundIs ==
    ASSUME Inv, LocalizationIsReasonable, NEW spread, NEW pace, Bound(spread, pace)
    PROVE  /\ spread \in Nat /\ pace \in Nat /\ Tolerable(spread, pace)
           /\ \A m \in Models : MaxNoise * Sigma(m) \in 0..spread
<1>1. ASSUME NEW m \in Models PROVE MaxNoise * Sigma(m) \in Nat
  <2>1. Sigma(m) \in Int /\ Sigma(m) >= 0
    BY NumbersAre DEF LocalizationIsReasonable, IsModel, HasNoises
  <2>. QED
    BY <2>1, GeodesyAssumption
<1>2. Spreads \subseteq Nat /\ 0 \in Spreads
  BY <1>1 DEF Spreads
<1>3. Paces \subseteq Int /\ 0 \in Paces
  BY NumbersAre
<1>4. spread \in Nat /\ pace \in Nat
  BY <1>2, <1>3 DEF Bound
<1>5. PICK s \in Spreads, p \in Paces : Bound(s, p) /\ Tolerable(s, p)
  BY BoundExists
<1>6. s = spread /\ p = pace
  BY <1>2, <1>3, <1>5 DEF Bound
<1>7. \A m \in Models : MaxNoise * Sigma(m) <= spread
  BY DEF Bound, Spreads
<1>. QED
  BY <1>1, <1>4, <1>5, <1>6, <1>7

\* How far a robot has driven since its odometry was last advanced.
LEMMA MotionIs ==
    ASSUME Inv, Due, NEW robot, RobotOK(robot), robot.at <= now
    PROVE  /\ Motion(robot) \in Nat /\ NextEvent.at - robot.at \in Nat
           /\ NextEvent.at \in Nat /\ robot.at \in Nat
           /\ \A pace \in Nat : (\A p \in Paces : p <= pace) =>
                 Motion(robot) <= pace * (NextEvent.at - robot.at)
<1> DEFINE d == NextEvent.at - robot.at
           ticks == TraversalTicks(robot.road.cost)
<1>1. /\ robot.at \in Nat /\ NextEvent.at \in Nat /\ NextEvent.at >= now /\ now \in Nat
  <2>1. NextEvent.at \in Tick /\ NextEvent.at >= now
    BY PoppedIs
  <2>. QED
    BY <2>1 DEF Tick, Inv, AgendaOK, RobotOK, RobotStates
<1>2. d \in Nat
  BY <1>1
<1>3. CASE robot.road = Absent \/ robot.at = NextEvent.at
  <2>1. Motion(robot) = 0
    BY <1>3 DEF Motion
  <2>2. \A pace \in Nat : 0 <= pace * d
    BY <1>2
  <2>. QED
    BY <1>1, <1>2, <2>1, <2>2
<1>4. CASE ~(robot.road = Absent \/ robot.at = NextEvent.at)
  <2>1. robot.road \in Roads /\ scenario.movement.enabled
    BY <1>4 DEF RobotOK, RobotStates
  <2>2. robot.road.length \in Nat /\ ticks \in Nat \ {0}
    BY <2>1, MapAssumption, TraversalTakesTime
  <2> DEFINE fastest == RoundedUp(robot.road.length, ticks)
  <2>3. Motion(robot) = RoundedUp(robot.road.length * d, ticks)
    BY <1>4 DEF Motion
  <2>4. fastest \in Paces /\ Paces \subseteq Int
    BY <2>1, NumbersAre DEF Pace
  <2> HIDE DEF d, ticks
  <2>5. ASSUME NEW pace \in Int, fastest <= pace
        PROVE  Motion(robot) \in Nat /\ Motion(robot) <= pace * d
    BY <1>2, <2>2, <2>3, <2>5, MotionIsBounded
  <2> HIDE DEF fastest
  <2>6. Motion(robot) \in Nat
    <3>1. fastest \in Int
      BY <2>4
    <3>. QED
      BY <2>5, <3>1
  <2>7. ASSUME NEW pace \in Nat, \A p \in Paces : p <= pace
        PROVE  Motion(robot) <= pace * d
    <3>1. fastest <= pace /\ pace \in Int
      BY <2>4, <2>7
    <3>. QED
      BY <2>5, <3>1
  <2>. QED
    BY <1>1, <1>2, <2>6, <2>7 DEF d
<1>. QED
  BY <1>3, <1>4

\* An estimate may creep away from its fix by what has been driven.
LEMMA CreepGrows ==
    ASSUME Inv, Reckons, NEW pace \in Nat, NEW at \in Nat, NEW d \in Nat, NEW motion \in Nat,
           motion <= pace * d
    PROVE  LET distance == motion * (1 + scenario.localization.reckoning.scale)
           IN  /\ distance \in Nat /\ Creep(pace, at) \in Nat /\ Creep(pace, at + d) \in Nat
               /\ distance + Creep(pace, at) <= Creep(pace, at + d)
<1> DEFINE rate == 1 + scenario.localization.reckoning.scale
           pd == pace * d
           pa == pace * at
<1>1. rate \in Nat
  BY DEF Inv, ScenarioOK, Reckons
<1>2. pd \in Nat /\ pa \in Nat /\ pace * (at + d) = pa + pd
  OBVIOUS
<1> HIDE DEF pd, pa
<1>3. motion <= pd
  BY DEF pd
<1> HIDE DEF rate
<1>4. motion * rate <= pd * rate /\ motion * rate \in Nat /\ pd * rate \in Nat /\ pa * rate \in Nat
  BY <1>1, <1>2, <1>3, ProductGrows
<1>5. (pa + pd) * rate = pa * rate + pd * rate
  BY <1>1, <1>2
<1>6. Creep(pace, at) = pa * rate /\ Creep(pace, at + d) = (pa + pd) * rate
  BY <1>2 DEF Creep, pa, rate
<1>. QED
  BY <1>4, <1>5, <1>6 DEF rate

(* A motion up to a due tick is within reason, and so is where it takes an *)
(* estimate.                                                               *)
LEMMA DriftIs ==
    ASSUME Inv, Due, LocalizationIsReasonable, NEW robot, RobotOK(robot), robot.at <= now,
           robot.latitude # Absent, NEW spread, NEW pace, Bound(spread, pace)
    PROVE  LET config == scenario.localization.reckoning
               distance == Motion(robot) * (1 + config.scale)
           IN  /\ distance <= MaxMotion /\ IsFinite(Motion(robot) * config.drift)
               /\ \E l \in Latitudes :
                     Magnitude(robot.latitude) + distance
                       <= Magnitude(l) + spread + Creep(pace, NextEvent.at)
               /\ distance # 0 => Magnitude(robot.latitude) + distance <= Domain
<1> DEFINE config == scenario.localization.reckoning
           m == Motion(robot)
           distance == m * (1 + config.scale)
           d == NextEvent.at - robot.at
           tick == NextEvent.at
           far == Magnitude(robot.latitude)
           creep == Creep(pace, LastTick)
<1>1. /\ Reckons /\ scenario.localization.enabled /\ config.scale \in Nat /\ config.drift \in Int
      /\ robot.latitude \in Int /\ IsClose(robot.latitude, robot.at)
  BY DEF RobotOK, RobotStates, Reckons, Inv, ScenarioOK
<1>2. spread \in Nat /\ pace \in Nat /\ Tolerable(spread, pace)
  BY BoundIs
<1>3. m \in Nat /\ d \in Nat /\ tick \in Nat /\ robot.at \in Nat /\ m <= pace * d
  BY <1>2, MotionIs DEF Bound
<1>4. tick <= LastTick /\ LastTick \in Nat /\ d <= LastTick /\ robot.at + d = tick
  BY <1>3, DueByTheEnd
<1>5. distance \in Nat /\ distance + Creep(pace, robot.at) <= Creep(pace, tick)
      /\ Creep(pace, robot.at) \in Nat /\ Creep(pace, tick) \in Nat
  BY <1>1, <1>2, <1>3, <1>4, CreepGrows
<1>6. Creep(pace, tick) <= creep /\ creep \in Nat
  <2>1. /\ LastTick - tick \in Nat /\ tick + (LastTick - tick) = LastTick
        /\ 0 <= pace * (LastTick - tick)
    BY <1>2, <1>3, <1>4
  <2>2. LET none == 0 * (1 + scenario.localization.reckoning.scale)
        IN  /\ none \in Nat /\ Creep(pace, tick) \in Nat
            /\ Creep(pace, tick + (LastTick - tick)) \in Nat
            /\ none + Creep(pace, tick) <= Creep(pace, tick + (LastTick - tick))
    BY <1>1, <1>2, <1>3, <2>1, CreepGrows
  <2>. QED
    BY <1>3, <1>4, <2>1, <2>2
<1>7. PICK l \in Latitudes : far <= Magnitude(l) + spread + Creep(pace, robot.at)
  BY <1>1 DEF IsClose, Bound
<1>8. far \in Nat /\ Magnitude(l) \in Nat
  <2>1. l \in Int
    BY <1>1, LatitudesAre
  <2>. QED
    BY <1>1, <2>1 DEF Magnitude
<1> HIDE DEF m, d, tick, far
<1>9. creep <= MaxMotion /\ IsFinite((pace * LastTick) * config.drift)
      /\ (spread + creep > 0 => Magnitude(l) + spread + creep <= Domain)
  BY <1>1, <1>2 DEF Tolerable, Creep
<1>10. m <= pace * LastTick /\ pace * LastTick \in Nat
  <2>1. pace * d <= pace * LastTick /\ pace * d \in Nat /\ pace * LastTick \in Nat
    BY <1>2, <1>3, <1>4, ProductGrows
  <2>. QED
    BY <1>3, <2>1
<1>11. IsFinite(m * config.drift)
  BY <1>1, <1>3, <1>9, <1>10, MagnitudeGrows
<1> HIDE DEF creep, distance
<1>12. far + distance <= Magnitude(l) + spread + Creep(pace, tick)
  BY <1>2, <1>5, <1>7, <1>8
<1>13. distance # 0 => far + distance <= Domain
  BY <1>2, <1>5, <1>6, <1>8, <1>9, <1>12, GeodesyAssumption
<1>14. distance <= MaxMotion
  BY <1>5, <1>6, <1>9, GeodesyAssumption
<1>. QED
  BY <1>11, <1>12, <1>13, <1>14 DEF distance, m, far, tick

\* What odometry makes of an estimate; it throws only where it goes out of all reason.
LEMMA ReckonedIs ==
    ASSUME Inv, Due, NEW robot, RobotOK(robot), robot.at <= now,
           NEW latitude \in Reckoned(robot)
    PROVE  /\ latitude = Exception =>
                scenario.localization.enabled /\ ~LocalizationIsReasonable
           /\ latitude # Exception =>
                RobotOK(Advanced(robot, latitude)) /\ Advanced(robot, latitude).at <= NextEvent.at
<1> DEFINE tick == NextEvent.at
<1>1. /\ tick \in Nat /\ robot.at \in Nat /\ robot.at <= tick
      /\ robot \in RobotStates
  BY MotionIs DEF RobotOK
<1>2. ASSUME latitude \in Int \cup {Absent},
             latitude # Absent => Reckons /\ (LocalizationIsReasonable => IsClose(latitude, tick))
      PROVE  RobotOK(Advanced(robot, latitude)) /\ Advanced(robot, latitude).at <= tick
  <2>1. CASE ~Reckons
    BY <1>1, <2>1 DEF Advanced
  <2>2. CASE Reckons
    <3> DEFINE after == [robot EXCEPT !.at = tick, !.latitude = latitude]
    <3>1. /\ after \in RobotStates /\ after.at = tick /\ after.latitude = latitude
          /\ after.road = robot.road
      BY <1>1, <1>2 DEF RobotStates
    <3>2. Advanced(robot, latitude) = after
      BY <2>2 DEF Advanced
    <3> HIDE DEF after, tick
    <3>3. RobotOK(after)
      BY <1>2, <3>1 DEF RobotOK
    <3>. QED
      BY <1>1, <3>1, <3>2, <3>3
  <2>. QED
    BY <2>1, <2>2
<1>3. CASE robot.latitude = Absent
  <2>1. latitude = Absent
    BY <1>3 DEF Reckoned
  <2>. QED
    BY <1>2, <2>1, AbsentAssumption
<1>4. CASE robot.latitude # Absent
  <2> DEFINE config == scenario.localization.reckoning
             distance == Motion(robot) * (1 + config.scale)
  <2>1. /\ Reckons /\ scenario.localization.enabled /\ config.scale \in Nat
        /\ config.drift \in Int /\ robot.latitude \in Int
    BY <1>4 DEF RobotOK, RobotStates, Reckons, Inv, ScenarioOK
  <2>2. Motion(robot) \in Nat
    BY MotionIs
  <2>3. latitude \in Propagated(robot.latitude, Motion(robot), config,
                                robot.road # Absent => ~IsDrawn(robot.road))
    BY <1>4 DEF Reckoned
  <2>4. /\ \/ latitude = Exception
           \/ latitude \in Int /\ latitude # Exception
              /\ Magnitude(latitude) <= Magnitude(robot.latitude) + distance
        /\ latitude = Exception =>
             \/ distance > MaxMotion
             \/ ~IsFinite(Motion(robot) * config.drift)
             \/ distance # 0 /\ Magnitude(robot.latitude) + distance > Domain
    <3> DEFINE isStraight == robot.road # Absent => ~IsDrawn(robot.road)
    <3> HIDE DEF isStraight, config
    <3>. QED
      BY <2>1, <2>2, <2>3, PropagatedIs DEF isStraight
  <2>5. distance \in Nat /\ Magnitude(robot.latitude) \in Nat
    BY <2>1, <2>2 DEF Magnitude
  <2>6. ASSUME LocalizationIsReasonable, latitude = Exception
        PROVE  FALSE
    <3>1. PICK spread, pace : Bound(spread, pace)
      BY <2>6, BoundExists
    <3>2. /\ distance <= MaxMotion /\ IsFinite(Motion(robot) * config.drift)
          /\ distance # 0 => Magnitude(robot.latitude) + distance <= Domain
      BY <1>4, <2>6, <3>1, DriftIs
    <3> HIDE DEF distance
    <3>. QED
      BY <2>4, <2>5, <2>6, <3>2, GeodesyAssumption
  <2>7. ASSUME LocalizationIsReasonable, latitude # Exception
        PROVE  IsClose(latitude, tick)
    <3>1. SUFFICES ASSUME NEW spread \in Spreads, NEW pace \in Paces, Bound(spread, pace)
                   PROVE  \E l \in Latitudes :
                            Magnitude(latitude) <= Magnitude(l) + spread + Creep(pace, tick)
      BY DEF IsClose
    <3>2. PICK l \in Latitudes : Magnitude(robot.latitude) + distance
                                   <= Magnitude(l) + spread + Creep(pace, tick)
      BY <1>4, <2>7, <3>1, DriftIs
    <3>3. l \in Int /\ spread \in Nat /\ pace \in Nat
      BY <2>1, <2>7, <3>1, BoundIs, LatitudesAre
    <3>4. Magnitude(latitude) \in Nat /\ Magnitude(l) \in Nat
      BY <2>4, <2>7, <3>3 DEF Magnitude
    <3>5. Creep(pace, tick) \in Int
      BY <1>1, <2>1, <3>3 DEF Creep
    <3> HIDE DEF distance, tick
    <3>. QED
      BY <2>4, <2>5, <2>7, <3>2, <3>3, <3>4, <3>5
  <2>. QED
    BY <1>2, <2>1, <2>4, <2>6, <2>7
<1>. QED
  BY <1>3, <1>4

\* A truth that is found is on the map.
LEMMA FoundOnTheMap ==
    ASSUME Inv, scenario.localization.enabled, NEW robot, RobotOK(robot),
           NEW truth \in TruthPose(robot), truth # Exception
    PROVE  truth \in Latitudes
<1>1. CASE robot.road = Absent
  BY <1>1 DEF TruthPose, Latitudes, Range
<1>2. CASE robot.road # Absent /\ IsDrawn(robot.road)
  BY <1>2 DEF TruthPose, Latitudes, Range, IsDrawn
<1>3. CASE robot.road # Absent /\ ~IsDrawn(robot.road)
  BY <1>3 DEF TruthPose, Latitudes, Range, IsLocated
<1>. QED
  BY <1>1, <1>2, <1>3

(* What a receiver measures.  Within reason it does, and no further off    *)
(* the truth than a fix may be.                                            *)
LEMMA MeasuredIs ==
    ASSUME Inv, Due, scenario.localization.enabled, NEW model \in Models,
           NEW truth \in Latitudes, NEW fix \in Measured(model, truth), NEW at \in Nat
    PROVE  /\ fix # Exception => fix \in Int \cup {Absent}
           /\ LocalizationIsReasonable => fix # Exception
           /\ LocalizationIsReasonable /\ fix # Absent /\ Reckons => IsClose(fix, at)
<1> DEFINE b == MaxNoise * Sigma(model)
<1>1. truth \in Int /\ Magnitude(truth) <= Pole /\ truth # Exception /\ Magnitude(truth) \in Nat
  BY LatitudesAre DEF Magnitude
<1>2. Sigma(model) \in Int /\ TurnSigma(model) \in Int /\ b \in Int
  BY NumbersAre, GeodesyAssumption DEF HasNoises
<1>3. Noise(Sigma(model)) = (-b)..b
  BY DEF Noise
<1>4. \/ fix = Absent
      \/ fix = Exception /\ \E turn \in Noise(TurnSigma(model)) : ~IsFinite(turn)
      \/ \E east \in (-b)..b, north \in (-b)..b : fix = Displaced(truth, east, north)
  <2> HIDE DEF b
  <2>. QED
    BY <1>3 DEF Measured
<1>5. CASE fix = Absent
  BY <1>5, AbsentAssumption
<1>6. CASE fix = Exception /\ \E turn \in Noise(TurnSigma(model)) : ~IsFinite(turn)
  <2>1. PICK turn \in Noise(TurnSigma(model)) : ~IsFinite(turn)
    BY <1>6
  <2>2. ASSUME LocalizationIsReasonable PROVE FALSE
    <3> DEFINE c == MaxNoise * TurnSigma(model)
    <3>1. c \in Int /\ turn \in (-c)..c
      BY <1>2, <2>1, GeodesyAssumption DEF Noise
    <3>2. IsFinite(c)
      BY <2>2 DEF LocalizationIsReasonable
    <3> HIDE DEF c
    <3>. QED
      BY <2>1, <3>1, <3>2, GeodesyAssumption DEF IsFinite, Magnitude
  <2>. QED
    BY <1>6, <2>2
<1>7. CASE \E east \in (-b)..b, north \in (-b)..b : fix = Displaced(truth, east, north)
  <2>1. PICK east \in (-b)..b, north \in (-b)..b : fix = Displaced(truth, east, north)
    BY <1>7
  <2>2. fix = truth + north \/ fix = Exception
    BY <2>1 DEF Displaced
  <2>3. north \in Int
    BY <1>2
  <2>4. ASSUME LocalizationIsReasonable
        PROVE  fix \in Int /\ Magnitude(fix) <= Magnitude(truth) + b
    <3>1. PICK spread, pace : Bound(spread, pace)
      BY <2>4, BoundExists
    <3>2. spread \in Nat /\ pace \in Nat /\ Tolerable(spread, pace) /\ b \in 0..spread
      BY <2>4, <3>1, BoundIs
    <3>3. b > 0 => Magnitude(truth) + b <= Domain
      <4> DEFINE creep == IF Reckons THEN Creep(pace, LastTick) ELSE 0
      <4>1. creep \in Nat
        <5>1. Reckons => scenario.localization.reckoning.scale \in Nat
          BY DEF Reckons, Inv, ScenarioOK
        <5>2. pace * LastTick \in Nat
          BY <3>2, DueByTheEnd
        <5>. QED
          BY <5>1, <5>2 DEF Creep
      <4>2. spread + creep > 0 => Magnitude(truth) + spread + creep <= Domain
        BY <3>2 DEF Tolerable, Creep
      <4> HIDE DEF b, creep
      <4>. QED
        BY <1>1, <3>2, <4>1, <4>2, GeodesyAssumption
    <3> HIDE DEF b
    <3>. QED
      BY <1>1, <2>1, <3>2, <3>3, DisplacedIs
  <2>5. ASSUME LocalizationIsReasonable, Reckons
        PROVE  IsClose(fix, at)
    <3>1. SUFFICES ASSUME NEW spread \in Spreads, NEW pace \in Paces, Bound(spread, pace)
                   PROVE  \E l \in Latitudes :
                            Magnitude(fix) <= Magnitude(l) + spread + Creep(pace, at)
      BY DEF IsClose
    <3>2. spread \in Nat /\ pace \in Nat /\ b \in 0..spread
      BY <2>5, <3>1, BoundIs
    <3>3. Creep(pace, at) \in Nat
      <4>1. scenario.localization.reckoning.scale \in Nat
        BY <2>5 DEF Reckons, Inv, ScenarioOK
      <4>2. pace * at \in Nat
        BY <3>2
      <4>. QED
        BY <4>1, <4>2 DEF Creep
    <3>4. fix \in Int /\ Magnitude(fix) <= Magnitude(truth) + b
      BY <2>4, <2>5
    <3>5. Magnitude(fix) \in Nat
      BY <3>4 DEF Magnitude
    <3> HIDE DEF b
    <3>6. Magnitude(fix) <= Magnitude(truth) + spread + Creep(pace, at)
      BY <1>1, <3>2, <3>3, <3>4, <3>5
    <3>. QED
      BY <3>6
  <2>. QED
    BY <1>1, <2>2, <2>3, <2>4, <2>5, GeodesyAssumption
<1>. QED
  BY <1>4, <1>5, <1>6, <1>7

\* A step of the run that leaves a robot as it was, or as a robot may be.
LEMMA FleetBecomes ==
    ASSUME Inv, Due, now' = NextEvent.at, UNCHANGED <<geometry, scenario, file>>,
           DOMAIN fleet' = DOMAIN fleet,
           \A r \in Range(fleet') :
              r \in Range(fleet) \/ (RobotOK(r) /\ r.at <= NextEvent.at)
    PROVE  FleetOK'
<1>1. NextEvent.at >= now /\ NextEvent.at \in Nat /\ now \in Nat
  <2>1. NextEvent.at \in Tick /\ NextEvent.at >= now
    BY PoppedIs
  <2>2. now \in Tick
    BY DEF Inv, AgendaOK
  <2>. QED
    BY <2>1, <2>2 DEF Tick
<1>2. /\ DOMAIN fleet = DOMAIN scenario.robots
      /\ \A r \in Range(fleet) : RobotOK(r) /\ r.at <= now
  BY DEF Inv, FleetOK, Due
<1>3. \A r \in Range(fleet) : r.at \in Nat /\ r.at <= NextEvent.at
  BY <1>1, <1>2 DEF RobotOK, RobotStates
<1>4. \A r \in Range(fleet') : RobotOK(r) /\ r.at <= now'
  BY <1>2, <1>3
<1>5. \A r : RobotOK(r)' = RobotOK(r)
  BY LoadedStays
<1>6. \A r \in Range(fleet') : RobotOK(r)'
  BY <1>4, <1>5
<1>. QED
  BY <1>2, <1>4, <1>6 DEF FleetOK

\* In particular one that changes one robot.
LEMMA FleetAfter ==
    ASSUME Inv, Due, now' = NextEvent.at, UNCHANGED <<geometry, scenario, file>>,
           NEW i, NEW robot, RobotOK(robot), robot.at <= NextEvent.at,
           fleet' = [fleet EXCEPT ![i] = robot]
    PROVE  FleetOK'
BY FleetBecomes DEF Range

\* The robot whose chain's turn it is.
LEMMA RobotIs ==
    ASSUME Inv, Due, NextEvent.action \in {"advance", "sample"}
    PROVE  /\ NextEvent.action \notin Actions
           /\ NextEvent.robot \in DOMAIN scenario.robots
           /\ RobotOK(fleet[NextEvent.robot]) /\ fleet[NextEvent.robot].at <= now
           /\ NextEvent.action = "advance" => scenario.movement.enabled
           /\ NextEvent.action = "sample" => scenario.localization.enabled
<1>1. NextEvent.action \notin Actions
  BY DEF Actions
<1>2. NextEvent \in Links
  <2>1. NextEvent \in Schedule
    BY PoppedIs
  <2>. QED
    BY <1>1, <2>1, ScheduleIs
<1>3. fleet[NextEvent.robot] \in Range(fleet)
  BY <1>2 DEF Links, Inv, FleetOK, Due, Range
<1>. QED
  BY <1>1, <1>2, <1>3 DEF Links, Inv, FleetOK, Due

\* A chain that is left by an exception.
LEMMA ThrowKeeps ==
    ASSUME Inv, Due, NextEvent.action \notin Actions, now' = NextEvent.at, Throw,
           ~IsReasonable
    PROVE  Inv'
<1>1. /\ stage' = "threw" /\ agenda' = Tail(agenda)
      /\ UNCHANGED <<geometry, scenario, file, observed, executed>>
  BY DEF Throw
<1>2. FleetOK'
  BY <1>1 DEF FleetOK
<1>. QED
  BY <1>1, <1>2, ChainStepKeeps

\* A robot that has arrived.
LEMMA ArrivedIs ==
    ASSUME NEW robot, NEW latitude, RobotOK(Advanced(robot, latitude)), NextEvent.at \in Nat,
           Advanced(robot, latitude).at <= NextEvent.at
    PROVE  RobotOK(Arrived(robot, latitude)) /\ Arrived(robot, latitude).at <= NextEvent.at
BY DEF RobotOK, RobotStates, Arrived

\* One robot's turn.
LEMMA AdvanceKeeps ==
    ASSUME Inv, Advance
    PROVE  Inv'
<1> DEFINE i == NextEvent.robot
           robot == fleet[i]
           arrives == robot.road # Absent
<1>1. /\ Due /\ NextEvent.action = "advance" /\ now' = NextEvent.at
      /\ \E latitude \in Reckoned(robot) :
             \/ /\ \/ latitude = Exception
                   \/ arrives /\ scenario.localization.enabled /\ Exception \in TruthPose(robot)
                   \/ arrives /\ ~IsAtGoal(robot) /\ scenario.sensing /\ Undeliverable
                /\ Throw
             \/ /\ latitude # Exception
                /\ ~(arrives /\ scenario.localization.enabled /\ Exception \in TruthPose(robot))
                /\ \/ EndMission(Arrived(robot, latitude))
                   \/ Park(Arrived(robot, latitude))
                   \/ Depart(Arrived(robot, latitude))
  BY DEF Advance, Pop
<1>2. /\ NextEvent.action \notin Actions /\ i \in DOMAIN scenario.robots /\ RobotOK(robot)
      /\ robot.at <= now /\ scenario.movement.enabled
  BY <1>1, RobotIs
<1> HIDE DEF robot, i, arrives
<1>3. PICK latitude \in Reckoned(robot) :
             \/ /\ \/ latitude = Exception
                   \/ arrives /\ scenario.localization.enabled /\ Exception \in TruthPose(robot)
                   \/ arrives /\ ~IsAtGoal(robot) /\ scenario.sensing /\ Undeliverable
                /\ Throw
             \/ /\ latitude # Exception
                /\ ~(arrives /\ scenario.localization.enabled /\ Exception \in TruthPose(robot))
                /\ \/ EndMission(Arrived(robot, latitude))
                   \/ Park(Arrived(robot, latitude))
                   \/ Depart(Arrived(robot, latitude))
  BY <1>1
<1>4. CASE /\ Throw
           /\ \/ latitude = Exception
              \/ arrives /\ scenario.localization.enabled /\ Exception \in TruthPose(robot)
              \/ arrives /\ ~IsAtGoal(robot) /\ scenario.sensing /\ Undeliverable
  <2>1. CASE latitude = Exception
    <3>1. ~IsReasonable
      BY <1>1, <1>2, <2>1, ReckonedIs DEF IsReasonable
    <3>. QED
      BY <1>1, <1>2, <1>4, <3>1, ThrowKeeps
  <2>2. CASE scenario.localization.enabled /\ Exception \in TruthPose(robot)
    <3>1. ~IsReasonable
      BY <1>2, <2>2, TruthIs DEF IsReasonable
    <3>. QED
      BY <1>1, <1>2, <1>4, <3>1, ThrowKeeps
  <2>3. CASE Undeliverable
    <3>1. ~IsReasonable
      BY <1>1, <2>3, SendThrows
    <3>. QED
      BY <1>1, <1>2, <1>4, <3>1, ThrowKeeps
  <2>. QED
    BY <1>4, <2>1, <2>2, <2>3
<1>5. CASE /\ latitude # Exception
           /\ \/ EndMission(Arrived(robot, latitude))
              \/ Park(Arrived(robot, latitude))
              \/ Depart(Arrived(robot, latitude))
  <2> DEFINE r == Arrived(robot, latitude)
  <2>1. RobotOK(r) /\ r.at <= NextEvent.at
    <3>1. RobotOK(Advanced(robot, latitude)) /\ Advanced(robot, latitude).at <= NextEvent.at
      BY <1>1, <1>2, <1>5, ReckonedIs
    <3>2. NextEvent.at \in Nat
      BY <1>1, DueByTheEnd, PoppedIs DEF Tick
    <3>. QED
      BY <3>1, <3>2, ArrivedIs
  <2> HIDE DEF r
  <2>2. CASE EndMission(r)
    <3>1. /\ agenda' = Tail(agenda) /\ fleet' = [fleet EXCEPT ![i] = r]
          /\ UNCHANGED <<geometry, stage, scenario, file, observed, executed>>
          /\ stage = "running"
      BY <1>1, <2>2 DEF EndMission, i, Due
    <3>2. FleetOK'
      BY <1>1, <1>2, <2>1, <3>1, FleetAfter
    <3>. QED
      BY <1>1, <1>2, <3>1, <3>2, ChainStepKeeps
  <2>3. CASE Park(r)
    <3>1. /\ Reschedule(scenario.movement.retry) /\ fleet' = [fleet EXCEPT ![i] = r]
          /\ UNCHANGED <<geometry, scenario, file>>
      BY <2>3 DEF Park, Reschedule, i
    <3>2. FleetOK'
      BY <1>1, <1>2, <2>1, <3>1, FleetAfter
    <3>3. scenario.movement.retry \in Nat
      BY DEF Inv, ScenarioOK, Tick
    <3>4. IsReasonable => LastTick + scenario.movement.retry <= MaxTick
      BY <1>2 DEF IsReasonable, TicksAreReasonable
    <3>. QED
      BY <1>1, <1>2, <3>1, <3>2, <3>3, <3>4, RescheduleKeeps
  <2>4. CASE Depart(r)
    <3>1. PICK road \in Roads :
             IF Reckons /\ ~IsLocated(road)
             THEN Throw
             ELSE /\ Reschedule(TraversalTicks(road.cost))
                  /\ \E to \in road.ends \ {r.node} :
                       fleet' = [fleet EXCEPT ![NextEvent.robot] =
                                  [r EXCEPT !.road = road, !.node = to]]
      BY <2>4 DEF Depart
    <3>2. CASE Reckons /\ ~IsLocated(road)
      <4>1. scenario.localization.enabled
        BY <3>2 DEF Reckons, Inv, ScenarioOK
      <4>2. ~LocalizationIsReasonable
        BY <3>2, MapAssumption DEF LocalizationIsReasonable, IsLocated
      <4>3. ~IsReasonable
        BY <4>1, <4>2 DEF IsReasonable
      <4>. QED
        BY <1>1, <1>2, <3>1, <3>2, <4>3, ThrowKeeps
    <3>3. CASE ~(Reckons /\ ~IsLocated(road))
      <4>1. PICK to \in road.ends : fleet' = [fleet EXCEPT ![i] =
                                                [r EXCEPT !.road = road, !.node = to]]
        BY <3>1, <3>3 DEF i
      <4> DEFINE after == [r EXCEPT !.road = road, !.node = to]
      <4>2. to \in NodeNames /\ r \in RobotStates
        BY <2>1, MapAssumption DEF RobotOK
      <4>3. after \in RobotStates
        BY <4>2 DEF RobotStates
      <4>4. after.latitude = r.latitude /\ after.at = r.at
        BY <4>2 DEF RobotStates
      <4> HIDE DEF after
      <4>5. RobotOK(after) /\ after.at <= NextEvent.at
        BY <1>2, <2>1, <4>3, <4>4 DEF RobotOK
      <4>6. Reschedule(TraversalTicks(road.cost)) /\ UNCHANGED <<geometry, scenario, file>>
        BY <3>1, <3>3 DEF Reschedule
      <4>7. FleetOK'
        BY <1>1, <1>2, <4>1, <4>5, <4>6, FleetAfter DEF after
      <4>8. TraversalTicks(road.cost) \in Nat
        BY TraversalTakesTime
      <4>9. IsReasonable => LastTick + TraversalTicks(road.cost) <= MaxTick
        BY <1>2 DEF IsReasonable, TicksAreReasonable
      <4>. QED
        BY <1>1, <1>2, <4>6, <4>7, <4>8, <4>9, RescheduleKeeps
    <3>. QED
      BY <3>2, <3>3
  <2>. QED
    BY <1>5, <2>2, <2>3, <2>4 DEF r
<1>. QED
  BY <1>3, <1>4, <1>5

\* One sample of a robot's receiver.
LEMMA SampleKeeps ==
    ASSUME Inv, Sample
    PROVE  Inv'
<1> DEFINE i == NextEvent.robot
           robot == fleet[i]
           after(latitude, fix) == Advanced(robot, IF fix = Absent THEN latitude ELSE fix)
<1>1. PICK latitude \in Reckoned(robot), truth \in TruthPose(robot) :
        /\ Due /\ NextEvent.action = "sample" /\ now' = NextEvent.at
        /\ IF Exception \in {latitude, truth} THEN Throw
           ELSE \E fix \in Measured(robot.model, truth) :
                  IF fix = Exception THEN Throw
                  ELSE /\ Reschedule(scenario.localization.period)
                       /\ fleet' = [fleet EXCEPT ![i] = after(latitude, fix)]
  BY DEF Sample, Pop
<1>2. /\ NextEvent.action \notin Actions /\ i \in DOMAIN scenario.robots /\ RobotOK(robot)
      /\ robot.at <= now /\ scenario.localization.enabled
  BY <1>1, RobotIs
<1>3. /\ NextEvent.at \in Nat /\ robot.at \in Nat /\ robot.at <= NextEvent.at
      /\ robot.model \in Models /\ robot \in RobotStates
  <2>1. NextEvent.at \in Tick /\ NextEvent.at >= now /\ now \in Tick
    BY <1>1, PoppedIs DEF Inv, AgendaOK
  <2>2. robot.at \in Nat /\ robot.model \in Models /\ robot \in RobotStates
    BY <1>2 DEF RobotOK, RobotStates
  <2>. QED
    BY <1>2, <2>1, <2>2 DEF Tick
<1> HIDE DEF robot, i
<1>4. CASE latitude = Exception
  <2>1. ~IsReasonable
    BY <1>1, <1>2, <1>4, ReckonedIs DEF IsReasonable
  <2>. QED
    BY <1>1, <1>2, <1>4, <2>1, ThrowKeeps
<1>5. CASE truth = Exception
  <2>1. ~IsReasonable
    BY <1>2, <1>5, TruthIs DEF IsReasonable
  <2>. QED
    BY <1>1, <1>2, <1>5, <2>1, ThrowKeeps
<1>6. CASE latitude # Exception /\ truth # Exception
  <2>1. truth \in Latitudes
    BY <1>2, <1>6, FoundOnTheMap
  <2>2. PICK fix \in Measured(robot.model, truth) :
           IF fix = Exception THEN Throw
           ELSE /\ Reschedule(scenario.localization.period)
                /\ fleet' = [fleet EXCEPT ![i] = after(latitude, fix)]
    BY <1>1, <1>6
  <2>3. /\ fix # Exception => fix \in Int \cup {Absent}
        /\ LocalizationIsReasonable => fix # Exception
        /\ LocalizationIsReasonable /\ fix # Absent /\ Reckons => IsClose(fix, NextEvent.at)
    BY <1>1, <1>2, <1>3, <2>1, MeasuredIs
  <2>4. CASE fix = Exception
    <3>1. ~IsReasonable
      BY <1>2, <2>3, <2>4 DEF IsReasonable
    <3>. QED
      BY <1>1, <1>2, <2>2, <2>4, <3>1, ThrowKeeps
  <2>5. CASE fix # Exception
    <3> DEFINE r == after(latitude, fix)
    <3>1. RobotOK(Advanced(robot, latitude)) /\ Advanced(robot, latitude).at <= NextEvent.at
      BY <1>1, <1>2, <1>6, ReckonedIs
    <3>2. RobotOK(r) /\ r.at <= NextEvent.at
      <4>1. CASE fix = Absent \/ ~Reckons
        BY <1>2, <1>3, <3>1, <4>1 DEF Advanced
      <4>2. CASE fix # Absent /\ Reckons
        <5>1. r = [robot EXCEPT !.at = NextEvent.at, !.latitude = fix]
          BY <4>2 DEF Advanced
        <5>2. /\ r \in RobotStates /\ r.at = NextEvent.at /\ r.latitude = fix
              /\ r.road = robot.road
          BY <1>3, <2>3, <2>5, <5>1 DEF RobotStates
        <5> HIDE DEF r
        <5>3. LocalizationIsReasonable => IsClose(r.latitude, r.at)
          BY <2>3, <4>2, <5>2
        <5>. QED
          BY <1>2, <1>3, <4>2, <5>2, <5>3 DEF RobotOK
      <4>. QED
        BY <4>1, <4>2
    <3>3. /\ Reschedule(scenario.localization.period) /\ fleet' = [fleet EXCEPT ![i] = r]
          /\ UNCHANGED <<geometry, scenario, file>>
      BY <2>2, <2>5 DEF Reschedule
    <3> HIDE DEF r
    <3>4. FleetOK'
      BY <1>1, <1>2, <3>2, <3>3, FleetAfter
    <3>5. scenario.localization.period \in Nat
      BY DEF Inv, ScenarioOK, Tick
    <3>6. IsReasonable => LastTick + scenario.localization.period <= MaxTick
      BY <1>2 DEF IsReasonable, TicksAreReasonable
    <3>. QED
      BY <1>1, <1>2, <3>3, <3>4, <3>5, <3>6, RescheduleKeeps
  <2>. QED
    BY <2>4, <2>5
<1>. QED
  BY <1>4, <1>5, <1>6

(* An event of the script can only be refused for its model's noise: what  *)
(* was observed before was observed no later.                              *)
LEMMA ScriptApplies ==
    ASSUME Inv, Due, NextEvent.action \in Actions, ~Applicable(NextEvent)
    PROVE  ~IsReasonable
<1> DEFINE e == NextEvent
<1>1. e \in Schedule /\ e.at \in Tick /\ e.at >= now
  BY PoppedIs
<1>2. e \in Range(scenario.events) /\ Scripted(e)
  BY <1>1, ScheduleIs
<1>3. ASSUME NEW stream \in DOMAIN observed PROVE e.at >= observed[stream]
  <2>1. observed[stream] \in 0..now /\ now \in Tick
    BY DEF Inv, AgendaOK
  <2>. QED
    BY <1>1, <2>1 DEF Tick
<1> HIDE DEF e
<1>4. e.action = "set_gnss_model" /\ ~IsModel(e.model)
  BY <1>2, <1>3 DEF Applicable, Scripted, e
<1>5. e.model \in Models /\ scenario.localization.enabled
  BY <1>2, <1>4 DEF Models, Scripted
<1>. QED
  BY <1>4, <1>5 DEF IsReasonable, LocalizationIsReasonable

\* Executing an event of the script keeps to the order of the file.
LEMMA ExecutedGrows ==
    ASSUME Inv, Due, NextEvent.action \in Actions, agenda' = Tail(agenda),
           executed' = Append(executed, NextEvent.line),
           UNCHANGED <<geometry, scenario, file>>, stage' # "finished"
    PROVE  ExecutedOK'
<1> DEFINE e == NextEvent
           rest == Tail(agenda)
           n == Len(executed)
<1>1. stage = "running"
  BY DEF Due
<1>2. e \in Schedule /\ e \in Range(agenda)
  BY PoppedIs
<1>3. \A x \in Range(rest) : x \in Range(agenda) /\ x \in Schedule /\ <<e, x>> \in InTurn
  BY PoppedIs
<1>4. \A x \in Range(agenda) : x = e \/ x \in Range(rest)
  BY PoppedIs
<1>5. Scripted(e) /\ e.action \in Actions
  BY <1>2, ScheduleIs
<1>6. ASSUME NEW x \in Range(rest), x.action \in Actions
      PROVE  Before(e.line, x.line)
  <2>1. Scripted(x) /\ x.line \in Int
    BY <1>3, <1>6, ScheduleIs
  <2>2. Precedes(e, x)
    BY <1>3, <1>5, <1>6 DEF InTurn
  <2>. QED
    BY <1>5, <2>1, <2>2 DEF Precedes, Before, Scripted
<1>7. /\ executed \in Seq(DOMAIN file) /\ n \in Nat /\ DOMAIN executed = 1..n
      /\ \A p, q \in DOMAIN executed : p < q => Before(executed[p], executed[q])
      /\ \A p \in DOMAIN executed : \A x \in Range(agenda) :
            x.action \in Actions => Before(executed[p], x.line)
      /\ \A i \in DOMAIN file \ Range(executed) : Awaits(i)
  BY <1>1 DEF Inv, ExecutedOK
<1> DEFINE later == Append(executed, e.line)
<1>8. e.line \in DOMAIN file
  BY <1>5 DEF Scripted
<1> HIDE DEF e, rest, n
<1>9. /\ later \in Seq(DOMAIN file) /\ DOMAIN later = 1..(n + 1) /\ later[n + 1] = e.line
      /\ \A p \in 1..n : later[p] = executed[p]
  BY <1>7, <1>8 DEF n
<1> HIDE DEF later
<1>10. \A p \in 1..(n + 1) : p = n + 1 \/ p \in 1..n
  BY <1>7
<1>11. \A p, q \in DOMAIN later : p < q => Before(later[p], later[q])
  <2>1. SUFFICES ASSUME NEW p \in 1..(n + 1), NEW q \in 1..(n + 1), p < q
                 PROVE  Before(later[p], later[q])
    BY <1>9
  <2>2. p \in 1..n
    BY <1>7, <2>1
  <2>3. CASE q \in 1..n
    BY <1>7, <1>9, <2>1, <2>2, <2>3
  <2>4. CASE q = n + 1
    BY <1>2, <1>5, <1>7, <1>9, <2>2, <2>4
  <2>. QED
    BY <1>10, <2>3, <2>4
<1>12. ASSUME NEW p \in DOMAIN later, NEW x \in Range(rest), x.action \in Actions
       PROVE  Before(later[p], x.line)
  <2>1. CASE p = n + 1
    BY <1>6, <1>9, <1>12, <2>1
  <2>2. CASE p \in 1..n
    BY <1>3, <1>7, <1>9, <1>12, <2>2
  <2>. QED
    BY <1>9, <1>10, <2>1, <2>2
<1>13. ASSUME NEW i \in DOMAIN file \ Range(later)
       PROVE  \E x \in Range(rest) : x.action \in Actions /\ x.line = i
  <2>1. i \notin Range(executed) /\ i # e.line
    <3>1. \A p \in 1..n : p \in 1..(n + 1)
      BY <1>7
    <3>2. n + 1 \in 1..(n + 1)
      BY <1>7
    <3>. QED
      BY <1>7, <1>9, <3>1, <3>2 DEF Range
  <2>2. PICK x \in Range(agenda) : x.action \in Actions /\ x.line = i
    BY <1>7, <2>1 DEF Awaits
  <2>. QED
    BY <1>4, <2>1, <2>2
<1>14. \A i, j : Before(i, j)' = Before(i, j)
  BY LoadedStays
<1>15. executed' = later /\ agenda' = rest /\ file' = file
  BY DEF later, e, rest
<1>. QED
  BY <1>9, <1>11, <1>12, <1>13, <1>14, <1>15 DEF ExecutedOK, Awaits

\* An event of the script.
LEMMA ApplyKeeps ==
    ASSUME Inv, Apply
    PROVE  Inv'
<1> DEFINE e == NextEvent
           stream == <<e.robot, e.edge>>
<1>1. /\ Due /\ e.action \in Actions /\ now' = e.at
      /\ agenda' = Tail(agenda) /\ executed' = Append(executed, e.line)
      /\ \/ Applicable(e) /\ stage' = stage
         \/ Applicable(e) /\ Emits(e) /\ Undeliverable /\ stage' = "threw"
         \/ ~Applicable(e) /\ stage' = "threw"
      /\ observed' = IF Applicable(e) /\ e.action = "observe_edge"
                     THEN [s \in DOMAIN observed \cup {stream} |->
                             IF s = stream THEN e.at ELSE observed[s]]
                     ELSE observed
      /\ fleet' = IF Applicable(e) /\ e.action = "set_gnss_model"
                  THEN [fleet EXCEPT ![IndexOf(e.robot)].model = e.model] ELSE fleet
      /\ UNCHANGED <<geometry, scenario, file>>
  BY DEF Apply, Pop
<1>2. stage = "running"
  BY <1>1 DEF Due
<1>3. e.at \in Tick /\ e.at >= now
  BY <1>1, PoppedIs
<1>4. now \in Tick /\ \A s \in DOMAIN observed : observed[s] \in 0..now
  BY DEF Inv, AgendaOK
<1>5. stage' = "threw" => ~IsReasonable
  BY <1>1, <1>2, SendThrows, ScriptApplies
<1>6. ExecutedOK'
  BY <1>1, <1>2, ExecutedGrows
<1> HIDE DEF stream, e
<1>7. \A s \in DOMAIN observed' : observed'[s] \in 0..now'
  <2>1. \A s \in DOMAIN observed : observed[s] \in 0..e.at
    BY <1>3, <1>4 DEF Tick
  <2>2. e.at \in 0..e.at
    BY <1>3 DEF Tick
  <2>. QED
    BY <1>1, <2>1, <2>2
<1>8. AgendaOK'
  BY <1>1, <1>7, AgendaAfter DEF e
<1>9. FleetOK'
  <2>1. CASE fleet' = fleet
    BY <1>1, <2>1, FleetBecomes DEF e
  <2>2. CASE /\ e.action = "set_gnss_model"
             /\ fleet' = [fleet EXCEPT ![IndexOf(e.robot)].model = e.model]
    <3> DEFINE i == IndexOf(e.robot)
    <3>1. e \in Range(scenario.events)
      BY <1>1, PoppedIs, ScheduleIs DEF e
    <3>2. e.model \in Models
      BY <2>2, <3>1 DEF Models
    <3> HIDE DEF i
    <3>3. CASE i \in DOMAIN fleet
      <4> DEFINE robot == [fleet[i] EXCEPT !.model = e.model]
      <4>1. fleet' = [fleet EXCEPT ![i] = robot]
        BY <2>2 DEF i
      <4>2. RobotOK(fleet[i]) /\ fleet[i].at <= now
        BY <1>2, <3>3 DEF Inv, FleetOK, Range
      <4>3. /\ robot \in RobotStates /\ robot.at = fleet[i].at /\ robot.road = fleet[i].road
            /\ robot.latitude = fleet[i].latitude
        BY <3>2, <4>2 DEF RobotOK, RobotStates
      <4>4. robot.at <= e.at
        BY <1>3, <1>4, <4>2, <4>3 DEF Tick, RobotStates
      <4> HIDE DEF robot
      <4>5. RobotOK(robot)
        BY <4>2, <4>3 DEF RobotOK
      <4>. QED
        BY <1>1, <4>1, <4>4, <4>5, FleetAfter DEF e
    <3>4. CASE i \notin DOMAIN fleet
      <4>1. DOMAIN fleet' = DOMAIN fleet /\ \A j \in DOMAIN fleet' : fleet'[j] = fleet[j]
        BY <2>2, <3>4 DEF i
      <4>. QED
        BY <1>1, <4>1, FleetBecomes DEF e, Range
    <3>. QED
      BY <3>3, <3>4
  <2>. QED
    BY <1>1, <2>1, <2>2
<1>. QED
  BY <1>1, <1>2, <1>5, <1>6, <1>8, <1>9, RunKeeps

\* What is left in the agenda in the end is beyond the horizon.
LEMMA FinishKeeps ==
    ASSUME Inv, Finish
    PROVE  Inv'
<1>1. /\ stage = "running" /\ ~Due /\ stage' = "finished"
      /\ now' = IF scenario.duration = Absent THEN now ELSE scenario.duration
      /\ UNCHANGED <<geometry, scenario, file, agenda, fleet, observed, executed>>
  BY DEF Finish
<1>2. /\ now \in Tick /\ agenda \in Seq(Schedule) /\ InOrder(agenda) /\ AllPairs(agenda, InTurn)
      /\ \A e \in Range(agenda) : e.at >= now
      /\ \A stream \in DOMAIN observed : observed[stream] \in 0..now
  BY DEF Inv, AgendaOK
<1>3. \A e \in Range(agenda) : e \in Schedule /\ e.at \in Tick
  BY <1>2, ScheduleIs DEF Range
<1>4. scenario.duration \in Tick \cup {Absent}
  BY DEF Inv, ScenarioOK
<1>5. ASSUME NEW e \in Range(agenda)
      PROVE  scenario.duration # Absent /\ e.at > scenario.duration
  <2>1. /\ Len(agenda) \in Nat /\ DOMAIN agenda = 1..Len(agenda)
        /\ agenda # <<>> => Head(agenda) = agenda[1]
    BY <1>2
  <2>2. PICK i \in 1..Len(agenda) : e = agenda[i]
    BY <2>1 DEF Range
  <2>3. agenda # <<>> /\ 1 \in 1..Len(agenda) /\ i >= 1
    BY <2>1, <2>2
  <2>4. /\ scenario.duration # Absent /\ scenario.duration \in Tick
        /\ ~(agenda[1].at <= scenario.duration)
    BY <1>1, <1>4, <2>1, <2>3 DEF Due
  <2>5. agenda[1].at \in Tick /\ agenda[i].at \in Tick
    BY <1>3, <2>1, <2>2, <2>3 DEF Range
  <2>6. agenda[1].at <= agenda[i].at
    BY <1>2, <2>1, <2>2, <2>3, <2>5 DEF InOrder, Tick
  <2>. QED
    BY <2>2, <2>4, <2>5, <2>6 DEF Tick
<1>6. /\ now' \in Tick /\ now <= now'
      /\ scenario.duration # Absent => now' <= scenario.duration
      /\ \A e \in Range(agenda) : e.at >= now'
  <2>1. CASE scenario.duration = Absent
    BY <1>1, <1>2, <2>1 DEF Tick
  <2>2. CASE scenario.duration # Absent
    <3>1. now' = scenario.duration /\ scenario.duration \in Tick /\ now <= scenario.duration
      BY <1>1, <1>4, <2>2 DEF Inv, AgendaOK
    <3>2. \A e \in Range(agenda) : e.at >= scenario.duration
      BY <1>3, <1>5, <3>1 DEF Tick
    <3>. QED
      BY <1>2, <2>2, <3>1, <3>2 DEF Tick
  <2>. QED
    BY <2>1, <2>2
<1>7. AgendaOK'
  <2>1. \A stream \in DOMAIN observed : observed[stream] \in 0..now'
    BY <1>2, <1>6 DEF Tick
  <2>. QED
    BY <1>1, <1>2, <1>6, <2>1, LoadedStays DEF AgendaOK
<1>8. ExecutedOK'
  <2>1. /\ executed \in Seq(DOMAIN file)
        /\ \A p, q \in DOMAIN executed : p < q => Before(executed[p], executed[q])
        /\ \A p \in DOMAIN executed : \A e \in Range(agenda) :
              e.action \in Actions => Before(executed[p], e.line)
        /\ \A i \in DOMAIN file \ Range(executed) : Awaits(i)
    BY <1>1 DEF Inv, ExecutedOK
  <2>2. \A i, j : Before(i, j)' = Before(i, j)
    BY <1>1, LoadedStays
  <2>3. \A i : Awaits(i)' <=> Awaits(i)
    BY <1>1 DEF Awaits
  <2>. QED
    BY <1>1, <1>5, <2>1, <2>2, <2>3 DEF ExecutedOK
<1>. QED
  BY <1>1, <1>7, <1>8, RunKeeps DEF FleetOK

\* Every step keeps the invariant.
LEMMA StepKeeps ==
    ASSUME Inv, [Next]_vars
    PROVE  Inv'
<1>1. CASE Next
  BY <1>1, ParseNetworkKeeps, ParseMovementKeeps, ParseSensingKeeps,
     ParseLocalizationKeeps, ParseDurationKeeps, ParseStationKeeps, ParseRobotsKeeps,
     ParseEventsKeeps, ConstructKeeps, BeginKeeps, AdvanceKeeps, SampleKeeps,
     ApplyKeeps, FinishKeeps DEF Next
<1>2. CASE UNCHANGED vars
  <2>1. /\ UNCHANGED <<geometry, scenario, file>>
        /\ stage' = stage /\ agenda' = agenda /\ now' = now /\ observed' = observed
        /\ executed' = executed /\ fleet' = fleet
    BY <1>2 DEF vars
  <2>2. AgendaOK'
    BY <2>1, LoadedStays DEF Inv, AgendaOK
  <2>3. ExecutedOK'
    BY <2>1 DEF Inv, ExecutedOK, Awaits, Before
  <2>4. StageOK'
    BY <2>1, LoadedStays DEF Inv, StageOK
  <2>5. FleetOK'
    BY <2>1, LoadedStays DEF Inv, FleetOK
  <2>. QED
    BY <2>1, <2>2, <2>3, <2>4, <2>5, LoadedStays DEF Inv, ReasonableRunsDoNotThrow
<1>. QED
  BY <1>1, <1>2

\* The invariant holds throughout.
THEOREM InvariantHolds == Spec => []Inv
<1>1. Init => Inv
  BY FirstInv
<1>2. Inv /\ [Next]_vars => Inv'
  BY StepKeeps
<1>. QED
  BY <1>1, <1>2, PTL DEF Spec

(* Ids and endpoints fit their byte and ticks their width, from the        *)
(* document to the last event.                                             *)
THEOREM TypesHold == Spec => []TypeOK
<1>1. Inv => TypeOK
  <2>1. SUFFICES ASSUME Inv PROVE TypeOK
    OBVIOUS
  <2>2. \A e \in Range(agenda) : e.at \in Tick
    <3>1. \A e \in Range(agenda) : e \in Schedule
      BY <2>1 DEF Inv, AgendaOK, Range
    <3>. QED
      BY <2>1, <3>1, ScheduleIs
  <2>3. geometry \in Geometries /\ stage \in Stages /\ now \in Tick
    BY <2>1 DEF Inv, StageOK, AgendaOK
  <2>4. executed \in Seq(DOMAIN file)
    BY <2>1 DEF Inv, ExecutedOK
  <2>. QED
    BY <2>1, <2>2, <2>3, <2>4 DEF TypeOK, Inv, ScenarioOK
<1>. QED
  BY <1>1, InvariantHolds, PTL

(* Where ticks and localization are reasonable, nothing that the loader      *)
(* accepts is refused by the runner, the network, a robot or its             *)
(* localization afterwards: no estimate leaves the domain in a run.          *)
THEOREM AcceptedRunsDoNotThrow == Spec => []ReasonableRunsDoNotThrow
<1>1. Inv => ReasonableRunsDoNotThrow
  BY DEF Inv
<1>. QED
  BY <1>1, InvariantHolds, PTL

(* The events of a document run in the order of their ticks and of the file, *)
(* and of a run that comes to its end all have, up to its horizon.           *)
THEOREM FileOrderHolds == Spec => []ExecutesInFileOrder
<1>1. Inv => ExecutesInFileOrder
  <2>1. SUFFICES ASSUME Inv PROVE ExecutesInFileOrder
    OBVIOUS
  <2>2. \A p, q \in DOMAIN executed : p < q => Before(executed[p], executed[q])
    BY <2>1 DEF Inv, ExecutedOK
  <2>3. ASSUME NEW i \in DOMAIN file \ Range(executed), NEW p \in DOMAIN executed
        PROVE  Before(executed[p], i)
    <3>1. executed # <<>>
      OBVIOUS
    <3>2. Awaits(i)
      BY <2>1, <3>1 DEF Inv, ExecutedOK
    <3>. QED
      BY <2>1, <3>2 DEF Awaits, Inv, ExecutedOK
  <2>4. ASSUME stage = "finished", NEW i \in DOMAIN file \ Range(executed)
        PROVE  scenario.duration # Absent /\ file[i].at > scenario.duration
    <3>1. Awaits(i)
      BY <2>1, <2>4 DEF Inv, ExecutedOK
    <3>2. PICK e \in Range(agenda) : e.action \in Actions /\ e.line = i
      BY <3>1 DEF Awaits
    <3>3. e \in Schedule
      BY <2>1, <3>2 DEF Inv, AgendaOK, Range
    <3>4. e.at = file[i].at
      BY <2>1, <3>2, <3>3, ScheduleIs DEF Scripted
    <3>. QED
      BY <2>1, <2>4, <3>2, <3>4 DEF Inv, ExecutedOK
  <2>. QED
    BY <2>2, <2>3, <2>4 DEF ExecutesInFileOrder, Before
<1>. QED
  BY <1>1, InvariantHolds, PTL
=============================================================================
