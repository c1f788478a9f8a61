# fleet_sync_sim in TLA+

TLA+ modules, TLC runs and TLAPS proofs for the deterministic fleet simulator in
`src/`: robots with incomplete maps, a lossy network, a control station, movement,
sensing and localization on one event queue; the loader of its scenarios, the
importer of its maps and the console that drives it. Paths below are relative to the
repository.

## 1. Inventory

The program is single-threaded. Its concurrency is that of a discrete-event
simulation: handlers of one queue interleave, messages are delayed, lost,
duplicated and overtaken, and an operator may stop the run anywhere and inject
events. Nothing is persisted, so there is no crash recovery.

| component | state | operations | what makes it correct |
| --- | --- | --- | --- |
| event queue (`src/simulation/event_queue.cpp`) | clock, heap, order counter | `schedule`, `step`, `run_until`, `run_to_completion` | events run by tick, then posting order; each once; nothing overdue; horizons are exact, also after an effect threw |
| reconciler (`src/map/map_reconciler.cpp`, `dynamic_overlay.cpp`) | winner per edge, latest delta per source and edge | `reconcile` | the result does not depend on arrival order, duplication or re-offering; knowledge never rolls back |
| network (`src/network/network_simulator.cpp`) | down links, RNG | `send`, `set_link_state` | links matter at send time only; what is delivered was sent |
| robot (`src/robot/robot.cpp`) | streams, knowledge, route, position, transit | `observe`, `receive`, `resynchronize`, `begin_transit`, `complete_transit` | the route ahead is the best under the robot's own knowledge; one announcement brings others up to date |
| station (`src/station/control_station.cpp`) | knowledge | `receive` | agrees with the robots it heard |
| planner (`src/planning/a_star_planner.cpp`) | open list, g, parents | `plan` | terminates; optimal for admissible heuristics; ties resolved canonically |
| road graph, map view (`src/map/graph.cpp`, `map_view.cpp`) | immutable | queries | directions and blocks respected |
| world and sensing (`src/world/`) | truth per edge | `set_edge_state`, `observe` | what is sensed is believed at once |
| truth pose (`src/world/truth_pose.cpp`) | derived | `truth_pose` | continuous position, heading of travel kept at rest |
| odometry and estimate (`src/robot/odometry.cpp`, `src/localization/estimate_tracker.cpp`) | legs, last estimate, status | `propagate`, `apply_sample` | motion is reported once; the first fix after an outage restores the belief |
| GNSS models (`src/localization/gnss_model.cpp`) | configuration | `measure` | the model in force at the sample's tick |
| scenario loader (`src/scenario/scenario_loader.cpp`) | none | `load` | accepts only what runs; keeps file order |
| scenario runner (`src/scenario/scenario_runner.cpp`) | all of the above, chains | construction, `begin`, `run_until`, `inject`, event handlers | one chain per robot, nothing out of time, every driver call returns |
| interactive console (`apps/fleet_console/main.cpp`) | names of participants and edges | `run`, `until`, `finish`, `observe`, `world`, `link`, `resync` | stopping and typing anywhere breaks none of the runner's promises |
| base map and geometry (`src/map/graph.cpp`, `geometry.cpp`, `base_map.cpp`) | the graph and geometry being built | `add_node`, `connect`, `set_*`, construction | a graph without loops, parallel edges or costs of 0; polylines run from an edge's `a` to its `b` |
| OSM importer (`src/osm/osm_pbf_importer.cpp`) | ways, nodes wanted, coordinates, segments | `import` | distances and one-way streets of the file survive; the order of the file does not matter |
| GeoJSON export (`src/geojson/geojson_export.cpp`) | trajectory per robot | `write_trace_geojson` | the drawn line is the way driven |
| trace sinks, RNG, `fleet_sim` and `fleet_map_import` | - | - | not modelled, see section 8 |

Interactions. The loader makes a `Scenario`; the runner wires robots, network and
world to one queue. A robot's `observe` and `resynchronize` call its sink, which
sends to every other participant at once; the network draws loss, duplication and
latency at that moment and posts deliveries; a delivery calls `receive`, which
reconciles and may replan. Movement is a chain of events per robot (depart, arrive,
or park and retry), sampling another; truth changes and arrivals trigger sensing,
whose results enter through `observe`. The console and `fleet_sim` drive the runner
between events; the importer hands the loader a base map, and the export reads the
trace of a run.

What is hard is listed at its line in `PROJECT.json` under `hazards`: arrival order and stale
deltas, tie-breaks at equal ticks, cached routes, knowledge that arrives in transit,
the slicing of a traversal by samples, same-tick switches, exceptions out of
handlers, validation split over several components, in a run and in an import, and roads
that cross, touch and loop.

## 2. Modules

| module | models |
| --- | --- |
| `EventQueue`, `EventQueueProofs` | the queue and its three drivers; effects post and may throw; implements `SerialQueue` |
| `SerialQueue` | abstract: one order of execution, no clock and no drivers |
| `Agenda` | the same queue as the sequence in which it pops, for the composed models |
| `Reconciler` | a participant's knowledge and one `reconcile` call, as operators |
| `MapKnowledge` | abstract: a participant's belief is the best of a growing set of deltas |
| `Reconciliation`, `ReconciliationProofs` | robots, station and a transport that delivers any scheduled message at any later time, any number of times; implements `MapKnowledge` |
| `RoadGraph`, `Planner`, `PlannerProofs` | the graph, the best canonical route with no search in it, and A* one pop at a time |
| `FleetRun`, `FleetRunProofs` | the runner, with movement, sensing, network, station and the trajectory its trace draws; uses `Reconciler`, `RoadGraph`, `Agenda` |
| `OperatorLemmas` | what the operators of `Agenda` and `RoadGraph` return, preserve and bound, ranks in an order, and induction over numbers |
| `Console` | `FleetRun` under the console's commands, from names and node pairs to injected events and driver calls |
| `Localization`, `LocalizationProofs` | movement and sampling chains of one robot, GNSS switches, truth pose, estimate, odometry |
| `Geodesy` | where localization's arithmetic gives up, over one latitude: displacements, noise and propagation by dead reckoning, as operators |
| `ScenarioLoader`, `ScenarioLoaderProofs` | reading a document, the later checks of runner, network, robot and localization, execution to the end; uses `Agenda`, `Geodesy` |
| `BaseMap` | `Graph::Builder`, `MapGeometry::Builder` and `BaseMap`'s orientation contract, as operators |
| `OsmImport`, `OsmImportProofs` | the two passes, retained nodes, pieces, edges and every refusal; a second import of the same data reordered |
| `MC*` | the maps, scripts, documents, commands and extracts the runs use |

State and actions keep the source's names (`progression`, `downLinks` for
`down_links_`, `Resynchronize`, `SampleGnss`); `PROJECT.json` maps each definition
to its lines. Operators marked "Mutant of X" are plausible faults of X: no
specification uses them, and with one in X's place the property named in
`PROJECT.json` fails.

Abstractions throughout:

- doubles (costs, degrees, metres) are integers, so rounding and ties broken by it are out of reach;
- a random draw is a free choice. The code draws all from one stream, so one more send changes every later draw; no property depends on that;
- robots' ids are in declaration order, as in all shipped scenarios;
- a location of an imported node is a point of a grid and a length is counted along it;
- traces are left out, but for the departures that a trajectory is drawn from, and so are exception texts.

In particular `FleetRun` has no localization, and `Localization` no messages: they
meet only in the queue's order. `Localization` is on a grid of quarter turns with no
systematic error, and with one robot, since robots do not meet in it.
`Planner` relaxes the neighbours of a node at once, which is sound because the
graph has no parallel edges.

## 3. Runs

| run | bounds | shows |
| --- | --- | --- |
| `event_queue` | 6 events, ticks 0..2, up to 2 posts per effect | order, no loss or repetition, and horizons, including re-entrant posts and throwing effects; refinement of `SerialQueue`: what runs does not tell who drove |
| `arrival_order` | 2 robots and station, 1 edge, 3 observations at ticks 0..1 | who heard the same believes the same; the winner is the best heard; no rollback; re-offers change nothing |
| `announcement` | 2 observations, loss, a link to the station cut and restored | one announcement by every robot brings agreement; refinement of `MapKnowledge` |
| `same_tick_divergence` | as `arrival_order`, reopening allowed | finding 1 |
| `planner` | every cost to 3 on 4 nodes all joined, one-way and blocked edges; no heuristic, and every estimate to 3, inconsistent and inadmissible ones included | the result is a route whose cost is the sum of its edges, optimal if estimates are admissible, canonical where there is no heuristic, independent of blocks off it; no entry is pushed twice; the search ends |
| `fleet` | ring of 4 nodes and 5 edges, 2 robots; three scenarios: at one go with 3 truth changes, latency 0 or 2, loss and horizon 5; by hand in convoy with station, duplication and 2 injections among 11 commands, to tick 2; the same standing still, a robot named "station" | chains, route ahead, sensing, the trajectory, and that every driver call returns |
| `route_in_transit` | as the first scenario of `fleet`, one closure at once | finding 2 |
| `localization` | 2 traversals with bends, 1 injected switch, stops at ticks 3 and 7; dead reckoning sampled at each tick with switches at 1 and 3 over all models; a kept estimate sampled at every second tick with switches at 0, 2 and 4 | motion is reported once and whole; no handler throws; heading at rest; switch order; the end of an outage; the estimate is the last fix |
| `repeated_point` | a polyline ending in a repeated point | finding 3 |
| `loader` | every block right and wrong, latencies and cadences up to the largest tick, 4; up to 2 robots and 3 events, horizon 2; no geometry, a map of all positions near the equator and one near a pole with a position missing; noises that are negative, within bounds and overflow; dead reckoning within and beyond its domain by scale and by drift | what is accepted constructs, wires, runs in file order and ends, unless ticks or localization are unreasonable (section 7) |
| `event_noise` | robots at rest on the map of all positions, GNSS on, with a negative noise in a switch | finding 4 |
| `osm_import` | 15 roads in every pair, straight, bent, crossing, looping, closed and degenerate, both ways, one way and against; odd tags, missing nodes and locations; each again in every order of ways and either order of nodes; `Far` above every length | distances, one-way streets, acceptance by the builders, independence of order |

Why the bounds are enough. Three observations by two robots already hold every case
of `reconcile`: own and foreign sources, equal and different ticks, stale, duplicate,
dominated and applied, and a third participant to disagree with. The proofs remove
these bounds. The ring has several routes each way, one over a one-way edge, so a
block changes a route while another robot is in transit; routes of equal cost are
the subject of `planner`. In the scenario by hand both robots can be stuck at one node in one
tick: that is where a chain standing still would show, since the loop of a single
robot that changes nothing is a stutter to TLA+. Latencies 0 and 2 let a delta
overtake another by more than the length of an edge. Two switches and an injected
one are what an outage with a return needs. In `loader` the largest tick stands for
2^64-1: it is above the horizon, and a latency or a cadence of its size wraps. The pole,
the end of a displacement's domain, the longest motion and the largest double keep their
order, one below the other, and every limit is met and missed by some document.
Two roads are what a topology rule of the importer relates: a retained node, a pair
of ends used twice and the order of edges all are about two ways, or one that meets
itself, which the roads do.

`CHECK_DEADLOCK FALSE` is set for the planner, the loader and the importer: a search
ends, and a run or an import ends or is refused.

## 4. Fairness

- `Reconciliation`: weak fairness of `Deliver` only, because the queue executes everything scheduled. Observing, cutting links and announcing are not fair.
- `FleetRun`, `Console`: `KeepsRunning` says that while a driver call is on the stack its loop goes on, as one thread's loop does. The call popping an event or returning is always enabled, so this is weak fairness without `ENABLED`. Nobody need type a command.
- `Planner`, `ScenarioLoader`: weak fairness of `Next`, one thread's call.

## 5. Proofs

For all values of the constants satisfying the modules' assumptions:

- `EventQueueProofs`. Order of execution does not follow from itself: the invariant adds that everything queued comes after everything executed, that nothing queued is before the clock and that order numbers are used once. From it `ExecutionOrder` and `ClockMonotone`. `NoneLost` strengthens accounting by the fact that the order numbers given out are those of the queue and of what was executed. `HorizonsHonoured` and `DrivenIsSerial` are step by step from the invariant: every action of a driver is an execution of `SerialQueue`, a post, or a stutter.
- `ReconciliationProofs`. The invariant says that a participant's knowledge reflects the set of deltas it was offered (`Reflects`) and that each source's stream is consistent: one delta per sequence, ticks not decreasing. It gives `TypeCorrect`, `ReofferIsIdempotent`, `ProgressionIsExact`, `DeliveriesWellFormed` and `NeverRollsBack` without further assumptions. If no robot reports an edge Blocked and then Open at one tick (`~SameTickReopen`), streams ascend in the total order and `BestOf` becomes inductive: `BeliefIsBestHeard`, `Convergence`, `AnnouncementConverges` and the refinement `ReconciliationRefines`. The assumption is needed: finding 1 is its failure.
- `OsmImportProofs`. For every extract, in any order of its ways and nodes. `Expected` says of the sets in a file, without any order, what the import must give: the graph whose nodes are the retained ones and whose edges are the pieces between cuts, numbered by the ranks of `EdgeOrder`, or the failure called for. The invariant `Importing` says how much of it each stage has, and gives `ImportsAreExpected`, functional correctness. Two orders of a file have the same sets, so `ImportIsOrderFree` follows; what is expected passes every check of the builders and of `BaseMap`, so `BuildersNeverRefuse`, and it is a graph in the sense (`IsGraph`) that `Planner` and `FleetRun` assume of their maps. `RoutesAreRoads` compares two distance tables, over the edges of the map and over the steps from ref to ref of the file, both cut off at the constant `Far`; the theorem holds for every `Far`, so it is about all distances. A table that relaxes over every node is the largest function that is 0 at a node, satisfies the triangle inequality and exceeds no hop (`AreShortest`). An edge is as long as the steps along its piece, so the distances of the file exceed no edge. The other way round, the least of what is left from a ref to the next cut on its way plus the distance of that cut (`Reach`) exceeds no step of the file: either step stays within a piece, or it is at a node of the map, where ways meet.
- `PlannerProofs`. For every graph, view, pair of ends and heuristic that `plan()` accepts (`QueriesAssumption`: both ends are nodes, estimates finite and not negative, as the code asserts). `LInv` says what labels mean at every step: an open entry is never below its node's label, a node hangs below its parent over a hop that the label pays for, and a node expanded with its best label has told its neighbours. It gives `NothingPushedTwice`, that there are as many pushes as different entries: an entry is pushed when its node's label drops below all that was pushed for the node before, popped or still open. It also gives that the parents lead back to the start, and `ResultIsOptimal`: on a best route the first node still open is ahead of any goal entry that costs more. `LInv` is not enough for the cost: a label may improve after a child was reached over it, and then the child's label is more than the sum along the parents. `DInv` keeps for each label the nodes it was derived over; one of them that is open again is popped before the label, so at the goal none is open and the sum is exact (`ResultIsARoute`), for inadmissible estimates too, as `route.hpp:21` promises. `SInv`, without a heuristic: nodes are settled in the order of cost and id, for good, and hang below the first from which they are reached at their cost. Hence `ResultIsCanonical`, by comparing with any walk where the two part, seen from the goal, and `OffRouteBlocksChangeNothing`. Termination itself is fairness and stays with TLC; `SearchesRunDown` and `SearchesGoOn` prove what it rests on: what may be pushed is finite, no entry is popped twice, and a search that has not ended has a next step.
- `FleetRunProofs`. For every map that is a graph, fleet, scenario, and commands of the console, from the assumptions `SettingsAssumption` (a scenario names nodes and edges of its map and ids of its robots) and `CommandsAssumption` (a command is one the console parses). The invariant `IInv` has three parts beside types. `Good`: a robot's kept route is the canonical one from where it will next be free, under its own knowledge as reconciled so far. `OnTrail`: the trajectory is unbroken and ends where the robot is or heads. `ChainOK`: of the queued advance events a robot has the one its stage calls for, at the tick it calls for. The first is inductive because of two facts about canonical routes in `OperatorLemmas`: a block off a canonical route leaves it canonical (`OffRouteClosure`), so a robot need not replan for it; and what is left of a canonical route after its first hop is canonical (`RouteAfterAHop`), so driving on needs no search. The second rests on the tie-break of ADR-003, which prefers from the goal backwards. It gives `TypeOK`, `OneChainPerRobot`, `RouteAheadIsCurrent` and `TrajectoryIsDriven`.
- `FleetRunProofs`, second part. A second invariant, `HInv`, on top of the first: every delta known to anyone or under way was made by a robot at a tick not after now, with a sequence its robot has used; a robot holds at most one winner per edge. So a robot's fresh observation is not stale and no repetition, and only another's `Blocked` of the same tick can outrank it, which asserts the same or is what the robot believed already. A robot's own delta may come back to it through a resynchronization, which is why the invariant speaks of the robot's own knowledge and not of what it sent. It gives `SensedIsBelieved`, an action property.
- `LocalizationProofs`. For every itinerary, script, injections and stops (`TravelAssumption`: traversals take time and the bearing of two equal points is north, as `initial_bearing` computes it; `ScenarioAssumption`: a loaded scenario has a period and a retry). `CourseInv` is what the two chains rest on: one movement event at most is queued, the arrival of the traversal under way, and one sample, at the next multiple of the period, and no estimate is of a later tick than the last update. It gives `NothingThrows`, `BeliefIsTheFix` and, with the samples missed and the last fix tied to the record of samples, `OutagesAreReported`. `RigidInv` says how dead reckoning keeps its error: the robot believes to be where the last fix's error, turned with it, would carry it, and its heading of motion is the one it truly had at the last update. That needs motion along a polyline to be counted whole and once however updates split it: an update adds just the parts of legs between the points of the tick before and of this one (`LegCarries`, `UnderwayIs`). Hence `RestFacesTravel` and `BeliefStaysRigid`, if no polyline ends in a repeated point (`NoRepeatedEnd`); the run `localization` satisfies this, and finding 3 is its failure. `SwitchInv` is about the agenda: of every tick to come, the model in force and the switches still queued foresee the model the script sets, and no switch is behind a sample of its tick. With it `LoadedSwitchesRule`, by induction over what `begin` schedules and then over the steps.
- `ScenarioLoaderProofs`. For every map and document (`ArraysAssumption`: robots and events are arrays; `BoundsAssumption` and `GeodesyAssumption` on widths and limits; `MapAssumption`: roads join nodes of the map, at a cost). `Inv` carries what the loader checked to the step that relies on it: what is known of the scenario grows with the stage (`StageOK`), every loaded event is of its own place in the file and they are sorted (`EventsOK`), in the agenda two events of the script stay in that order whatever the chains put between them (`AgendaOK`), and an event of the file is either executed or in the agenda, after all that are executed (`ExecutedOK`). `FleetOK` is about localization: a robot's estimate is off some latitude of the map by no more than the largest noise and what the fastest robot, by its odometry, can have driven up to the tick of the estimate. A fix establishes it anew, and a motion since the last one adds no more than the time in between allows (`DriftIs`); so what `IsReasonable` asks at the horizon keeps every estimate within the domain before. For the order of events it rests on one lemma, that enqueuing keeps every relation between the earlier and the later that an event's tick cannot break (`EnqueuePairs`). It gives `TypeOK`, `ExecutesInFileOrder` and `ReasonableRunsDoNotThrow`: a step that throws contradicts a part of `Inv` or of `IsReasonable`: an arrival or a sample that throws has a truth off the map (`TruthIs`), a measurement (`MeasuredIs`) or a motion (`ReckonedIs`) out of bounds. For the overflow of ticks it is needed that nothing later than `LastTick` is popped, and without a horizon that no chain is enabled.
- `OperatorLemmas`. The provers have no induction over data, but a set of naturals that is not empty has a least element. So an induction is by a least counterexample (`Ind`), and a function defined by recursion exists because one up to `n` does for every `n` (`Recursion`). With these: pushing into an agenda keeps it sorted and adds just what is pushed, costs along a walk add up, the walks of a graph are finitely many and of two the preferred is determined, so the canonical one exists and is unique. Elements of a finite set under an order have ranks that number them from one, which is what sorting by that order gives (`RanksNumber`).

TLC finds `IInv` and `HInv` invariant on the instance of `fleet`, and `Inv` on that of
`loader`, too. Every invariant and every action property of the passing runs is
stated by a theorem, some under the assumptions named above. Model-checked only are
the four liveness properties, `AnnouncementLeadsToAgreement`, `Terminates`,
`EveryCallReturns` and `AcceptedRunsFinish`: fairness and `ENABLED` are outside the
provers.

## 6. Findings

1. `same_tick_divergence`: a source's own newer sequence replaces the winner without the total order of ADR-004; after Blocked and Open by one robot in one tick, participants who heard the same deltas disagree on whether the edge is blocked.
2. `route_in_transit`: a robot in transit keeps the edge it is on in its route until it replans, against ADR-010.
3. `repeated_point`: a polyline ending in a repeated point leaves the robot facing north, against ADR-018. Odometry skips such a segment, so belief and truth differ. The importer makes such polylines of two nodes of a way at one place.
4. `event_noise`: a negative noise in a model switch passes the loader and throws in the middle of the run, against "validates the whole description up front".

## 7. Reading the properties

`RouteAheadIsCurrent` speaks of the route from where the robot will next be free to
choose, so finding 2 does not touch it. `SensedIsBelieved` speaks of the moment of
sensing: where a fresh observation is suppressed because the belief already matches,
nothing is recorded, and an older opposite one still under way may override it
later. Nothing in the code or ADR-011 promises otherwise. In `Localization`, scripted
switches precede the samples of their tick; injected ones come after those already
queued, so `LoadedSwitchesComeFirst` is about runs without injections.

`ReasonableRunsDoNotThrow` names in `IsReasonable` what a document or its map may get
wrong without the loader noticing, and what then may throw in the middle of a run:

- Ticks. `now + retry_ms`, `now + period` and the end of a traversal are unchecked 64-bit
  sums, and a latency near 2^64 makes `send` throw, or the network's constructor in `begin`.
- Noise. It is negative, which the constructor of the model refuses; or so large that the
  noise of a heading is not finite, or that a fix would cross a pole or go east beyond 89
  degrees (`apply_en_displacement`).
- Dead reckoning. Scale and drift are checked one by one when read, but `propagate` refuses
  a motion of more than 1000 km or a drift that is not finite, and an estimate may drift
  to where it cannot be displaced any more. `IsReasonable` bounds both by the fastest
  road, the scale and the horizon.
- The map. A node without a position has no truth pose, and a road from it no length.

These are sufficient bounds: a run beyond them may still be lucky, so the property does
not say that each of them throws. `Geodesy` keeps only the latitude, in whole metres: a
displacement of the code may throw for its latitude alone, and how far north a heading
takes an estimate is a choice up to the whole distance. Rounding of doubles is left out.
`LoadedRunsDoNotThrow` is the loader's own claim, which finding 4 refutes.

`DriversAddNothing` is what stepping by hand relies on: without injections, a run
stopped anywhere executes the same events in the same order, and effects draw their
random numbers as they execute. A sink that throws in the middle of an observation
leaves it sent to some; to the others that is a message lost, which the runs have at
every send. `RoutesAreRoads` compares distances between retained nodes with those of
the file, computed from ref to ref; a file that the importer refuses has none.
In `ImportIsOrderFree`, which of several offenders a failed pass names is left open,
as the code takes the first it meets.

## 8. Plan

Done, in order of importance: queue with its abstraction, reconciliation and its
proofs, planner, the composed run, localization, loader, importer and base map, console.
Next:

1. A network module with the order in which draws are made from the shared stream.
2. Localization with systematic error on the grid, and several robots' own random streams.

Not modelled: trace sinks and the export of maps (formatting), the RNG's bit
arithmetic and the noise's distribution, decoding of PBF and JSON, the whitelist's
words and the sphere's geometry, argument parsing; `fleet_sim` types the console's
`finish`, and `fleet_map_import` calls `import` and writes the map.
