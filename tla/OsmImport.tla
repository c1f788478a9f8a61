----------------------------- MODULE OsmImport ------------------------------
(***************************************************************************)
(* fleet::osm::OsmPbfImporter::import: an extract is read twice, first its *)
(* ways and then the nodes they need; the ways are cut where they meet,    *)
(* and the pieces become the edges of a base map.  A second import of the  *)
(* same data, in another order, follows the first.                         *)
(*                                                                         *)
(* Locations are points of a grid, and the length of a line is counted     *)
(* along the grid instead of on the earth.  Ways and nodes have ids of     *)
(* their own, as in OSM.  The statistics are left out.                     *)
(***************************************************************************)
EXTENDS BaseMap

CONSTANTS
    Files,       \* the extracts looked at, records of the sequences
                 \*   ways:  [id, highway, refs, oneway, roundabout]
                 \*   nodes: [id, location]
    Far          \* the bound on the distances compared: nodes that are not
                 \* joined are this far apart

Highways == {"whitelisted", "other", "absent"}
Oneways  == {"absent", "no", "yes", "-1", "other"}
Nowhere  == <<>>   \* the location of a node that has none

Way  == [id : Int, highway : Highways, refs : Seq(Int), oneway : Oneways,
         roundabout : BOOLEAN]
Node == [id : Int, location : (Int \X Int) \cup {Nowhere}]

ASSUME FilesAssumption ==
    \A f \in Files :
        /\ f.ways \in Seq(Way) /\ f.nodes \in Seq(Node)
        /\ \A i, j \in DOMAIN f.ways : f.ways[i].id = f.ways[j].id => i = j
        /\ \A i, j \in DOMAIN f.nodes : f.nodes[i].id = f.nodes[j].id => i = j

ASSUME FarAssumption == Far \in Nat

VARIABLES
    file,          \* the extract, as the reader hands it out
    stage,         \* of import(): "ways", "nodes", "edges", "done"
    position,      \* in the pass under way
    eligible,      \* WayCollector::eligible_
    wanted,        \* NodeCollector::wanted
    coordinates,   \* NodeCollector::coordinates
    segments,      \* the pieces of the ways, in the order of their edges
    graph,         \* the Graph::Builder
    outcome,       \* what import() returned or threw
    earlier        \* the outcome of the import before this one

vars == <<file, stage, position, eligible, wanted, coordinates, segments,
          graph, outcome, earlier>>

Pending == [kind |-> "pending"]

Built(G, M) == [kind |-> "map", graph |-> G, geometry |-> M]

\* import() starts on a file.
Init ==
    /\ file \in Files
    /\ stage = "ways" /\ position = 1 /\ eligible = <<>> /\ wanted = {}
    /\ coordinates = <<>> /\ segments = <<>> /\ graph = EmptyGraph(0)
    /\ outcome = Pending /\ earlier = Pending

\* An exception leaves import(); "named" is what its message names.
Throw(kind, named) ==
    /\ stage' = "done"
    /\ outcome' = [kind |-> kind, named |-> named]

-----------------------------------------------------------------------------
(* Pass 1: the ways.                                                       *)

IsEligible(way) == way.highway = "whitelisted" /\ Len(way.refs) >= 2

\* parse_oneway knows which way the traffic goes.
HasDirection(way) ==
    IF way.oneway = "absent" THEN ~way.roundabout ELSE way.oneway # "other"

\* Along which way of its refs a way may be travelled.
PolicyOf(way) == [forward |-> way.oneway # "-1", reverse |-> way.oneway # "yes"]

ReadWay ==
    /\ stage = "ways" /\ position <= Len(file.ways)
    /\ LET way == file.ways[position]
       IN  \/ /\ ~IsEligible(way)
              /\ UNCHANGED <<eligible, stage, outcome>>
           \/ /\ IsEligible(way) /\ HasDirection(way)
              /\ eligible' = Append(eligible, way)
              /\ UNCHANGED <<stage, outcome>>
           \/ /\ IsEligible(way) /\ ~HasDirection(way)
              /\ Throw("way", way.id)
              /\ UNCHANGED eligible
    /\ position' = position + 1
    /\ UNCHANGED <<file, wanted, coordinates, segments, graph, earlier>>

\* The eligible ways, whose ids are distinct, and the nodes they refer to.
Ways == ToSet(eligible)

References(W) == UNION {ToSet(way.refs) : way \in W}

EndWays ==
    /\ stage = "ways" /\ position > Len(file.ways)
    /\ stage' = "nodes" /\ position' = 1
    /\ wanted' = References(Ways)
    /\ UNCHANGED <<file, eligible, coordinates, segments, graph, outcome, earlier>>

-----------------------------------------------------------------------------
(* Pass 2: the nodes.                                                      *)

ReadNode ==
    /\ stage = "nodes" /\ position <= Len(file.nodes)
    /\ LET node == file.nodes[position]
       IN  \/ /\ node.id \notin wanted
              /\ UNCHANGED <<wanted, coordinates, stage, outcome>>
           \/ /\ node.id \in wanted
              /\ wanted' = wanted \ {node.id}
              /\ IF node.location = Nowhere
                 THEN Throw("node", node.id) /\ UNCHANGED coordinates
                 ELSE /\ coordinates' = [n \in DOMAIN coordinates \cup {node.id} |->
                           IF n = node.id THEN node.location ELSE coordinates[n]]
                      /\ UNCHANGED <<stage, outcome>>
    /\ position' = position + 1
    /\ UNCHANGED <<file, eligible, segments, graph, earlier>>

\* The set is unordered: any missing node may be the one named.
MissNode ==
    /\ stage = "nodes" /\ position > Len(file.nodes)
    /\ \E missing \in wanted : Throw("missing", missing)
    /\ UNCHANGED <<file, position, eligible, wanted, coordinates, segments,
                   graph, earlier>>

-----------------------------------------------------------------------------
(* The topology, of the ways W and the locations at.                       *)

\* Mutant of IsRetained: only the ends of ways are nodes.
IsWayEnd(W, n) == \E way \in W : n \in {Head(way.refs), Last(way.refs)}

\* A way ends at n, or the ways refer to it twice at least.
IsRetained(W, n) ==
    \/ \E way \in W : n \in {Head(way.refs), Last(way.refs)}
    \/ \E v, w \in W : \E i \in DOMAIN v.refs, j \in DOMAIN w.refs :
         v.refs[i] = n /\ w.refs[j] = n /\ <<v.id, i>> # <<w.id, j>>

Retained(W) == {n \in References(W) : IsRetained(W, n)}

\* NodeIds follow the OSM ids.
NodeId(W, n) == Cardinality({m \in Retained(W) : m < n})

\* Mutant of Points: a road is drawn the way it is driven.
PointsDriven(at, way, first, last) ==
    LET points == [i \in 1..(last - first + 1) |-> at[way.refs[first + i - 1]]]
    IN  IF PolicyOf(way).forward THEN points ELSE Reverse(points)

\* The locations of the refs from the first to the last, in the way's order.
Points(at, way, first, last) ==
    [i \in 1..(last - first + 1) |-> at[way.refs[first + i - 1]]]

\* A way is cut at every retained node on it: the places of its cuts, and
\* those of each two that follow each other.
Cuts(W, way) == {i \in DOMAIN way.refs : IsRetained(W, way.refs[i])}

Spans(W, way) ==
    {p \in Cuts(W, way) \X Cuts(W, way) :
        p[1] < p[2] /\ \A i \in Cuts(W, way) : i <= p[1] \/ p[2] <= i}

Piece(W, at, way, p) ==
    [way_id |-> way.id,
     segment_index |-> Cardinality({i \in Cuts(W, way) : i < p[1]}),
     from |-> NodeId(W, way.refs[p[1]]), to |-> NodeId(W, way.refs[p[2]]),
     points |-> Points(at, way, p[1], p[2]), direction |-> PolicyOf(way)]

Pieces(W, at) ==
    UNION {{Piece(W, at, way, p) : p \in Spans(W, way)} : way \in W}

\* Mutant of Precedes: edges are numbered as the ways are read.
ReadBefore(s, t) ==
    LET Place(id) == CHOOSE w \in DOMAIN eligible : eligible[w].id = id
    IN  \/ Place(s.way_id) < Place(t.way_id)
        \/ s.way_id = t.way_id /\ s.segment_index < t.segment_index

Precedes(s, t) == \/ s.way_id < t.way_id
                  \/ s.way_id = t.way_id /\ s.segment_index < t.segment_index

\* The segments, sorted: each comes at the place its predecessors leave it.
EdgeOrder(S) ==
    [k \in 1..Cardinality(S) |->
       CHOOSE s \in S : Cardinality({t \in S : Precedes(t, s)}) = k - 1]

Split ==
    /\ stage = "nodes" /\ position > Len(file.nodes) /\ wanted = {}
    /\ stage' = "edges" /\ position' = 1
    /\ segments' = EdgeOrder(Pieces(Ways, coordinates))
    /\ graph' = EmptyGraph(Cardinality(Retained(Ways)))
    /\ UNCHANGED <<file, eligible, wanted, coordinates, outcome, earlier>>

\* polyline_length_meters.
Abs(n) == IF n < 0 THEN -n ELSE n

LengthOf(points) ==
    LET Step(i) == Abs(points[i + 1][1] - points[i][1])
                   + Abs(points[i + 1][2] - points[i][2])
        upto[i \in 0..(Len(points) - 1)] ==
          IF i = 0 THEN 0 ELSE upto[i - 1] + Step(i)
    IN  upto[Len(points) - 1]

DirectionOf(policy) ==
    IF policy.forward /\ policy.reverse THEN "Bidirectional"
    ELSE IF policy.forward THEN "Forward" ELSE "Reverse"

Name(s) == <<s.way_id, s.segment_index>>

(* One segment is checked and becomes an edge.  connected_by holds the     *)
(* segments before it, whose positions are their edges' ids.               *)
Connect ==
    /\ stage = "edges" /\ position <= Len(segments)
    /\ LET s    == segments[position]
           cost == LengthOf(s.points)
           used == {e \in EdgeIds(graph) : Ends(graph, e) = {s.from, s.to}}
       IN  \/ s.from = s.to /\ Throw("closed", Name(s)) /\ UNCHANGED graph
           \/ /\ s.from # s.to /\ cost <= 0
              /\ Throw("length", Name(s)) /\ UNCHANGED graph
           \/ /\ s.from # s.to /\ cost > 0
              /\ \E e \in used : Throw("pair", <<Name(segments[e]), Name(s)>>)
              /\ UNCHANGED graph
           \/ /\ s.from # s.to /\ cost > 0 /\ used = {}
              /\ IF ConnectAccepts(graph, s.from, s.to, cost)
                 THEN /\ graph' = Connected(graph, s.from, s.to, cost,
                                            DirectionOf(s.direction))
                      /\ UNCHANGED <<stage, outcome>>
                 ELSE Throw("builder", Name(s)) /\ UNCHANGED graph
    /\ position' = position + 1
    /\ UNCHANGED <<file, eligible, wanted, coordinates, segments, earlier>>

\* Canonical coordinates for every node, a polyline for every edge.
GeometryOf ==
    Geometry(Cardinality(graph.nodes), Len(graph.ends),
             [v \in graph.nodes |->
                coordinates[CHOOSE n \in Retained(Ways) : NodeId(Ways, n) = v]],
             [e \in EdgeIds(graph) |-> segments[e].points])

Finish ==
    /\ stage = "edges" /\ position > Len(segments)
    /\ IF GeometryAccepts(GeometryOf) /\ BaseMapAccepts(graph, GeometryOf)
       THEN stage' = "done" /\ outcome' = Built(graph, GeometryOf)
       ELSE Throw("builder", <<>>)
    /\ UNCHANGED <<file, position, eligible, wanted, coordinates, segments,
                   graph, earlier>>

\* The same ways and nodes, in any order.
Reordered(f) ==
    [ways  : {[i \in DOMAIN f.ways |-> f.ways[p[i]]] :
                p \in {p \in [DOMAIN f.ways -> DOMAIN f.ways] :
                         \A i, j \in DOMAIN p : p[i] = p[j] => i = j}},
     nodes : {f.nodes, Reverse(f.nodes)}]

ImportAgain ==
    /\ stage = "done" /\ earlier = Pending
    /\ earlier' = outcome
    /\ file' \in Reordered(file)
    /\ stage' = "ways" /\ position' = 1 /\ eligible' = <<>> /\ wanted' = {}
    /\ coordinates' = <<>> /\ segments' = <<>> /\ graph' = EmptyGraph(0)
    /\ outcome' = Pending

Next == \/ ReadWay \/ EndWays
        \/ ReadNode \/ MissNode
        \/ Split \/ Connect \/ Finish
        \/ ImportAgain

Spec == Init /\ [][Next]_vars

-----------------------------------------------------------------------------
(* The checks that come last find nothing: what the importer asks of       *)
(* Graph::Builder, MapGeometry::Builder and BaseMap is what they accept,   *)
(* and so what planning assumes of a graph holds of an imported one.       *)
BuildersNeverRefuse ==
    /\ outcome.kind # "builder"
    /\ outcome.kind = "map" => IsGraph(outcome.graph)

(* Shortest distances between the nodes V, where len is the length of a    *)
(* direct hop, or Far.                                                     *)
Distances(V, len) ==
    LET Via(k, d) == [p \in V \X V |->
                        Min({d[p], d[<<p[1], k>>] + d[<<k, p[2]>>]})]
    IN  FoldSet(Via, len, V)

\* Hop(u, v) is the set of the lengths of direct hops from u to v.
HopLengths(V, Hop(_, _)) ==
    [p \in V \X V |-> IF p[1] = p[2] THEN 0 ELSE Min({Far} \cup Hop(p[1], p[2]))]

\* From ref to ref along the file's roads, whatever becomes of them.
RoadHop(u, v) ==
    LET Joins(way, m, n) == \E i \in 1..(Len(way.refs) - 1) :
                                <<m, n>> = <<way.refs[i], way.refs[i + 1]>>
        Leads(way) == \/ PolicyOf(way).forward /\ Joins(way, u, v)
                      \/ PolicyOf(way).reverse /\ Joins(way, v, u)
    IN  {LengthOf(<<coordinates[u], coordinates[v]>>) :
           w \in {w \in DOMAIN eligible : Leads(eligible[w])}}

EdgeHop(u, v) ==
    {outcome.graph.cost[e] : e \in {e \in EdgeIds(outcome.graph) :
        Neighbor(outcome.graph, e, u) = v /\ TraversableFrom(outcome.graph, {}, e, u)
        /\ v \in Ends(outcome.graph, e)}}

(* A way through the imported map is a way along the roads, as long and as *)
(* one-way as they are, and none is lost: distances between the retained   *)
(* nodes are those of the file, bends, crossings and loops included.       *)
RoutesAreRoads ==
    outcome.kind = "map" =>
        LET roads == Distances(References(Ways), HopLengths(References(Ways), RoadHop))
            V     == outcome.graph.nodes
            edges == Distances(V, HopLengths(V, EdgeHop))
        IN  \A u, v \in Retained(Ways) :
                edges[<<NodeId(Ways, u), NodeId(Ways, v)>>] = roads[<<u, v>>]

(* What is imported does not depend on the order of the file (ADR-014):    *)
(* the maps are the same, ids included, or both imports fail, and a        *)
(* failure of the topology names the same segments.  Which offender is     *)
(* named in the passes does depend on it.                                  *)
Verdict(o) ==
    IF o.kind \in {"way", "node", "missing"} THEN [o EXCEPT !.named = 0] ELSE o

ImportIsOrderFree ==
    stage = "done" /\ earlier # Pending => Verdict(outcome) = Verdict(earlier)
=============================================================================
