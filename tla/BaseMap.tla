------------------------------ MODULE BaseMap -------------------------------
(***************************************************************************)
(* How a base map comes into being: Graph::Builder, MapGeometry::Builder   *)
(* and the checks of BaseMap's constructor, as operators.  Geometry is a   *)
(* record of the counts it was sized for, the positions of some nodes and  *)
(* the polylines of some edges; EdgeIds start at 1, as in RoadGraph.       *)
(***************************************************************************)
EXTENDS RoadGraph, SequencesExt

\* Graph::Builder after n calls of add_node.
EmptyGraph(n) == [nodes |-> 0..(n - 1), ends |-> <<>>, cost |-> <<>>,
                  direction |-> <<>>]

\* Graph::Builder::connect throws unless:
ConnectAccepts(G, a, b, cost) ==
    /\ {a, b} \subseteq G.nodes
    /\ a # b
    /\ \A e \in EdgeIds(G) : Ends(G, e) # {a, b}
    /\ cost \in Nat \ {0}   \* finite and above 0

\* Its effect; the new edge's id is their number so far.
Connected(G, a, b, cost, direction) ==
    [nodes |-> G.nodes, ends |-> Append(G.ends, <<a, b>>),
     cost |-> Append(G.cost, cost), direction |-> Append(G.direction, direction)]

Geometry(node_count, edge_count, position, polyline) ==
    [node_count |-> node_count, edge_count |-> edge_count,
     position |-> position, polyline |-> polyline]

(* The calls of set_node_position and set_edge_polyline that led there.    *)
(* The bounds that they ask of a coordinate are not looked at: an importer *)
(* takes only locations that are valid.                                    *)
GeometryAccepts(M) ==
    /\ DOMAIN M.position \subseteq 0..(M.node_count - 1)
    /\ DOMAIN M.polyline \subseteq 1..M.edge_count
    /\ \A e \in DOMAIN M.polyline : Len(M.polyline[e]) >= 2

(* BaseMap's constructor: the counts match, and every polyline runs from   *)
(* its edge's first node to its second, where these have positions.        *)
BaseMapAccepts(G, M) ==
    /\ M.node_count = Cardinality(G.nodes) /\ M.edge_count = Len(G.ends)
    /\ \A e \in DOMAIN M.polyline :
         /\ G.ends[e][1] \in DOMAIN M.position =>
              Head(M.polyline[e]) = M.position[G.ends[e][1]]
         /\ G.ends[e][2] \in DOMAIN M.position =>
              Last(M.polyline[e]) = M.position[G.ends[e][2]]
=============================================================================
