---------------------------- MODULE MCOsmImport -----------------------------
(* OsmImport on extracts of up to five nodes and two ways.                 *)
EXTENDS OsmImport

(* Five nodes around a crossing; 6 is where 5 is, 7 has no location.       *)
Places == << <<0, 0>>, <<2, 0>>, <<1, 0>>, <<1, 2>>, <<1, 1>>, <<1, 1>>, Nowhere >>
Nodes(ids) == [i \in DOMAIN ids |-> [id |-> ids[i], location |-> Places[ids[i]]]]
AllNodes == Nodes(<<3, 1, 2, 4, 5, 6, 7>>)

AWay(id, refs, oneway) ==
    [id |-> id, highway |-> "whitelisted", refs |-> refs, oneway |-> oneway,
     roundabout |-> FALSE]

(* Straight, bent, crossing, looping, closed and degenerate roads.         *)
Roads ==
    {<<1, 2>>, <<1, 3, 2>>, <<2, 3>>, <<5, 3>>, <<4, 5, 3>>, <<4, 3, 5>>, <<2, 1>>,
     <<1, 4, 5, 3>>, <<1, 3, 4, 2, 3, 5>>, <<1, 3, 1>>, <<1, 4, 2, 1>>, <<5, 6>>,
     <<1, 5, 6>>, <<5, 6, 4>>, <<3>>}

\* One way or two, the second perhaps listed first in the file.
Extracts ==
    {[ways |-> <<AWay(20, r, o)>>, nodes |-> AllNodes] :
        r \in Roads, o \in Oneways} \cup
    {[ways |-> <<AWay(20, r, o), AWay(10, s, p)>>, nodes |-> AllNodes] :
        r \in Roads, s \in Roads, o \in {"absent", "yes", "-1"},
        p \in {"no", "yes", "-1"}}

\* What the passes leave out, or do not let through.
Odd == [AWay(10, <<1, 3, 2>>, "absent") EXCEPT !.roundabout = TRUE]
OddWays ==
    {Odd, [Odd EXCEPT !.oneway = "no"], [Odd EXCEPT !.oneway = "other"],
     [Odd EXCEPT !.highway = "other"],
     AWay(10, <<1, 7>>, "no"), AWay(10, <<4, 8>>, "no"), AWay(10, <<8, 9, 7>>, "yes")}
OddExtracts ==
    {[ways |-> <<AWay(20, r, "yes"), w>>, nodes |-> AllNodes] :
        r \in Roads, w \in OddWays}

TestFiles == Extracts \cup OddExtracts
=============================================================================
