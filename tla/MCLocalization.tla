--------------------------- MODULE MCLocalization ---------------------------
(* Localization on short drives.                                           *)
EXTENDS Localization

Leg(length, heading) == [length |-> length, heading |-> heading]

(* North and around a corner, a corner passed exactly at a tick; then      *)
(* south, over a repeated point, east and north again; then back.          *)
Bends ==
    << [legs |-> <<Leg(2, 0), Leg(2, 1)>>, ticks |-> 2],
       [legs |-> <<Leg(1, 2), Leg(0, 0), Leg(1, 1), Leg(1, 0)>>, ticks |-> 1],
       [legs |-> <<Leg(0, 0), Leg(3, 3)>>, ticks |-> 3] >>

\* A traversal whose polyline ends in the same point twice.
RepeatedEnd == << [legs |-> <<Leg(2, 1), Leg(0, 0)>>, ticks |-> 1],
                  [legs |-> <<Leg(1, 1)>>, ticks |-> 1] >>

OnOff     == {"perfect", "unavailable"}
AllModels == OnOff \cup {"noisy"}

TwoSwitches(ticks, models) ==
    {<< <<t1, a>>, <<t2, b>> >> : t1 \in ticks, t2 \in ticks, a \in models, b \in models}

\* Dead reckoning sampled at every tick; and an estimate that is only kept,
\* sampled at every second.
DeadReckoned ==
    [period : {1}, retry : {1}, dead_reckoning : {TRUE}, initial_model : {"unavailable"},
     switches : TwoSwitches({1, 3}, AllModels)]
Kept ==
    [period : {2}, retry : {3}, dead_reckoning : {FALSE}, initial_model : {"perfect"},
     switches : TwoSwitches({0, 2, 4}, OnOff)]
BothKinds == DeadReckoned \cup Kept

NoSwitch ==
    [period : {1}, retry : {1}, dead_reckoning : {TRUE}, initial_model : {"perfect"},
     switches : {<<>>}]

Nudge     == {<<1, 0>>}
QuarterTurn == {0, 1}
=============================================================================
