------------------------------ MODULE Console -------------------------------
(***************************************************************************)
(* fleet_console: a scenario run by hand.  A command is a record of its    *)
(* words; names, edges as pairs of nodes, and states are resolved as it    *)
(* is typed, and a command that cannot be resolved, like one the runner    *)
(* refuses, does nothing but print.  Commands that only print are left     *)
(* out.  fleet_sim, which runs a scenario at one go, types "finish".       *)
(***************************************************************************)
EXTENDS FleetRun

CONSTANT LastTick   \* bound: how far commands run the clock

\* What parses: states and up or down, and numbers of milliseconds.
ASSUME CommandsAssumption ==
    \A i \in DOMAIN Scenarios : \A c \in Scenarios[i].commands :
        /\ c.command \in {"observe", "world"} => c.status \in EdgeStatus
        /\ c.command = "link" => c.up \in BOOLEAN
        /\ c.command = "run" => c.ms \in Nat
        /\ c.command = "until" => c.tick \in Nat

RobotsNamed(name) == {r \in Robots : Settings.names[r] = name}

\* The map of names holds the station's last.
EndpointsNamed(name) ==
    IF name = "station" /\ Settings.station THEN {Station} ELSE RobotsNamed(name)

EdgesNamed(label) == {e \in Edges : Ends(Map, e) = {label[1], label[2]}}

InjectObserve(c) ==
    \E r \in RobotsNamed(c.robot), e \in EdgesNamed(c.edge) :
        Inject([kind |-> "observe", robot |-> r, edge |-> e, status |-> c.status], now)

InjectWorld(c) ==
    \E e \in EdgesNamed(c.edge) :
        Inject([kind |-> "world", edge |-> e, status |-> c.status], now)

InjectLink(c) ==
    \E from \in EndpointsNamed(c.from), to \in EndpointsNamed(c.to) :
        Inject([kind |-> "set_link", from |-> from, to |-> to, up |-> c.up], now)

InjectResync(c) ==
    \E r \in RobotsNamed(c.robot) :
        Inject([kind |-> "resynchronize", robot |-> r], now)

\* run counts from the clock, until does not.
Drive(c) ==
    \/ c.command = "run" /\ now + c.ms <= LastTick /\ RunUntil(now + c.ms)
    \/ c.command = "until" /\ RunUntil(c.tick)
    \/ c.command = "finish" /\ Finish

Execute(c) ==
    \/ Drive(c)
    \/ c.command = "observe" /\ InjectObserve(c)
    \/ c.command = "world" /\ InjectWorld(c)
    \/ c.command = "link" /\ InjectLink(c)
    \/ c.command = "resync" /\ InjectResync(c)

Next == \/ HandleEvent
        \/ Return
        \/ \E c \in Settings.commands : Execute(c)

\* Nobody need type anything.
Spec == Init /\ [][Next]_vars /\ KeepsRunning
=============================================================================
