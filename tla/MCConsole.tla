------------------------------ MODULE MCConsole -----------------------------
(* FleetRun under the console, on small maps and short scenarios.          *)
EXTENDS Console

(* A ring of four nodes with a shortcut:  0 -1- 1 -1- 3,  0 -1- 2 -2- 3,   *)
(* and 1 -1- 2.  Robot 1 crosses it; robot 2 goes the other way, or along. *)
Ring ==
    [nodes |-> 0..3,
     ends  |-> << <<0, 1>>, <<1, 3>>, <<0, 2>>, <<2, 3>>, <<1, 2>> >>,
     cost  |-> <<1, 1, 1, 2, 1>>,
     direction |-> <<"Bidirectional", "Bidirectional", "Forward",
                     "Bidirectional", "Bidirectional">>]
Crossing == << <<0, 3>>, <<3, 0>> >>
Convoy == << <<0, 3>>, <<0, 3>> >>

\* A closure somewhere, and later perhaps its end or another closure.
World(e, status) == [kind |-> "world", edge |-> e, status |-> status]
WorldScripts(first, second) ==
    {<< <<t1, a>>, <<t2, b>>, <<2, c>> >> :
        t1 \in first, t2 \in second,
        a \in {World(e, "Blocked") : e \in Edges},
        b \in {World(e, s) : e \in {1, 2, 4}, s \in EdgeStatus},
        c \in {World(2, s) : s \in EdgeStatus}}

\* Run at one go, with late and lost messages.
Batch ==
    [names |-> <<"r1", "r2">>, station |-> FALSE, mission |-> Crossing,
     moves |-> TRUE, senses |-> TRUE,
     latency |-> {0, 2}, loses |-> TRUE, doubles |-> FALSE,
     scripts |-> WorldScripts({0, 1}, {1, 2}), duration |-> 5,
     commands |-> {[command |-> "finish"]}, injections |-> 0]

\* What is tried while the run is stopped.
Typed ==
    {[command |-> "world", edge |-> <<1, 3>>, status |-> "Blocked"],
     [command |-> "world", edge |-> <<2, 3>>, status |-> "Blocked"],
     [command |-> "world", edge |-> <<3, 1>>, status |-> "Open"],
     [command |-> "observe", robot |-> "r1", edge |-> <<1, 3>>, status |-> "Blocked"],
     [command |-> "observe", robot |-> "r1", edge |-> <<0, 3>>, status |-> "Blocked"],
     [command |-> "link", from |-> "r2", to |-> "r1", up |-> FALSE],
     [command |-> "link", from |-> "r2", to |-> "station", up |-> FALSE],
     [command |-> "resync", robot |-> "r2"],
     [command |-> "run", ms |-> 1],
     [command |-> "until", tick |-> 1],
     [command |-> "finish"]}

\* Run by hand, both robots the same way, messages doubled.
ByHand ==
    [names |-> <<"r1", "r2">>, station |-> TRUE, mission |-> Convoy,
     moves |-> TRUE, senses |-> TRUE,
     latency |-> {0}, loses |-> FALSE, doubles |-> TRUE,
     scripts |-> {<<>>}, duration |-> 2,
     commands |-> Typed, injections |-> 2]

\* The same with robots that stand still, and a robot with the station's name.
Parked == [ByHand EXCEPT !.names = <<"r1", "station">>, !.moves = FALSE]

TestScenarios == <<Batch, ByHand, Parked>>

\* One closure at the start of a run.
Plain == [Batch EXCEPT !.latency = {0}, !.loses = FALSE, !.scripts = WorldScripts({0}, {0})]
PlainScenario == <<Plain>>
=============================================================================
