----------------------------- MODULE EventQueue -----------------------------
(***************************************************************************)
(* The simulation's only source of time: fleet::simulation::EventQueue     *)
(* with the SimulationClock it owns.  Work is posted as (tick, effect);    *)
(* an effect runs when its event is popped, may post more events -- at the *)
(* current tick too -- and may throw, which ends the driver call (step,    *)
(* run_until, run_to_completion) that was running.                         *)
(*                                                                         *)
(* An effect is abstracted to the ticks it posts, in order, and to whether *)
(* it throws afterwards.  A post in the past is one way of throwing.       *)
(* What is inside the effects is the business of the modules that compose  *)
(* this one.  No effect of this program drives the queue re-entrantly.     *)
(***************************************************************************)
EXTENDS Integers, Sequences

CONSTANTS
    MaxTick,     \* bound: no event is posted, no horizon asked, beyond it
    MaxEvents,   \* bound: events posted over a whole behaviour
    MaxFanout    \* bound: events one effect posts

ASSUME BoundsAssumption ==
    MaxTick \in Nat /\ MaxEvents \in Nat /\ MaxFanout \in Nat

VARIABLES
    now,         \* SimulationClock::now_
    queue,       \* EventQueue::queue_, the events not yet popped
    nextOrder,   \* EventQueue::next_order_
    driver,      \* which driver call is on the stack, with its horizon
    executed     \* history: the events popped so far, oldest first

vars == <<now, queue, nextOrder, driver, executed>>

Tick  == 0..MaxTick
Event == [at : Nat, order : Nat]

Idle      == [call |-> "none",  until |-> 0]
Until(h)  == [call |-> "until", until |-> h]
Drain     == [call |-> "drain", until |-> 0]

\* The strict order of the priority queue: a runs after b.
Later(a, b) == \/ a.at > b.at
               \/ a.at = b.at /\ a.order > b.order

\* Mutant of IsTop: a heap ordered by tick alone.
IsEarliest(e) == e \in queue /\ \A f \in queue : e.at <= f.at

IsTop(e) == e \in queue /\ \A f \in queue \ {e} : Later(f, e)

-----------------------------------------------------------------------------
Init == /\ now = 0
        /\ queue = {}
        /\ nextOrder = 0
        /\ driver = Idle
        /\ executed = <<>>

\* Mutant of Schedule: the past is not refused.
ScheduleAnywhen(at) ==
    /\ driver = Idle
    /\ nextOrder < MaxEvents
    /\ queue' = queue \cup {[at |-> at, order |-> nextOrder]}
    /\ nextOrder' = nextOrder + 1
    /\ UNCHANGED <<now, driver, executed>>

(* schedule(), called between driver calls; a tick in the past is refused  *)
(* with an exception and changes nothing.                                  *)
Schedule(at) ==
    /\ driver = Idle
    /\ nextOrder < MaxEvents
    /\ at >= now
    /\ queue' = queue \cup {[at |-> at, order |-> nextOrder]}
    /\ nextOrder' = nextOrder + 1
    /\ UNCHANGED <<now, driver, executed>>

\* Mutants of Stamped: the counter is read once, or runs backward.
StampedOnce(posts) ==
    {[at |-> posts[i], order |-> nextOrder] : i \in DOMAIN posts}
StampedBackward(posts) ==
    {[at |-> posts[i], order |-> nextOrder - i] : i \in DOMAIN posts}

\* schedule() for each post of an effect, in order.
Stamped(posts) ==
    {[at |-> posts[i], order |-> nextOrder + i - 1] : i \in DOMAIN posts}

(* step(): pop the top, move the clock to it, run the effect.  The effect  *)
(* posts "posts" in this order and then returns or throws; a throw leaves  *)
(* the event consumed and everything posted before it in place.            *)
Step(posts, throws, returnTo) ==
    /\ nextOrder + Len(posts) <= MaxEvents
    /\ \E e \in queue :
         /\ IsTop(e)
         /\ \A i \in DOMAIN posts : posts[i] >= e.at
         /\ now' = e.at
         /\ queue' = (queue \ {e}) \cup Stamped(posts)
         /\ executed' = Append(executed, e)
    /\ nextOrder' = nextOrder + Len(posts)
    /\ driver' = IF throws THEN Idle ELSE returnTo

SingleStep(posts, throws) == driver = Idle /\ Step(posts, throws, Idle)

(* run_until(): refused for a horizon in the past; otherwise pops while    *)
(* the top is due, then moves the clock to the horizon itself.             *)
RunUntil(h) == /\ driver = Idle
               /\ h >= now
               /\ driver' = Until(h)
               /\ UNCHANGED <<now, queue, nextOrder, executed>>

RunUntilStep(posts, throws) ==
    /\ driver.call = "until"
    /\ \E e \in queue : IsTop(e) /\ e.at <= driver.until
    /\ Step(posts, throws, driver)

\* Mutant of RunUntilReturn: the clock stays at the last event.
RunUntilReturnEarly == /\ driver.call = "until"
                       /\ \A e \in queue : e.at > driver.until
                       /\ driver' = Idle
                       /\ UNCHANGED <<now, queue, nextOrder, executed>>

RunUntilReturn == /\ driver.call = "until"
                  /\ \A e \in queue : e.at > driver.until
                  /\ now' = driver.until
                  /\ driver' = Idle
                  /\ UNCHANGED <<queue, nextOrder, executed>>

(* run_to_completion(): pops until the queue is empty.                     *)
RunToCompletion == /\ driver = Idle
                   /\ driver' = Drain
                   /\ UNCHANGED <<now, queue, nextOrder, executed>>

DrainStep(posts, throws) == driver.call = "drain" /\ Step(posts, throws, driver)

DrainReturn == /\ driver.call = "drain"
               /\ queue = {}
               /\ driver' = Idle
               /\ UNCHANGED <<now, queue, nextOrder, executed>>

-----------------------------------------------------------------------------
Posts == UNION {[1..n -> Tick] : n \in 0..MaxFanout}

Next == \/ \E at \in Tick : Schedule(at)
        \/ \E h \in Tick : RunUntil(h)
        \/ RunToCompletion
        \/ \E posts \in Posts, throws \in BOOLEAN :
             \/ SingleStep(posts, throws)
             \/ RunUntilStep(posts, throws)
             \/ DrainStep(posts, throws)
        \/ RunUntilReturn
        \/ DrainReturn

Spec == Init /\ [][Next]_vars

Serial == INSTANCE SerialQueue WITH
            Ticks <- Tick, Batches <- Posts, waiting <- queue

-----------------------------------------------------------------------------
\* The variables have their types.
TypeOK == /\ now \in Nat
          /\ queue \subseteq Event
          /\ nextOrder \in Nat
          /\ driver \in [call : {"none", "until", "drain"}, until : Nat]
          /\ executed \in Seq(Event)

(* Events run in the order (tick, order of posting), whatever mix of       *)
(* drivers popped them and whatever the effects posted on the way: an      *)
(* effect's same-tick follow-up never overtakes an event already queued,   *)
(* and an aborted run resumes where it stopped.                            *)
ExecutionIsOrdered ==
    \A i, j \in DOMAIN executed : i < j => Later(executed[j], executed[i])

(* Nothing still queued is overdue, so the clock never moves backward when *)
(* the next event is popped (the assertion of advance_to), not even after  *)
(* a run_until that moved the clock across idle time.                      *)
NothingOverdue == \A e \in queue : e.at >= now

(* Every event posted is either waiting or has been run, once: an effect   *)
(* that throws loses its own event only, never another's.                  *)
NothingLostOrRepeated ==
    LET waiting == {e.order : e \in queue}
        run     == {executed[i].order : i \in DOMAIN executed}
    IN  /\ waiting \cup run = 0..(nextOrder - 1)
        /\ waiting \cap run = {}

(* A run_until that returns, rather than throws, has run everything due by *)
(* its horizon and nothing after it, and leaves the clock on the horizon.  *)
HorizonHonoured ==
    [][driver.call = "until" /\ driver'.call = "none" /\ executed' = executed
        => /\ now' = driver.until
           /\ \A e \in queue' : e.at > now'
           /\ \A i \in DOMAIN executed : executed[i].at <= now']_vars

(* However a run is driven -- in single steps, to horizons, to the end, or *)
(* by calls that effects abort -- the events and their order are those of  *)
(* a queue that nobody drives: a stepped run is the run at one go, as      *)
(* scenario_runner.hpp:115-117 has it and the console relies on.           *)
DriversAddNothing == Serial!Spec
=============================================================================
