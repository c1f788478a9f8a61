-------------------------- MODULE EventQueueProofs --------------------------
(***************************************************************************)
(* The event queue's order for any bounds and any effects.  What is        *)
(* inductive is stronger than the order of what was executed: everything   *)
(* still queued comes after everything executed, because nothing queued is *)
(* before the clock and every order number was handed out once.            *)
(***************************************************************************)
EXTENDS EventQueue, TLAPS

Inv == /\ TypeOK
       /\ \A e \in queue : e.at >= now /\ e.order < nextOrder
       /\ \A e, f \in queue : e.order = f.order => e = f
       /\ \A i \in DOMAIN executed :
            /\ executed[i].at <= now /\ executed[i].order < nextOrder
            /\ \A e \in queue : Later(e, executed[i])
            /\ \A e \in queue : e.order # executed[i].order
       /\ ExecutionIsOrdered
       /\ driver.call = "until" => now <= driver.until

(* Posts of an effect are a sequence of ticks.                             *)
LEMMA PostsAreTicks == Posts \subseteq Seq(Nat)
<1> SUFFICES ASSUME NEW posts \in Posts PROVE posts \in Seq(Nat)
  OBVIOUS
<1>1. PICK n \in 0..MaxFanout : posts \in [1..n -> Tick]
  BY DEF Posts
<1>2. n \in Nat /\ Tick \subseteq Nat
  BY BoundsAssumption DEF Tick
<1>3. posts \in [1..n -> Nat]
  BY <1>1, <1>2
<1>. QED
  BY <1>2, <1>3

(* What one step() does to a queue in order, whatever the effect posts.    *)
LEMMA StepKeeps ==
    ASSUME Inv, NEW posts \in Seq(Nat), NEW throws \in BOOLEAN,
           NEW returnTo \in [call : {"none", "until", "drain"}, until : Nat],
           \A e \in queue : IsTop(e) /\ returnTo.call = "until" => e.at <= returnTo.until,
           Step(posts, throws, returnTo)
    PROVE  Inv'
<1>1. PICK e \in queue :
        /\ IsTop(e)
        /\ \A i \in DOMAIN posts : posts[i] >= e.at
        /\ now' = e.at
        /\ queue' = (queue \ {e}) \cup
                      {[at |-> posts[i], order |-> nextOrder + i - 1] : i \in DOMAIN posts}
        /\ executed' = Append(executed, e)
  BY DEF Step, Stamped
<1> DEFINE posted == {[at |-> posts[i], order |-> nextOrder + i - 1] : i \in DOMAIN posts}
<1>2. /\ e \in Event /\ e.at \in Nat /\ e.order \in Nat
      /\ nextOrder \in Nat /\ Len(posts) \in Nat /\ DOMAIN posts = 1..Len(posts)
      /\ nextOrder' = nextOrder + Len(posts)
      /\ e.order < nextOrder /\ e.at >= now /\ now \in Nat
  BY DEF Inv, TypeOK, Event, Step
<1>3. \A f \in posted : /\ f \in Event /\ f.at >= e.at
                        /\ f.order >= nextOrder /\ f.order < nextOrder'
  BY <1>1, <1>2 DEF Event
<1>4. \A f, g \in posted : f.order = g.order => f = g
  BY <1>2
<1>5. \A f \in queue \ {e} : /\ f \in Event /\ Later(f, e) /\ f.at >= e.at
                             /\ f.order < nextOrder /\ f.order # e.order
  BY <1>1, <1>2 DEF IsTop, Later, Inv, TypeOK, Event
<1> HIDE DEF posted
<1>6. queue' = (queue \ {e}) \cup posted
  BY <1>1 DEF posted
<1>7. /\ executed \in Seq(Event) /\ executed' \in Seq(Event)
      /\ DOMAIN executed' = 1..(Len(executed) + 1) /\ DOMAIN executed = 1..Len(executed)
      /\ executed'[Len(executed) + 1] = e
      /\ \A i \in DOMAIN executed : executed'[i] = executed[i]
      /\ Len(executed) \in Nat
  BY <1>1, <1>2 DEF Inv, TypeOK
<1>8. TypeOK'
  <2>1. driver' \in [call : {"none", "until", "drain"}, until : Nat]
    BY DEF Step, Idle
  <2>. QED
    BY <1>1, <1>2, <1>3, <1>5, <1>6, <1>7, <2>1 DEF TypeOK
<1>9. \A f \in queue' : f.at >= now' /\ f.order < nextOrder'
  BY <1>1, <1>2, <1>3, <1>5, <1>6 DEF Event
<1>10. \A f, g \in queue' : f.order = g.order => f = g
  BY <1>2, <1>3, <1>4, <1>5, <1>6 DEF Inv, Event
<1>11. ASSUME NEW i \in DOMAIN executed'
       PROVE  /\ executed'[i].at <= now' /\ executed'[i].order < nextOrder'
              /\ \A f \in queue' : Later(f, executed'[i])
              /\ \A f \in queue' : f.order # executed'[i].order
  <2>1. CASE i = Len(executed) + 1
    <3>1. executed'[i] = e
      BY <1>7, <2>1
    <3>2. \A f \in posted : Later(f, e) /\ f.order # e.order
      BY <1>2, <1>3 DEF Later, Event
    <3>3. e.at <= now' /\ e.order < nextOrder'
      BY <1>1, <1>2
    <3>. QED
      BY <1>5, <1>6, <3>1, <3>2, <3>3
  <2>2. CASE i \in DOMAIN executed
    <3>1. /\ executed'[i] = executed[i] /\ executed[i] \in Event
          /\ executed[i].at <= now /\ executed[i].order < nextOrder
          /\ \A f \in queue : Later(f, executed[i]) /\ f.order # executed[i].order
      BY <1>7, <2>2 DEF Inv
    <3>2. \A f \in posted : Later(f, executed[i]) /\ f.order # executed[i].order
      BY <1>2, <1>3, <3>1 DEF Later, Event
    <3>. QED
      BY <1>1, <1>2, <1>6, <3>1, <3>2 DEF Event
  <2>. QED
    BY <1>7, <2>1, <2>2
<1>12. ExecutionIsOrdered'
  <2>1. SUFFICES ASSUME NEW i \in DOMAIN executed', NEW j \in DOMAIN executed', i < j
                 PROVE  Later(executed'[j], executed'[i])
    BY DEF ExecutionIsOrdered, Later
  <2>2. i \in DOMAIN executed
    BY <1>7, <2>1
  <2>3. CASE j = Len(executed) + 1
    BY <1>7, <2>2, <2>3 DEF Inv
  <2>4. CASE j \in DOMAIN executed
    BY <1>7, <2>1, <2>2, <2>4 DEF Inv, ExecutionIsOrdered
  <2>. QED
    BY <1>7, <2>3, <2>4
<1>13. driver'.call = "until" => now' <= driver'.until
  BY <1>1 DEF Step, Idle
<1>. QED
  BY <1>8, <1>9, <1>10, <1>11, <1>12, <1>13 DEF Inv

(* A post from outside the effects keeps the queue in order.               *)
LEMMA ScheduleKeeps ==
    ASSUME Inv, NEW at \in Tick, Schedule(at)
    PROVE  Inv'
<1> DEFINE new == [at |-> at, order |-> nextOrder]
<1>1. /\ new \in Event /\ new.at >= now /\ new.order = nextOrder
      /\ nextOrder \in Nat /\ now \in Nat
  BY BoundsAssumption DEF Schedule, Inv, TypeOK, Event, Tick
<1>2. queue' = queue \cup {new} /\ nextOrder' = nextOrder + 1
        /\ UNCHANGED <<now, driver, executed>>
  BY DEF Schedule
<1> HIDE DEF new
<1>3. TypeOK'
  BY <1>1, <1>2 DEF Inv, TypeOK
<1>4. \A i \in DOMAIN executed : /\ Later(new, executed[i])
                                 /\ new.order # executed[i].order
                                 /\ executed[i].order < nextOrder'
                                 /\ executed[i] \in Event
  <2> SUFFICES ASSUME NEW i \in DOMAIN executed
               PROVE  /\ Later(new, executed[i])
                      /\ new.order # executed[i].order
                      /\ executed[i].order < nextOrder'
                      /\ executed[i] \in Event
    OBVIOUS
  <2>1. executed[i] \in Event
    BY DEF Inv, TypeOK
  <2>2. executed[i].at <= now /\ executed[i].order < nextOrder
    BY DEF Inv
  <2>. QED
    BY <1>1, <1>2, <2>1, <2>2 DEF Later, Event
<1>5. \A e \in queue : e.order < nextOrder' /\ e.order # new.order
  BY <1>1, <1>2 DEF Inv, TypeOK, Event
<1>6. ExecutionIsOrdered'
  BY <1>2 DEF Inv, ExecutionIsOrdered, Later
<1>7. \A i \in DOMAIN executed' : \A e \in queue' :
         Later(e, executed'[i]) /\ e.order # executed'[i].order
  BY <1>2, <1>4 DEF Inv, Later
<1>8. \A e \in queue' : e.at >= now' /\ e.order < nextOrder'
  BY <1>1, <1>2, <1>5 DEF Inv
<1>9. \A e, f \in queue' : e.order = f.order => e = f
  BY <1>2, <1>5 DEF Inv
<1>10. \A i \in DOMAIN executed' : executed'[i].at <= now' /\ executed'[i].order < nextOrder'
  BY <1>2, <1>4 DEF Inv
<1>11. driver'.call = "until" => now' <= driver'.until
  BY <1>2 DEF Inv
<1>. QED
  BY <1>3, <1>6, <1>7, <1>8, <1>9, <1>10, <1>11 DEF Inv

(* The invariant holds of every behaviour.                                 *)
THEOREM InvariantHolds == Spec => []Inv
<1> USE BoundsAssumption
<1>1. Init => Inv
  BY DEF Init, Inv, TypeOK, ExecutionIsOrdered, Idle
<1>2. Inv /\ [Next]_vars => Inv'
  <2> SUFFICES ASSUME Inv, [Next]_vars PROVE Inv'
    OBVIOUS
  <2>1. ASSUME NEW at \in Tick, Schedule(at) PROVE Inv'
    BY <2>1, ScheduleKeeps
  <2>2. ASSUME NEW h \in Tick, RunUntil(h) PROVE Inv'
    BY <2>2 DEF RunUntil, Until, Tick, Inv, TypeOK, ExecutionIsOrdered, Later
  <2>3. CASE RunToCompletion
    BY <2>3 DEF RunToCompletion, Drain, Inv, TypeOK, ExecutionIsOrdered, Later
  <2>4. ASSUME NEW posts \in Posts, NEW throws \in BOOLEAN,
               \/ SingleStep(posts, throws)
               \/ RunUntilStep(posts, throws)
               \/ DrainStep(posts, throws)
        PROVE  Inv'
    <3>1. posts \in Seq(Nat)
      BY PostsAreTicks
    <3>2. /\ Idle \in [call : {"none", "until", "drain"}, until : Nat]
          /\ driver \in [call : {"none", "until", "drain"}, until : Nat]
      BY DEF Idle, Inv, TypeOK
    <3>3. CASE SingleStep(posts, throws)
      <4>1. Step(posts, throws, Idle) /\ Idle.call # "until"
        BY <3>3 DEF SingleStep, Idle
      <4>. QED
        BY <3>1, <3>2, <4>1, StepKeeps
    <3>4. CASE RunUntilStep(posts, throws)
      <4>1. Step(posts, throws, driver) /\ \E e \in queue : IsTop(e) /\ e.at <= driver.until
        BY <3>4 DEF RunUntilStep
      <4>2. \A e, f \in queue : IsTop(e) /\ IsTop(f) => e = f
        BY DEF IsTop, Later, Inv, TypeOK, Event
      <4>3. \A e \in queue : IsTop(e) => e.at <= driver.until
        BY <4>1, <4>2
      <4>. QED
        BY <3>1, <3>2, <4>1, <4>3, StepKeeps
    <3>5. CASE DrainStep(posts, throws)
      <4>1. Step(posts, throws, driver) /\ driver.call # "until"
        BY <3>5 DEF DrainStep
      <4>. QED
        BY <3>1, <3>2, <4>1, StepKeeps
    <3>. QED
      BY <2>4, <3>3, <3>4, <3>5
  <2>5. CASE RunUntilReturn
    <3>1. /\ driver.until \in Nat /\ now \in Nat /\ now <= driver.until
          /\ now' = driver.until /\ driver' = Idle
          /\ UNCHANGED <<queue, nextOrder, executed>>
          /\ queue \subseteq Event
          /\ \A e \in queue : e.at > driver.until
      BY <2>5 DEF RunUntilReturn, Inv, TypeOK
    <3>2. TypeOK'
      BY <3>1 DEF Inv, TypeOK, Idle
    <3>3. \A e \in queue' : e.at >= now' /\ e.order < nextOrder'
      BY <3>1 DEF Inv, Event
    <3>4. \A i \in DOMAIN executed' : executed'[i].at <= now'
      <4>1. \A i \in DOMAIN executed : executed[i] \in Event
        BY DEF Inv, TypeOK
      <4>. QED
        BY <3>1, <4>1 DEF Inv, Event
    <3>5. ExecutionIsOrdered' /\ driver'.call # "until"
      BY <3>1 DEF Inv, ExecutionIsOrdered, Later, Idle
    <3>. QED
      BY <3>1, <3>2, <3>3, <3>4, <3>5 DEF Inv, Later
  <2>6. CASE DrainReturn
    BY <2>6 DEF DrainReturn, Idle, Inv, TypeOK, ExecutionIsOrdered, Later
  <2>7. CASE UNCHANGED vars
    BY <2>7 DEF vars, Inv, TypeOK, ExecutionIsOrdered, Later
  <2>. QED
    BY <2>1, <2>2, <2>3, <2>4, <2>5, <2>6, <2>7 DEF Next
<1>. QED
  BY <1>1, <1>2, PTL DEF Spec

(* Events run in the order (tick, order of posting), for every program of  *)
(* effects and every mix of drivers, throwing effects included.            *)
THEOREM ExecutionOrder == Spec => []ExecutionIsOrdered
BY InvariantHolds, PTL DEF Inv

(* Nothing still queued is overdue: the clock never moves backward.        *)
THEOREM ClockMonotone == Spec => []NothingOverdue
<1>1. Inv => NothingOverdue
  BY DEF Inv, NothingOverdue
<1>. QED
  BY <1>1, InvariantHolds, PTL

-----------------------------------------------------------------------------
(* Nothing is lost.                                                        *)

\* Every order number handed out is that of an event waiting or executed.
Accounted ==
    \A n \in 0..(nextOrder - 1) :
        \/ \E e \in queue : e.order = n
        \/ \E i \in DOMAIN executed : executed[i].order = n

\* A step moves one event from the waiting to the executed, and loses none.
LEMMA StepAccounts ==
    ASSUME Inv, Accounted, NEW posts \in Seq(Nat), NEW throws, NEW returnTo,
           Step(posts, throws, returnTo)
    PROVE  Accounted'
<1>1. PICK e \in queue :
        /\ queue' = (queue \ {e}) \cup Stamped(posts)
        /\ executed' = Append(executed, e)
  BY DEF Step
<1>2. /\ nextOrder' = nextOrder + Len(posts) /\ nextOrder \in Nat
      /\ Len(posts) \in Nat /\ DOMAIN posts = 1..Len(posts)
  BY DEF Step, Inv, TypeOK
<1>3. /\ executed \in Seq(Event) /\ Len(executed) \in Nat
      /\ DOMAIN executed = 1..Len(executed)
      /\ DOMAIN executed' = 1..(Len(executed) + 1)
      /\ executed'[Len(executed) + 1] = e
      /\ \A i \in DOMAIN executed : executed'[i] = executed[i]
  BY <1>1 DEF Inv, TypeOK
<1> SUFFICES ASSUME NEW n \in 0..(nextOrder' - 1)
             PROVE  \/ \E f \in queue' : f.order = n
                    \/ \E i \in DOMAIN executed' : executed'[i].order = n
  BY DEF Accounted
<1>4. CASE n < nextOrder
  <2>1. CASE \E f \in queue : f.order = n
    BY <1>1, <1>3, <2>1
  <2>2. CASE \E i \in DOMAIN executed : executed[i].order = n
    BY <1>3, <2>2
  <2>3. n \in 0..(nextOrder - 1)
    BY <1>2, <1>4
  <2>. QED
    BY <2>1, <2>2, <2>3 DEF Accounted
<1>5. CASE n >= nextOrder
  <2> DEFINE i == n - nextOrder + 1
  <2>1. i \in DOMAIN posts /\ nextOrder + i - 1 = n
    BY <1>2, <1>5
  <2>2. [at |-> posts[i], order |-> nextOrder + i - 1] \in Stamped(posts)
    BY <2>1 DEF Stamped
  <2>. QED
    BY <1>1, <2>1, <2>2
<1>. QED
  BY <1>2, <1>4, <1>5

(* What a driver's step is: a Step of this or that driver.                 *)
LEMMA DriversStep ==
    ASSUME NEW posts \in Posts, NEW throws \in BOOLEAN,
           \/ SingleStep(posts, throws)
           \/ RunUntilStep(posts, throws)
           \/ DrainStep(posts, throws)
    PROVE  \E returnTo \in {Idle, driver} : Step(posts, throws, returnTo)
BY DEF SingleStep, RunUntilStep, DrainStep

(* An event posted is waiting or has run, and no event does both: an       *)
(* effect that throws loses none but its own.                              *)
THEOREM NoneLost == Spec => []NothingLostOrRepeated
<1>1. Init => Accounted
  BY DEF Init, Accounted
<1>2. Inv /\ Accounted /\ [Next]_vars => Accounted'
  <2> SUFFICES ASSUME Inv, Accounted, [Next]_vars PROVE Accounted'
    OBVIOUS
  <2>1. ASSUME NEW at \in Tick, Schedule(at) PROVE Accounted'
    <3>1. /\ queue' = queue \cup {[at |-> at, order |-> nextOrder]}
          /\ nextOrder' = nextOrder + 1 /\ nextOrder \in Nat
          /\ executed' = executed
      BY <2>1 DEF Schedule, Inv, TypeOK
    <3> SUFFICES ASSUME NEW n \in 0..(nextOrder' - 1)
                 PROVE  \/ \E f \in queue' : f.order = n
                        \/ \E i \in DOMAIN executed' : executed'[i].order = n
      BY DEF Accounted
    <3>2. CASE n = nextOrder
      <4>1. [at |-> at, order |-> nextOrder].order = n
        BY <3>2
      <4>. QED
        BY <3>1, <4>1
    <3>3. CASE n \in 0..(nextOrder - 1)
      BY <3>1, <3>3 DEF Accounted
    <3>. QED
      BY <3>1, <3>2, <3>3
  <2>2. ASSUME NEW posts \in Posts, NEW throws \in BOOLEAN,
               \/ SingleStep(posts, throws)
               \/ RunUntilStep(posts, throws)
               \/ DrainStep(posts, throws)
        PROVE  Accounted'
    <3>1. PICK returnTo \in {Idle, driver} : Step(posts, throws, returnTo)
      BY <2>2, DriversStep
    <3>2. posts \in Seq(Nat)
      BY PostsAreTicks
    <3>. QED
      BY <3>1, <3>2, StepAccounts
  <2>3. ASSUME UNCHANGED <<queue, nextOrder, executed>> PROVE Accounted'
    BY <2>3 DEF Accounted
  <2>. QED
    BY <2>1, <2>2, <2>3
       DEF Next, vars, RunUntil, RunToCompletion, RunUntilReturn, DrainReturn
<1>3. Inv /\ Accounted => NothingLostOrRepeated
  <2> SUFFICES ASSUME Inv, Accounted PROVE NothingLostOrRepeated
    OBVIOUS
  <2>1. nextOrder \in Nat /\ queue \subseteq Event /\ executed \in Seq(Event)
    BY DEF Inv, TypeOK
  <2>2. \A e \in queue : e.order \in 0..(nextOrder - 1)
    BY <2>1 DEF Inv, Event
  <2>3. \A i \in DOMAIN executed : executed[i].order \in 0..(nextOrder - 1)
    <3>1. \A i \in DOMAIN executed : executed[i] \in Event
      BY <2>1
    <3>. QED
      BY <2>1, <3>1 DEF Inv, Event
  <2>4. \A e \in queue : \A i \in DOMAIN executed : e.order # executed[i].order
    BY DEF Inv
  <2>. QED
    BY <2>2, <2>3, <2>4 DEF Accounted, NothingLostOrRepeated
<1>. QED
  BY <1>1, <1>2, <1>3, InvariantHolds, PTL DEF Spec

(* A run_until that returns has run all that was due by its horizon and    *)
(* nothing later, and leaves the clock there, whatever the effects.        *)
THEOREM HorizonsHonoured == Spec => HorizonHonoured
<1> DEFINE Honoured ==
      driver.call = "until" /\ driver'.call = "none" /\ executed' = executed
        => /\ now' = driver.until
           /\ \A e \in queue' : e.at > now'
           /\ \A i \in DOMAIN executed : executed[i].at <= now'
<1>1. Inv /\ [Next]_vars => Honoured
  <2> SUFFICES ASSUME Inv, [Next]_vars,
                      driver.call = "until", driver'.call = "none",
                      executed' = executed
               PROVE  /\ now' = driver.until
                      /\ \A e \in queue' : e.at > now'
                      /\ \A i \in DOMAIN executed : executed[i].at <= now'
    OBVIOUS
  <2>1. ~ \E posts \in Posts, throws \in BOOLEAN :
            \/ SingleStep(posts, throws)
            \/ RunUntilStep(posts, throws)
            \/ DrainStep(posts, throws)
    <3>1. \A e : Append(executed, e) # executed
      BY DEF Inv, TypeOK
    <3>2. \A posts \in Posts, throws \in BOOLEAN, returnTo \in {Idle, driver} :
            Step(posts, throws, returnTo) => \E e \in queue : executed' = Append(executed, e)
      BY DEF Step
    <3>. QED
      BY <3>1, <3>2, DriversStep
  <2>2. RunUntilReturn
    BY <2>1 DEF Next, vars, Schedule, RunUntil, RunToCompletion, DrainReturn, Idle
  <2>3. /\ now \in Nat /\ driver.until \in Nat /\ now <= driver.until
        /\ \A i \in DOMAIN executed : executed[i] \in Event /\ executed[i].at <= now
    BY DEF Inv, TypeOK
  <2>. QED
    BY <2>2, <2>3 DEF RunUntilReturn, Event
<1>2. Spec => [][Honoured]_vars
  BY <1>1, InvariantHolds, PTL DEF Spec
<1>. QED
  BY <1>2 DEF HorizonHonoured

-----------------------------------------------------------------------------
(* What runs does not depend on who drives.                                *)

\* A step of the queue is an execution of the serial queue.
LEMMA StepIsSerial ==
    ASSUME Inv, NEW posts \in Posts, NEW throws, NEW returnTo,
           Step(posts, throws, returnTo)
    PROVE  \E e \in queue : Serial!Execute(e, posts)
<1>1. PICK e \in queue :
        /\ IsTop(e)
        /\ \A i \in DOMAIN posts : posts[i] >= e.at
        /\ queue' = (queue \ {e}) \cup Stamped(posts)
        /\ executed' = Append(executed, e)
  BY DEF Step
<1>2. nextOrder' = nextOrder + Len(posts)
  BY DEF Step
<1>3. \A f \in queue \ {e} : Serial!Before(e, f)
  BY <1>1 DEF IsTop, Later, Serial!Before, Inv, TypeOK, Event
<1>4. Serial!IsPresent(e.at)
  <2>1. /\ e.at >= now /\ e.at \in Nat /\ now \in Nat
        /\ executed \in Seq(Event) /\ Len(executed) \in Nat
    BY DEF Inv, TypeOK, Event
  <2>2. CASE executed # <<>>
    <3>1. Len(executed) \in DOMAIN executed
      BY <2>1, <2>2
    <3>2. executed[Len(executed)].at <= now /\ executed[Len(executed)] \in Event
      BY <2>1, <3>1 DEF Inv
    <3>. QED
      BY <2>1, <3>2 DEF Serial!IsPresent, Event
  <2>. QED
    BY <2>2 DEF Serial!IsPresent
<1>5. Serial!Numbered(posts) = Stamped(posts)
  BY DEF Serial!Numbered, Stamped
<1>. QED
  BY <1>1, <1>2, <1>3, <1>4, <1>5 DEF Serial!Execute

(* Runs of the driven queue are runs of the queue that nobody drives: cut  *)
(* into steps, horizons and aborted calls in whatever way, the events and  *)
(* their order are determined by what was posted, when, in which order.    *)
THEOREM DrivenIsSerial == Spec => DriversAddNothing
<1>1. Init => Serial!Init
  BY DEF Init, Serial!Init
<1>2. Inv /\ [Next]_vars => [Serial!Next]_(Serial!vars)
  <2> SUFFICES ASSUME Inv, [Next]_vars PROVE [Serial!Next]_(Serial!vars)
    OBVIOUS
  <2>1. ASSUME NEW at \in Tick, Schedule(at) PROVE Serial!Next
    <3>1. Serial!IsPresent(at)
      <4>1. /\ at >= now /\ at \in Nat /\ now \in Nat
            /\ executed \in Seq(Event) /\ Len(executed) \in Nat
        BY <2>1 DEF Schedule, Tick, Inv, TypeOK
      <4>2. CASE executed # <<>>
        <5>1. Len(executed) \in DOMAIN executed
          BY <4>1, <4>2
        <5>2. executed[Len(executed)].at <= now /\ executed[Len(executed)] \in Event
          BY <4>1, <5>1 DEF Inv
        <5>. QED
          BY <4>1, <5>2 DEF Serial!IsPresent, Event
      <4>. QED
        BY <4>2 DEF Serial!IsPresent
    <3>2. Serial!Post(at)
      BY <2>1, <3>1 DEF Schedule, Serial!Post
    <3>. QED
      BY <3>2 DEF Serial!Next
  <2>2. ASSUME NEW posts \in Posts, NEW throws \in BOOLEAN,
               \/ SingleStep(posts, throws)
               \/ RunUntilStep(posts, throws)
               \/ DrainStep(posts, throws)
        PROVE  Serial!Next
    <3>1. PICK returnTo \in {Idle, driver} : Step(posts, throws, returnTo)
      BY <2>2, DriversStep
    <3>2. \E e \in queue : Serial!Execute(e, posts)
      BY <3>1, StepIsSerial
    <3>. QED
      BY <3>2 DEF Serial!Next
  <2>3. ASSUME UNCHANGED <<queue, nextOrder, executed>> PROVE UNCHANGED Serial!vars
    BY <2>3 DEF Serial!vars
  <2>. QED
    BY <2>1, <2>2, <2>3
       DEF Next, vars, RunUntil, RunToCompletion, RunUntilReturn, DrainReturn
<1>. QED
  BY <1>1, <1>2, InvariantHolds, PTL DEF Spec, DriversAddNothing, Serial!Spec
=============================================================================
