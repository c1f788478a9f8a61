--------------------------- MODULE Reconciliation ---------------------------
(***************************************************************************)
(* The fleet as a distributed map: robots (fleet::robot::Robot) that       *)
(* observe edges, reconcile and emit what they saw, and re-announce their  *)
(* winners on demand; a control station (fleet::station::ControlStation)   *)
(* that only listens; and a transport that loses, repeats, delays and      *)
(* reorders.  Routes, positions and ticks of delivery are left to the      *)
(* modules that need them: here a delta that was scheduled for delivery    *)
(* arrives at any later moment, any number of times, in any order.         *)
(*                                                                         *)
(* Participants carry their ids as numbers: 1..NRobots are the robots, in  *)
(* the order of their RobotIds, 0 is the station.                          *)
(***************************************************************************)
EXTENDS Reconciler, FiniteSets

CONSTANTS
    NRobots,             \* robots in the fleet
    NEdges,              \* edges of the base map
    MaxTick,             \* bound: the last tick of an observation
    MaxSequence,         \* bound: observations in one (source, edge) stream
    MaxObservations,     \* bound: observations made by the whole fleet
    Lossy,               \* is NetworkConfig::packet_loss above zero?
    CutLinks,            \* the links <<from, to>> a scenario switches
    SameTickReopen       \* may one robot report, at one tick, an edge Blocked
                         \* and then Open again?

ASSUME ConstantsAssumption ==
    /\ NRobots \in Nat /\ NEdges \in Nat
    /\ MaxTick \in Nat /\ MaxSequence \in Nat /\ MaxObservations \in Nat
    /\ CutLinks \subseteq (1..NRobots) \X (0..NRobots)
    /\ Lossy \in BOOLEAN /\ SameTickReopen \in BOOLEAN

Robots       == 1..NRobots
Station      == 0
Participants == 0..NRobots
Edges        == 1..NEdges

\* Everything a producer can emit; sequences start at 1.
Delta == [edge : Edges, status : EdgeStatus, observed_at : 0..MaxTick,
          source : Robots, source_sequence : 1..MaxSequence]

VARIABLES
    now,                 \* the simulation clock
    streams,             \* Robot::streams_: streams[r][e], last sequence & tick
    knowledge,           \* each participant's overlay_ and reconciler_
    downLinks,           \* NetworkSimulator::down_links_, pairs <<from, to>>
    scheduled,           \* the deliveries the network ever scheduled, records
                         \* [to, delta]; a copy of any may still be under way
    heard,               \* history: every delta offered to each participant
    announced            \* history: the robots whose whole knowledge was put
                         \* on every link since the last observation

vars == <<now, streams, knowledge, downLinks, scheduled, heard, announced>>

-----------------------------------------------------------------------------
Init == /\ now = 0
        /\ streams = [r \in Robots |-> [e \in Edges |->
                        [last_sequence |-> 0, last_observed_at |-> 0]]]
        /\ knowledge = [p \in Participants |-> EmptyKnowledge]
        /\ downLinks = {}
        /\ scheduled = {}
        /\ heard = [p \in Participants |-> {}]
        /\ announced = {}

\* p's reconciler is offered d.
Offer(p, d) ==
    /\ knowledge' = [knowledge EXCEPT ![p] = Reconcile(d, @)]
    /\ heard' = [heard EXCEPT ![p] = @ \cup {d}]

\* Mutant of Addressed: nothing is wired to the station.
AddressedToRobots(r, deltas) == [to : Robots \ {r}, delta : deltas]

\* The messages r's sink asks the network to send for a set of deltas: one
\* to every other participant.
Addressed(r, deltas) == [to : Participants \ {r}, delta : deltas]

\* Of those, the ones whose link is up.
Sendable(r, deltas) ==
    {m \in Addressed(r, deltas) : <<r, m.to>> \notin downLinks}

(* NetworkSimulator::send for each message: a down link drops it, loss may *)
(* drop any other.  "sent" are the messages that got through.              *)
Outcomes(r, deltas) ==
    IF Lossy THEN SUBSET Sendable(r, deltas) ELSE {Sendable(r, deltas)}

Emit(sent) == scheduled' = scheduled \cup sent

\* Everything observed so far: a robot is offered its own observations.
Observed == UNION {heard[p] : p \in Participants}

\* Mutant of NewDelta: the sequence is used before it is incremented.
NewDeltaPostIncrement(r, e, status, at) ==
    [edge |-> e, status |-> status, observed_at |-> at, source |-> r,
     source_sequence |-> streams[r][e].last_sequence]

\* Mutant of NewDelta: the sequence advances with the tick only.
NewDeltaPerTick(r, e, status, at) ==
    LET last == streams[r][e]
    IN  [edge |-> e, status |-> status, observed_at |-> at, source |-> r,
         source_sequence |-> IF last.last_sequence > 0 /\ at = last.last_observed_at
                             THEN last.last_sequence ELSE last.last_sequence + 1]

(* Robot::observe.  The tick may not precede the stream's last one; the    *)
(* sequence is allocated before anything is emitted; the delta is emitted  *)
(* whatever the local decision was.                                        *)
NewDelta(r, e, status, at) ==
    [edge |-> e, status |-> status, observed_at |-> at, source |-> r,
     source_sequence |-> streams[r][e].last_sequence + 1]

\* The robot's own last word on the edge was Blocked, at this very tick.
JustBlocked(r, e, at) ==
    \E d \in Latest(knowledge[r], r, e) :
        d.status = "Blocked" /\ d.observed_at = at

Observe(r, e, status, at, sent) ==
    /\ at >= now
    /\ at >= streams[r][e].last_observed_at
    /\ streams[r][e].last_sequence < MaxSequence
    /\ Cardinality(Observed) < MaxObservations
    /\ SameTickReopen \/ status = "Blocked" \/ ~JustBlocked(r, e, at)
    /\ now' = at
    /\ LET d == NewDelta(r, e, status, at)
       IN  /\ sent \in Outcomes(r, {d})
           /\ streams' = [streams EXCEPT ![r][e] =
                            [last_sequence |-> d.source_sequence,
                             last_observed_at |-> at]]
           /\ Offer(r, d)
    /\ Emit(sent)
    /\ announced' = {}
    /\ UNCHANGED downLinks

(* Robot::resynchronize: every winner the robot holds, its own or not, is  *)
(* emitted again with its original identity.                               *)
Resynchronize(r, sent) ==
    /\ sent \in Outcomes(r, knowledge[r].overlay)
    /\ Emit(sent)
    /\ announced' = IF sent = Addressed(r, knowledge[r].overlay)
                    THEN announced \cup {r} ELSE announced
    /\ UNCHANGED <<now, streams, knowledge, downLinks, heard>>

(* A delivery: Robot::receive or ControlStation::receive.  Received deltas *)
(* are not passed on.                                                      *)
Deliver(m) ==
    /\ m \in scheduled
    /\ Offer(m.to, m.delta)
    /\ UNCHANGED <<now, streams, downLinks, scheduled, announced>>

(* NetworkSimulator::set_link_state, for one direction.  Messages already  *)
(* under way are not touched.                                              *)
SetLinkState(from, to, up) ==
    /\ downLinks' = IF up THEN downLinks \ {<<from, to>>}
                          ELSE downLinks \cup {<<from, to>>}
    /\ UNCHANGED <<now, streams, knowledge, scheduled, heard, announced>>

-----------------------------------------------------------------------------
Next ==
    \/ \E r \in Robots, e \in Edges, status \in EdgeStatus, at \in 0..MaxTick :
         \E sent \in Outcomes(r, {NewDelta(r, e, status, at)}) :
             Observe(r, e, status, at, sent)
    \/ \E r \in Robots :
         \E sent \in Outcomes(r, knowledge[r].overlay) :
             Resynchronize(r, sent)
    \/ \E m \in scheduled : Deliver(m)
    \/ \E link \in CutLinks, up \in BOOLEAN : SetLinkState(link[1], link[2], up)

Spec == Init /\ [][Next]_vars

(* The event queue runs everything the network scheduled, so every message *)
(* under way is delivered.  Nothing else is fair: robots observe, scenario *)
(* policy cuts links and re-announces, as they please.                     *)
FairSpec == /\ Spec
            /\ \A m \in [to : Participants, delta : Delta] :
                 WF_vars(Deliver(m))

-----------------------------------------------------------------------------
\* Offered to a participant about an edge.
HeardAbout(p, e) == {d \in heard[p] : d.edge = e}

(* How good an observation is: its cross-source order, and the order of    *)
(* its stream for two of one source.                                       *)
Better(a, b) ==
    \/ Supersedes(a, b)
    \/ /\ a.observed_at = b.observed_at
       /\ a.status = b.status
       /\ a.source = b.source
       /\ a.source_sequence > b.source_sequence

\* Participants p and q believe the same of an edge, provenance included.
Agree(p, q, e) == Winner(knowledge[p], e) = Winner(knowledge[q], e)

\* Every delivery scheduled so far has taken place at least once.
AllDelivered == \A m \in scheduled : m.delta \in heard[m.to]

\* The variables have their types.
TypeOK ==
    /\ now \in 0..MaxTick
    /\ streams \in [Robots -> [Edges ->
                      [last_sequence : 0..MaxSequence,
                       last_observed_at : 0..MaxTick]]]
    /\ knowledge \in [Participants ->
                      [overlay : SUBSET Delta, version : Nat,
                       progression : SUBSET Delta]]
    /\ downLinks \subseteq Robots \X Participants
    /\ scheduled \subseteq [to : Participants, delta : Delta]
    /\ heard \in [Participants -> SUBSET Delta]
    /\ announced \subseteq Robots

(* What a participant believes of an edge is the best of all it was ever   *)
(* offered about it, whatever was lost, repeated or late in between.       *)
WinnerIsBestHeard ==
    \A p \in Participants, e \in Edges :
        LET all == HeardAbout(p, e)
        IN  Winner(knowledge[p], e) =
              {d \in all : \A h \in all \ {d} : Better(d, h)}
            /\ (all # {} => Winner(knowledge[p], e) # {})

(* The progression records are, per source and edge, the last word of that *)
(* stream the participant was offered -- also where another source's word  *)
(* is the winner.                                                          *)
ProgressionIsLatestHeard ==
    \A p \in Participants, r \in Robots, e \in Edges :
        LET stream == {d \in heard[p] : d.source = r /\ d.edge = e}
        IN  Latest(knowledge[p], r, e) =
              {d \in stream : \A h \in stream :
                                 h.source_sequence <= d.source_sequence}

(* Arrival order does not matter: participants that were offered the same  *)
(* deltas about an edge believe the same of it, provenance included        *)
(* (ADR-004, decision 4).                                                  *)
SameHeardSameBelief ==
    \A p, q \in Participants, e \in Edges :
        HeardAbout(p, e) = HeardAbout(q, e) => Agree(p, q, e)

(* The weaker half of it: they agree at least on whether it is blocked.    *)
SameHeardSameStatus ==
    \A p, q \in Participants, e \in Edges :
        HeardAbout(p, e) = HeardAbout(q, e) =>
            (IsBlocked(knowledge[p], e) <=> IsBlocked(knowledge[q], e))

(* Offering again anything a participant was offered before, however old,  *)
(* changes nothing: not the winners, not the version, not the progression. *)
ReofferChangesNothing ==
    \A p \in Participants : \A d \in heard[p] :
        Reconcile(d, knowledge[p]) = knowledge[p]

(* No delta under way is a protocol violation for its receiver, and one  *)
(* that replaces its own source's winner never carries an older tick: the  *)
(* assertion in reconcile() cannot fire.                                   *)
DeliveriesAreWellFormed ==
    \A m \in scheduled :
        LET k == knowledge[m.to]
        IN  /\ Decision(m.delta, k) # "RejectedConflict"
            /\ Decision(m.delta, k) = "Applied" =>
                 \A s \in Winner(k, m.delta.edge) :
                    s.source = m.delta.source =>
                        m.delta.observed_at >= s.observed_at

(* Once every robot has re-announced over working links and all that was   *)
(* scheduled has arrived, the fleet and the station hold one map:          *)
(* re-announcing the winners alone is enough (ADR-008).                    *)
AgreedWhenAnnounced ==
    announced = Robots /\ AllDelivered =>
        \A p, q \in Participants, e \in Edges : Agree(p, q, e)

(* A belief is never replaced by an observation of an earlier tick, and no *)
(* stream of progression is ever rolled back.                              *)
KnowledgeNeverRollsBack ==
    [][\A p \in Participants :
         /\ \A s \in knowledge[p].overlay : \E t \in knowledge'[p].overlay :
               t.edge = s.edge /\ t.observed_at >= s.observed_at
         /\ \A s \in knowledge[p].progression :
               \E t \in knowledge'[p].progression :
                  /\ t.edge = s.edge /\ t.source = s.source
                  /\ t.source_sequence >= s.source_sequence
      ]_vars

(* Reconciliation implements the abstract map knowledge.                   *)
Abstract == INSTANCE MapKnowledge WITH
    Observations <- Delta,
    observed <- Observed,
    belief <- [p \in Participants |->
                 [e \in Edges |-> Winner(knowledge[p], e)]]

ImplementsMapKnowledge == Abstract!Spec

(* After every robot has re-announced, agreement is reached -- even if     *)
(* robots keep re-announcing -- unless somebody observes something new.    *)
AnnouncementLeadsToAgreement ==
    announced = Robots ~>
        \/ \A p, q \in Participants, e \in Edges : Agree(p, q, e)
        \/ announced # Robots
=============================================================================
