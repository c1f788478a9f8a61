------------------------------- MODULE Agenda -------------------------------
(***************************************************************************)
(* The event queue as the runs need it: the sequence of its events in the  *)
(* order they will be popped.  That fleet::simulation::EventQueue pops     *)
(* them so -- by tick, and within a tick in the order they were scheduled, *)
(* whoever scheduled them -- is what module EventQueue is about.           *)
(***************************************************************************)
EXTENDS Integers, FiniteSets, SequencesExt

\* Mutant of Enqueue: first come, first served.
EnqueueLast(q, event) == Append(q, event)

\* Behind every event of its tick or an earlier one.
Enqueue(q, event) ==
    InsertAt(q, 1 + Cardinality({i \in DOMAIN q : q[i].at <= event.at}), event)

(* One after the other.  "after" holds one agenda for each number of them, *)
(* in a set, so that a quantifier names it and it is worked out once.      *)
EnqueueAll(q, events) ==
    LET after[i \in 0..Len(events)] ==
          IF i = 0 THEN {q} ELSE {Enqueue(rest, events[i]) : rest \in after[i - 1]}
    IN  CHOOSE all \in after[Len(events)] : TRUE
=============================================================================
