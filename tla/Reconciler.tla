----------------------------- MODULE Reconciler -----------------------------
(***************************************************************************)
(* The reconciliation policy every participant applies to its own map      *)
(* knowledge: fleet::map::MapReconciler over a DynamicMapOverlay.          *)
(*                                                                         *)
(* A delta is one record: the edge it is about and the observation it      *)
(* wraps.  Its identity is (source, edge, source_sequence).  Confidence is *)
(* left out: it is stored, and no decision reads it.                       *)
(*                                                                         *)
(* A participant's knowledge is a record                                   *)
(*   overlay      the winners, a set with at most one delta per edge;      *)
(*   version      DynamicMapOverlay::version_;                             *)
(*   progression  the latest event processed, at most one delta per        *)
(*                (source, edge).                                          *)
(* Sets of deltas stand for the per-edge slots and the (source, edge) hash *)
(* map; that the keys are unique in them is an invariant of the modules    *)
(* that use these operators.                                               *)
(***************************************************************************)
EXTENDS Integers

EdgeStatus == {"Open", "Blocked"}

EmptyKnowledge == [overlay |-> {}, version |-> 0, progression |-> {}]

\* DynamicMapOverlay::find: the winner of an edge, as a set of at most one.
Winner(k, edge) == {s \in k.overlay : s.edge = edge}

\* The latest event processed from a source about an edge, likewise.
Latest(k, source, edge) ==
    {s \in k.progression : s.source = source /\ s.edge = edge}

\* MapView::is_blocked: an edge nobody reported is open.
IsBlocked(k, edge) == \E s \in Winner(k, edge) : s.status = "Blocked"

(* The cross-source order: newer observation, then Blocked over Open, then *)
(* the higher source id.                                                   *)
Supersedes(candidate, stored) ==
    \/ candidate.observed_at > stored.observed_at
    \/ /\ candidate.observed_at = stored.observed_at
       /\ \/ candidate.status = "Blocked" /\ stored.status = "Open"
          \/ candidate.status = stored.status /\ candidate.source > stored.source

\* Mutant of IsStale: only events without a sequence are refused.
IsUnsequenced(d, k) == d.source_sequence < 1

\* The event is older than what was processed of its stream, or no event.
IsStale(d, k) ==
    \/ d.source_sequence < 1
    \/ \E p \in Latest(k, d.source, d.edge) :
         d.source_sequence < p.source_sequence

\* The latest event of the stream, offered again.
IsRepeat(d, k) ==
    /\ ~IsStale(d, k)
    /\ \E p \in Latest(k, d.source, d.edge) :
         d.source_sequence = p.source_sequence

\* Mutants of IsDominated: the last writer wins, always or in a tie.
IsNeverDominated(d, k) == FALSE
IsDominatedByTick(d, k) ==
    \E s \in Winner(k, d.edge) :
        s.source # d.source /\ s.observed_at > d.observed_at

\* A new event of its stream that loses to another source's winner.
IsDominated(d, k) ==
    \E s \in Winner(k, d.edge) : s.source # d.source /\ ~Supersedes(d, s)

Decision(d, k) ==
    CASE IsStale(d, k)     -> "Stale"
      [] IsRepeat(d, k)    -> IF d \in Latest(k, d.source, d.edge)
                              THEN "Duplicate" ELSE "RejectedConflict"
      [] OTHER             -> IF IsDominated(d, k)
                              THEN "Dominated" ELSE "Applied"

\* Mutant of Apply: an edge that has a winner keeps it.
ApplyFirst(d, k) ==
    IF Winner(k, d.edge) # {}
    THEN k
    ELSE [k EXCEPT !.overlay = @ \cup {d}, !.version = @ + 1]

\* DynamicMapOverlay::apply: storing what is already there changes nothing.
Apply(d, k) ==
    IF d \in k.overlay
    THEN k
    ELSE [k EXCEPT !.overlay = (@ \ Winner(k, d.edge)) \cup {d},
                   !.version = @ + 1]

RecordProgression(d, k) ==
    [k EXCEPT !.progression = (@ \ Latest(k, d.source, d.edge)) \cup {d}]

\* Mutant of Reconcile: a dominated event leaves no progression.
ReconcileWinners(d, k) ==
    IF Decision(d, k) = "Applied" THEN RecordProgression(d, Apply(d, k)) ELSE k

(* MapReconciler::reconcile: what the participant knows after it was       *)
(* offered d.                                                              *)
Reconcile(d, k) ==
    CASE Decision(d, k) = "Applied"   -> RecordProgression(d, Apply(d, k))
      [] Decision(d, k) = "Dominated" -> RecordProgression(d, k)
      [] OTHER                        -> k
=============================================================================
