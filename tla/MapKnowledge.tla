---------------------------- MODULE MapKnowledge ----------------------------
(***************************************************************************)
(* What reconciliation promises, with no network and no event streams in   *)
(* it: observations are ordered by how good they are, each participant     *)
(* believes the best observation it has learned of about each edge, and it *)
(* can only learn of observations that somebody made.  A belief therefore  *)
(* never gets worse, and does not depend on the order of learning.         *)
(***************************************************************************)
CONSTANTS
    Participants,
    Edges,
    Observations,        \* everything that can be observed; o.edge is an edge
    Better(_, _)         \* Better(o, p): o is better knowledge than p

VARIABLES
    observed,            \* the observations made so far
    belief               \* belief[p][e]: what p believes of e; {} or {best}

vars == <<observed, belief>>

TypeOK == /\ observed \subseteq Observations
          /\ belief \in [Participants -> [Edges -> SUBSET Observations]]

Init == /\ observed = {}
        /\ belief = [p \in Participants |-> [e \in Edges |-> {}]]

\* The better of a belief and an observation.
Join(slot, o) == IF \E b \in slot : b = o \/ Better(b, o) THEN slot ELSE {o}

LearnOf(p, o) ==
    belief' = [belief EXCEPT ![p][o.edge] = Join(@, o)]

\* p observes the world: the observation exists, and p knows it.
Observe(p, o) == observed' = observed \cup {o} /\ LearnOf(p, o)

\* p learns, somehow, of an observation somebody made.
Learn(p, o) == o \in observed /\ LearnOf(p, o) /\ UNCHANGED observed

Next == \E p \in Participants, o \in Observations : Observe(p, o) \/ Learn(p, o)

Spec == Init /\ [][Next]_vars
=============================================================================
