------------------------ MODULE ReconciliationProofs ------------------------
(***************************************************************************)
(* What the fleet's reconciliation guarantees for every number of robots   *)
(* and edges and every bound.  The argument is one induction: a            *)
(* participant's knowledge reflects the set of deltas it was offered       *)
(* (Reflects), and -- where no robot reports an edge Blocked and Open      *)
(* again in one tick -- its winners are the best of that set (BestOf).     *)
(* Both are preserved by one reconcile() call whatever the delta, because  *)
(* of what producers guarantee about streams (Consistent, Ascending).      *)
(***************************************************************************)
EXTENDS Reconciliation, TLAPS

Knowledge == [overlay : SUBSET Delta, version : Nat, progression : SUBSET Delta]

SameStream(a, b) == a.source = b.source /\ a.edge = b.edge

\* What every producer guarantees: identities are unique, and ticks do not
\* decrease along a stream.
Consistent(H) ==
    \A a, b \in H : SameStream(a, b) =>
        /\ a.source_sequence = b.source_sequence => a = b
        /\ a.source_sequence < b.source_sequence => a.observed_at <= b.observed_at

\* What they guarantee if they never reopen an edge within a tick.
Ascending(H) ==
    \A a, b \in H : SameStream(a, b) /\ a.source_sequence < b.source_sequence
                      => Better(b, a)

\* k is the knowledge of a participant that was offered H.
Reflects(k, H) ==
    /\ k.overlay \subseteq H
    /\ k.progression \subseteq H
    /\ \A s, t \in k.overlay : s.edge = t.edge => s = t
    /\ \A s, t \in k.progression : SameStream(s, t) => s = t
    /\ \A h \in H : \E l \in k.progression :
          SameStream(l, h) /\ l.source_sequence >= h.source_sequence
    /\ \A h \in H : \E w \in k.overlay : w.edge = h.edge

BestOf(k, H) ==
    \A h \in H : \E w \in k.overlay : w.edge = h.edge /\ (w = h \/ Better(w, h))

-----------------------------------------------------------------------------
(* The order on observations is transitive.                                *)
LEMMA BetterTransitive ==
    ASSUME NEW a \in Delta, NEW b \in Delta, NEW c \in Delta,
           Better(a, b), Better(b, c)
    PROVE  Better(a, c)
BY DEF Better, Supersedes, Delta, EdgeStatus, Robots

(* It is irreflexive and asymmetric.                                       *)
LEMMA BetterAsymmetric ==
    ASSUME NEW a \in Delta, NEW b \in Delta, Better(a, b)
    PROVE  ~Better(b, a) /\ a # b
BY DEF Better, Supersedes, Delta, EdgeStatus, Robots

(* Two sources' observations of an edge are always comparable, and the     *)
(* cross-source order of the code decides.                                 *)
LEMMA CrossSourceTotal ==
    ASSUME NEW a \in Delta, NEW b \in Delta, a.source # b.source
    PROVE  Supersedes(a, b) \/ Supersedes(b, a)
BY DEF Supersedes, Delta, EdgeStatus, Robots

(* What one reconcile() call does to the two stores.                       *)
LEMMA ReconcileEffect ==
    ASSUME NEW k \in Knowledge, NEW d \in Delta,
           d \in k.overlay => IsStale(d, k) \/ IsRepeat(d, k)
    PROVE  /\ Reconcile(d, k) \in Knowledge
           /\ IsStale(d, k) \/ IsRepeat(d, k) => Reconcile(d, k) = k
           /\ ~IsStale(d, k) /\ ~IsRepeat(d, k) =>
                /\ Reconcile(d, k).progression =
                     (k.progression \ Latest(k, d.source, d.edge)) \cup {d}
                /\ IsDominated(d, k) => Reconcile(d, k).overlay = k.overlay
                /\ ~IsDominated(d, k) => Reconcile(d, k).overlay =
                     (k.overlay \ Winner(k, d.edge)) \cup {d}
<1>1. CASE IsStale(d, k)
  BY <1>1 DEF Reconcile, Decision, IsRepeat
<1>2. CASE IsRepeat(d, k)
  <2>1. Decision(d, k) \in {"Duplicate", "RejectedConflict"}
    BY <1>2 DEF Decision, IsRepeat
  <2>. QED BY <1>2, <2>1 DEF Reconcile, IsRepeat
<1>3. CASE ~IsStale(d, k) /\ ~IsRepeat(d, k) /\ IsDominated(d, k)
  <2>1. Decision(d, k) = "Dominated"
    BY <1>3 DEF Decision
  <2>2. Reconcile(d, k) = RecordProgression(d, k)
    BY <2>1 DEF Reconcile
  <2>. QED BY <1>3, <2>2 DEF RecordProgression, Knowledge
<1>4. CASE ~IsStale(d, k) /\ ~IsRepeat(d, k) /\ ~IsDominated(d, k)
  <2>1. Decision(d, k) = "Applied"
    BY <1>4 DEF Decision
  <2>2. Reconcile(d, k) = RecordProgression(d, Apply(d, k))
    BY <2>1 DEF Reconcile
  <2>3. d \notin k.overlay
    BY <1>4
  <2>4. Apply(d, k) = [k EXCEPT !.overlay = (@ \ Winner(k, d.edge)) \cup {d},
                                !.version = @ + 1]
    BY <2>3 DEF Apply
  <2>5. /\ Apply(d, k) \in Knowledge
        /\ Apply(d, k).progression = k.progression
        /\ Apply(d, k).overlay = (k.overlay \ Winner(k, d.edge)) \cup {d}
    <3> DEFINE won == (k.overlay \ Winner(k, d.edge)) \cup {d}
    <3>1. won \in SUBSET Delta /\ k.version + 1 \in Nat
      BY DEF Knowledge
    <3>2. Apply(d, k) = [k EXCEPT !.overlay = won, !.version = k.version + 1]
      BY <2>4 DEF Knowledge
    <3> HIDE DEF won
    <3>. QED
      BY <3>1, <3>2 DEF Knowledge, won
  <2>6. Latest(Apply(d, k), d.source, d.edge) = Latest(k, d.source, d.edge)
    BY <2>5 DEF Latest
  <2>7. /\ Reconcile(d, k) \in Knowledge
        /\ Reconcile(d, k).overlay = Apply(d, k).overlay
        /\ Reconcile(d, k).progression =
             (k.progression \ Latest(k, d.source, d.edge)) \cup {d}
    BY <2>2, <2>5, <2>6 DEF RecordProgression, Knowledge
  <2>. QED
    BY <1>4, <2>5, <2>7
<1>. QED
  BY <1>1, <1>2, <1>3, <1>4

(* A participant's knowledge keeps reflecting what it was offered.         *)
LEMMA ReconcileReflects ==
    ASSUME NEW H \in SUBSET Delta, NEW k \in Knowledge, NEW d \in Delta,
           Consistent(H \cup {d}), Reflects(k, H)
    PROVE  /\ Reflects(Reconcile(d, k), H \cup {d})
           /\ Reconcile(d, k) \in Knowledge
<1> DEFINE n == Reconcile(d, k)
<1>1. d \in k.overlay => IsStale(d, k) \/ IsRepeat(d, k)
  BY DEF Reflects, IsStale, IsRepeat, Latest, SameStream, Delta
<1>2. CASE IsStale(d, k)
  <2>1. n = k
    BY <1>1, <1>2, ReconcileEffect
  <2>2. PICK p \in k.progression :
          SameStream(p, d) /\ d.source_sequence < p.source_sequence
    BY <1>2 DEF IsStale, Latest, SameStream, Delta
  <2>3. \E w \in k.overlay : w.edge = d.edge
    BY <2>2 DEF Reflects, SameStream
  <2>. QED
    BY <2>1, <2>2, <2>3 DEF Reflects, SameStream, Delta, Knowledge
<1>3. CASE IsRepeat(d, k)
  <2>1. n = k
    BY <1>1, <1>3, ReconcileEffect
  <2>2. d \in k.progression
    BY <1>3 DEF IsRepeat, Latest, Consistent, Reflects, SameStream, Delta
  <2>. QED
    BY <2>1, <2>2 DEF Reflects, SameStream, Delta
<1>4. CASE ~IsStale(d, k) /\ ~IsRepeat(d, k)
  <2>1. n.progression = (k.progression \ Latest(k, d.source, d.edge)) \cup {d}
    BY <1>1, <1>4, ReconcileEffect
  <2>2. n.overlay = k.overlay \/ n.overlay = (k.overlay \ Winner(k, d.edge)) \cup {d}
    BY <1>1, <1>4, ReconcileEffect
  <2>3. n.overlay = k.overlay => Winner(k, d.edge) # {}
    BY <1>1, <1>4, ReconcileEffect DEF IsDominated
  <2>4. \A l \in Latest(k, d.source, d.edge) : l.source_sequence < d.source_sequence
    BY <1>4 DEF IsStale, IsRepeat, Latest, Knowledge, Delta
  <2>5. /\ n.progression \subseteq H \cup {d}
        /\ \A s, t \in n.progression : SameStream(s, t) => s = t
    BY <2>1 DEF Reflects, Latest, SameStream
  <2>6. \A h \in H \cup {d} : \E l \in n.progression :
          SameStream(l, h) /\ l.source_sequence >= h.source_sequence
    <3>1. SUFFICES ASSUME NEW h \in H
                   PROVE  \E l \in n.progression :
                            SameStream(l, h) /\ l.source_sequence >= h.source_sequence
      BY <2>1 DEF SameStream, Delta
    <3>2. PICK l \in k.progression :
            SameStream(l, h) /\ l.source_sequence >= h.source_sequence
      BY DEF Reflects
    <3>3. CASE l \in n.progression
      BY <3>2, <3>3
    <3>4. CASE l \notin n.progression
      <4>1. l \in Latest(k, d.source, d.edge)
        BY <2>1, <3>4
      <4>2. SameStream(d, h) /\ l.source_sequence < d.source_sequence
        BY <2>4, <3>2, <4>1 DEF SameStream, Latest
      <4>3. h.source_sequence \in Int /\ l.source_sequence \in Int
              /\ d.source_sequence \in Int
        BY DEF Delta, Knowledge
      <4>. QED
        BY <2>1, <3>2, <4>2, <4>3
    <3>. QED
      BY <3>3, <3>4
  <2>7. /\ n.overlay \subseteq H \cup {d}
        /\ \A s, t \in n.overlay : s.edge = t.edge => s = t
    BY <2>2 DEF Reflects, Winner
  <2>8. \A h \in H \cup {d} : \E w \in n.overlay : w.edge = h.edge
    BY <2>2, <2>3 DEF Reflects, Winner
  <2>9. n \in Knowledge
    BY <1>1, ReconcileEffect
  <2>. QED
    BY <2>5, <2>6, <2>7, <2>8, <2>9 DEF Reflects
<1>. QED
  BY <1>2, <1>3, <1>4

(* Where streams ascend, one reconcile() call joins the delta into the     *)
(* winner of its edge: it keeps a winner as good as the delta, and         *)
(* otherwise the delta is better than any and takes the place.             *)
LEMMA ReconcileJoins ==
    ASSUME NEW H \in SUBSET Delta, NEW k \in Knowledge, NEW d \in Delta,
           Consistent(H \cup {d}), Ascending(H \cup {d}),
           Reflects(k, H), BestOf(k, H)
    PROVE  \/ /\ \E s \in Winner(k, d.edge) : s = d \/ Better(s, d)
              /\ Reconcile(d, k).overlay = k.overlay
           \/ /\ \A s \in Winner(k, d.edge) : Better(d, s)
              /\ Reconcile(d, k).overlay = (k.overlay \ Winner(k, d.edge)) \cup {d}
<1> DEFINE n == Reconcile(d, k)
<1>1. d \in k.overlay => IsStale(d, k) \/ IsRepeat(d, k)
  BY DEF Reflects, IsStale, IsRepeat, Latest, SameStream, Delta
<1>2. CASE IsStale(d, k)
  <2>1. n = k
    BY <1>1, <1>2, ReconcileEffect
  <2>2. PICK p \in k.progression :
          SameStream(p, d) /\ d.source_sequence < p.source_sequence
    BY <1>2 DEF IsStale, Latest, SameStream, Delta
  <2>3. p \in H /\ Better(p, d)
    BY <2>2 DEF Reflects, Ascending, SameStream
  <2>4. PICK w \in k.overlay : w.edge = p.edge /\ (w = p \/ Better(w, p))
    BY <2>3 DEF BestOf
  <2>5. Better(w, d)
    BY <2>3, <2>4, BetterTransitive DEF Reflects
  <2>. QED
    BY <2>1, <2>2, <2>4, <2>5 DEF Winner, SameStream
<1>3. CASE IsRepeat(d, k)
  <2>1. n = k
    BY <1>1, <1>3, ReconcileEffect
  <2>2. d \in H
    BY <1>3 DEF IsRepeat, Latest, Consistent, Reflects, SameStream, Delta
  <2>. QED
    BY <2>1, <2>2 DEF BestOf, Winner
<1>4. CASE ~IsStale(d, k) /\ ~IsRepeat(d, k) /\ IsDominated(d, k)
  <2>1. n.overlay = k.overlay
    BY <1>1, <1>4, ReconcileEffect
  <2>2. PICK s \in Winner(k, d.edge) : s.source # d.source /\ ~Supersedes(d, s)
    BY <1>4 DEF IsDominated
  <2>3. Better(s, d)
    BY <2>2, CrossSourceTotal DEF Better, Reflects, Winner
  <2>. QED
    BY <2>1, <2>2, <2>3
<1>5. CASE ~IsStale(d, k) /\ ~IsRepeat(d, k) /\ ~IsDominated(d, k)
  <2>1. n.overlay = (k.overlay \ Winner(k, d.edge)) \cup {d}
    BY <1>1, <1>5, ReconcileEffect
  <2>2. \A l \in Latest(k, d.source, d.edge) : l.source_sequence < d.source_sequence
    BY <1>5 DEF IsStale, IsRepeat, Latest, Knowledge, Delta
  <2>3. ASSUME NEW s \in Winner(k, d.edge)
        PROVE  Better(d, s)
    <3>1. s \in H /\ s.edge = d.edge
      BY DEF Winner, Reflects
    <3>2. CASE s.source # d.source
      BY <1>5, <3>2 DEF IsDominated, Better
    <3>3. CASE s.source = d.source
      <4>1. PICK l \in k.progression :
              SameStream(l, s) /\ l.source_sequence >= s.source_sequence
        BY <3>1 DEF Reflects
      <4>2. l \in Latest(k, d.source, d.edge)
        BY <3>1, <3>3, <4>1 DEF Latest, SameStream
      <4>3. s.source_sequence < d.source_sequence
        <5>1. s.source_sequence \in Int /\ l.source_sequence \in Int
                /\ d.source_sequence \in Int
          BY <3>1 DEF Delta, Knowledge
        <5>. QED
          BY <2>2, <4>1, <4>2, <5>1
      <4>. QED
        BY <3>1, <3>3, <4>3 DEF Ascending, SameStream
    <3>. QED
      BY <3>2, <3>3
  <2>. QED
    BY <2>1, <2>3
<1>. QED
  BY <1>2, <1>3, <1>4, <1>5

(* So a participant's winners stay the best it was offered.                *)
LEMMA ReconcileBest ==
    ASSUME NEW H \in SUBSET Delta, NEW k \in Knowledge, NEW d \in Delta,
           Consistent(H \cup {d}), Ascending(H \cup {d}),
           Reflects(k, H), BestOf(k, H)
    PROVE  BestOf(Reconcile(d, k), H \cup {d})
<1> DEFINE n == Reconcile(d, k)
<1>1. CASE /\ \E s \in Winner(k, d.edge) : s = d \/ Better(s, d)
           /\ n.overlay = k.overlay
  BY <1>1 DEF BestOf, Winner
<1>2. CASE /\ \A s \in Winner(k, d.edge) : Better(d, s)
           /\ n.overlay = (k.overlay \ Winner(k, d.edge)) \cup {d}
  <2>1. SUFFICES ASSUME NEW h \in H
                 PROVE  \E w \in n.overlay : w.edge = h.edge /\ (w = h \/ Better(w, h))
    BY <1>2 DEF BestOf
  <2>2. PICK w \in k.overlay : w.edge = h.edge /\ (w = h \/ Better(w, h))
    BY DEF BestOf
  <2>3. CASE w \in n.overlay
    BY <2>2, <2>3
  <2>4. CASE w \notin n.overlay
    <3>1. w \in Winner(k, d.edge) /\ w.edge = d.edge
      BY <1>2, <2>4 DEF Winner
    <3>2. Better(d, h)
      BY <1>2, <2>2, <3>1, BetterTransitive DEF Reflects
    <3>. QED
      BY <1>2, <2>2, <3>1, <3>2
  <2>. QED
    BY <2>3, <2>4
<1>. QED
  BY <1>1, <1>2, ReconcileJoins

-----------------------------------------------------------------------------
(* What producers and the transport guarantee: every stream's last         *)
(* sequence and tick bound what was observed, a robot was offered all it   *)
(* observed, and nothing is delivered that was not observed.               *)
StreamsInv ==
    /\ Consistent(Observed)
    /\ \A d \in Observed :
         /\ d \in heard[d.source]
         /\ d.source_sequence <= streams[d.source][d.edge].last_sequence
         /\ d.observed_at <= streams[d.source][d.edge].last_observed_at
    /\ \A r \in Robots, e \in Edges :
         streams[r][e].last_sequence > 0 =>
            \E d \in heard[r] :
               /\ d.source = r /\ d.edge = e
               /\ d.source_sequence = streams[r][e].last_sequence
    /\ \A m \in scheduled : m.delta \in Observed

KnowledgeInv == \A p \in Participants : Reflects(knowledge[p], heard[p])

\* The inductive invariant, for any producers.
Inv == TypeOK /\ StreamsInv /\ KnowledgeInv

(* Offering one delta that fits the streams keeps everybody's knowledge.   *)
LEMMA OfferKeeps ==
    ASSUME TypeOK, KnowledgeInv, NEW p \in Participants, NEW d \in Delta,
           Consistent(Observed \cup {d}), Offer(p, d)
    PROVE  /\ knowledge' \in [Participants -> Knowledge]
           /\ heard' \in [Participants -> SUBSET Delta]
           /\ heard'[p] = heard[p] \cup {d}
           /\ \A q \in Participants \ {p} : heard'[q] = heard[q]
           /\ KnowledgeInv'
           /\ Observed' = Observed \cup {d}
<1>1. /\ knowledge[p] \in Knowledge
      /\ heard[p] \in SUBSET Delta
  BY DEF TypeOK, Knowledge
<1>2. Consistent(heard[p] \cup {d})
  BY DEF Consistent, Observed
<1>3. Reflects(knowledge[p], heard[p])
  BY DEF KnowledgeInv
<1>4. /\ Reflects(Reconcile(d, knowledge[p]), heard[p] \cup {d})
      /\ Reconcile(d, knowledge[p]) \in Knowledge
  BY <1>1, <1>2, <1>3, ReconcileReflects
<1>5. /\ knowledge' = [knowledge EXCEPT ![p] = Reconcile(d, knowledge[p])]
      /\ heard' = [heard EXCEPT ![p] = heard[p] \cup {d}]
  BY DEF Offer
<1>6. /\ knowledge' \in [Participants -> Knowledge]
      /\ heard' \in [Participants -> SUBSET Delta]
      /\ heard'[p] = heard[p] \cup {d}
      /\ knowledge'[p] = Reconcile(d, knowledge[p])
      /\ \A q \in Participants \ {p} :
            heard'[q] = heard[q] /\ knowledge'[q] = knowledge[q]
  BY <1>1, <1>4, <1>5 DEF TypeOK, Knowledge
<1>7. KnowledgeInv'
  BY <1>4, <1>6 DEF KnowledgeInv
<1>8. Observed' = Observed \cup {d}
  BY <1>6 DEF Observed
<1>. QED
  BY <1>6, <1>7, <1>8

(* Observe keeps the invariant: the new delta fits its stream.             *)
LEMMA ObserveKeeps ==
    ASSUME Inv, NEW r \in Robots, NEW e \in Edges, NEW status \in EdgeStatus,
           NEW at \in 0..MaxTick, NEW sent \in Outcomes(r, {NewDelta(r, e, status, at)}),
           Observe(r, e, status, at, sent)
    PROVE  /\ Inv'
           /\ NewDelta(r, e, status, at) \in Delta
           /\ Consistent(Observed \cup {NewDelta(r, e, status, at)})
           /\ Observed' = Observed \cup {NewDelta(r, e, status, at)}
           /\ Offer(r, NewDelta(r, e, status, at))
<1> DEFINE d == NewDelta(r, e, status, at)
           last == streams[r][e].last_sequence
<1> USE ConstantsAssumption
<1>1. /\ last \in 0..MaxSequence
      /\ streams[r][e].last_observed_at \in 0..MaxTick
      /\ last < MaxSequence
      /\ at >= streams[r][e].last_observed_at
  BY DEF Inv, TypeOK, Observe
<1>2. d \in Delta /\ d.source = r /\ d.edge = e /\ d.observed_at = at
        /\ d.source_sequence = last + 1 /\ d.status = status
  BY <1>1 DEF NewDelta, Delta
<1>3. Observed \subseteq Delta
  BY DEF Inv, TypeOK, Observed
<1>4. \A a \in Observed : SameStream(a, d) =>
         a.source_sequence < d.source_sequence /\ a.observed_at <= d.observed_at
  BY <1>1, <1>2, <1>3 DEF Inv, StreamsInv, SameStream, Delta
<1>5. Consistent(Observed \cup {d})
  BY <1>2, <1>3, <1>4 DEF Inv, StreamsInv, Consistent, SameStream, Delta
<1>6. Offer(r, d) /\ streams' = [streams EXCEPT ![r][e] =
                       [last_sequence |-> d.source_sequence, last_observed_at |-> at]]
  BY DEF Observe
<1>7. r \in Participants
  BY DEF Robots, Participants
<1>8. /\ knowledge' \in [Participants -> Knowledge]
      /\ heard' \in [Participants -> SUBSET Delta]
      /\ heard'[r] = heard[r] \cup {d}
      /\ \A q \in Participants \ {r} : heard'[q] = heard[q]
      /\ KnowledgeInv'
      /\ Observed' = Observed \cup {d}
  BY <1>2, <1>5, <1>6, <1>7, OfferKeeps DEF Inv
<1>9. /\ streams' \in [Robots -> [Edges -> [last_sequence : 0..MaxSequence,
                                         last_observed_at : 0..MaxTick]]]
      /\ streams'[r][e] = [last_sequence |-> last + 1, last_observed_at |-> at]
      /\ \A q \in Robots, f \in Edges :
           q # r \/ f # e => streams'[q][f] = streams[q][f]
  BY <1>1, <1>2, <1>6 DEF Inv, TypeOK
<1>10. scheduled' = scheduled \cup sent /\ sent \subseteq Addressed(r, {d})
  BY DEF Observe, Emit, Outcomes, Sendable
<1>11. TypeOK'
  <2>1. sent \subseteq [to : Participants, delta : Delta]
    BY <1>2, <1>10 DEF Addressed
  <2>. QED
    BY <1>8, <1>9, <1>10, <2>1 DEF Inv, TypeOK, Observe, Knowledge
<1>12. StreamsInv'
  <2>1. Consistent(Observed')
    BY <1>5, <1>8
  <2>2. ASSUME NEW a \in Observed'
        PROVE  /\ a \in heard'[a.source]
               /\ a.source_sequence <= streams'[a.source][a.edge].last_sequence
               /\ a.observed_at <= streams'[a.source][a.edge].last_observed_at
    <3>1. CASE a = d
      BY <1>1, <1>2, <1>8, <1>9, <3>1
    <3>2. CASE a \in Observed
      <4>1. a \in Delta /\ a.source \in Robots /\ a.edge \in Edges /\ a.source \in Participants
        BY <1>3, <3>2 DEF Delta, Robots, Participants
      <4>2. a \in heard'[a.source]
        BY <1>8, <3>2, <4>1 DEF Inv, StreamsInv
      <4>3. CASE a.source = r /\ a.edge = e
        <5>1. a.source_sequence < last + 1 /\ a.observed_at <= at
          BY <1>2, <1>4, <3>2, <4>3 DEF SameStream
        <5>2. a.source_sequence \in Int /\ last \in Int
          BY <1>1, <4>1 DEF Delta
        <5>. QED
          BY <1>9, <4>2, <4>3, <5>1, <5>2
      <4>4. CASE a.source # r \/ a.edge # e
        BY <1>9, <3>2, <4>1, <4>2, <4>4 DEF Inv, StreamsInv
      <4>. QED
        BY <4>3, <4>4
    <3>. QED
      BY <1>8, <3>1, <3>2
  <2>3. ASSUME NEW q \in Robots, NEW f \in Edges, streams'[q][f].last_sequence > 0
        PROVE  \E a \in heard'[q] : /\ a.source = q /\ a.edge = f
                                    /\ a.source_sequence = streams'[q][f].last_sequence
    <3>1. CASE q = r /\ f = e
      BY <1>2, <1>8, <1>9, <3>1
    <3>2. CASE q # r \/ f # e
      <4>1. heard[q] \subseteq heard'[q]
        BY <1>8 DEF Robots, Participants
      <4>. QED
        BY <1>9, <2>3, <3>2, <4>1 DEF Inv, StreamsInv
    <3>. QED
      BY <3>1, <3>2
  <2>4. \A m \in scheduled' : m.delta \in Observed'
    BY <1>8, <1>10 DEF Inv, StreamsInv, Addressed
  <2>. QED
    BY <2>1, <2>2, <2>3, <2>4 DEF StreamsInv
<1>. QED
  BY <1>2, <1>5, <1>6, <1>8, <1>11, <1>12 DEF Inv

(* Re-announcing keeps it: winners are deltas somebody observed.           *)
LEMMA ResynchronizeKeeps ==
    ASSUME Inv, NEW r \in Robots, NEW sent \in Outcomes(r, knowledge[r].overlay),
           Resynchronize(r, sent)
    PROVE  Inv'
<1>1. r \in Participants
  BY DEF Robots, Participants
<1>2. knowledge[r].overlay \subseteq heard[r] /\ heard[r] \subseteq Observed
  BY <1>1 DEF Inv, KnowledgeInv, Reflects, Observed
<1>3. /\ knowledge[r].overlay \subseteq Observed
      /\ knowledge[r].overlay \subseteq Delta
  BY <1>1, <1>2 DEF Inv, TypeOK
<1>4. /\ scheduled' = scheduled \cup sent
      /\ sent \subseteq Addressed(r, knowledge[r].overlay)
      /\ UNCHANGED <<now, streams, knowledge, downLinks, heard>>
      /\ announced' \in {announced, announced \cup {r}}
  BY DEF Resynchronize, Emit, Outcomes, Sendable
<1>5. TypeOK'
  BY <1>3, <1>4 DEF Inv, TypeOK, Addressed
<1>6. Observed' = Observed
  BY <1>4 DEF Observed
<1>7. \A m \in scheduled' : m.delta \in Observed
  BY <1>3, <1>4 DEF Inv, StreamsInv, Addressed
<1>8. StreamsInv'
  BY <1>4, <1>6, <1>7 DEF Inv, StreamsInv
<1>9. KnowledgeInv'
  BY <1>4 DEF Inv, KnowledgeInv
<1>. QED
  BY <1>5, <1>8, <1>9 DEF Inv

(* A delivery keeps it: what arrives is consistent with all that was said. *)
LEMMA DeliverKeeps ==
    ASSUME Inv, NEW m \in scheduled, Deliver(m)
    PROVE  /\ Inv'
           /\ Observed' = Observed
           /\ m.delta \in Observed /\ m.delta \in Delta /\ m.to \in Participants
           /\ heard'[m.to] = heard[m.to] \cup {m.delta}
           /\ \A q \in Participants \ {m.to} : heard'[q] = heard[q]
<1>1. m.to \in Participants /\ m.delta \in Delta /\ m.delta \in Observed
  BY DEF Inv, TypeOK, StreamsInv
<1>2. Observed \cup {m.delta} = Observed
  BY <1>1
<1>3. Consistent(Observed \cup {m.delta})
  BY <1>2 DEF Inv, StreamsInv
<1>4. Offer(m.to, m.delta) /\ UNCHANGED <<now, streams, downLinks, scheduled, announced>>
  BY DEF Deliver
<1>5. /\ knowledge' \in [Participants -> Knowledge]
      /\ heard' \in [Participants -> SUBSET Delta]
      /\ heard'[m.to] = heard[m.to] \cup {m.delta}
      /\ \A q \in Participants \ {m.to} : heard'[q] = heard[q]
      /\ KnowledgeInv'
      /\ Observed' = Observed
  BY <1>1, <1>2, <1>3, <1>4, OfferKeeps DEF Inv
<1>6. TypeOK'
  BY <1>4, <1>5 DEF Inv, TypeOK, Knowledge
<1>7. \A q \in Participants : heard[q] \subseteq heard'[q]
  BY <1>5
<1>8. StreamsInv'
  <2>1. /\ Consistent(Observed')
        /\ \A k \in scheduled' : k.delta \in Observed'
    BY <1>4, <1>5 DEF Inv, StreamsInv
  <2>2. Robots \subseteq Participants /\ \A d \in Observed : d.source \in Robots
    BY DEF Inv, TypeOK, Observed, Delta, Robots, Participants
  <2>3. \A d \in Observed' :
          /\ d \in heard'[d.source]
          /\ d.source_sequence <= streams'[d.source][d.edge].last_sequence
          /\ d.observed_at <= streams'[d.source][d.edge].last_observed_at
    BY <1>4, <1>5, <1>7, <2>2 DEF Inv, StreamsInv
  <2>4. \A r \in Robots, e \in Edges :
          streams'[r][e].last_sequence > 0 =>
             \E d \in heard'[r] :
                /\ d.source = r /\ d.edge = e
                /\ d.source_sequence = streams'[r][e].last_sequence
    BY <1>4, <1>7, <2>2 DEF Inv, StreamsInv
  <2>. QED
    BY <2>1, <2>3, <2>4 DEF StreamsInv
<1>. QED
  BY <1>1, <1>5, <1>6, <1>8 DEF Inv

(* The invariant holds of every behaviour.                                 *)
THEOREM InvariantHolds == Spec => []Inv
<1> USE ConstantsAssumption
<1>1. Init => Inv
  <2> SUFFICES ASSUME Init PROVE Inv
    OBVIOUS
  <2>1. TypeOK
    BY DEF Init, TypeOK, EmptyKnowledge
  <2>2. Observed = {}
    BY DEF Init, Observed
  <2>3. StreamsInv
    BY <2>2 DEF Init, StreamsInv, Consistent
  <2>4. KnowledgeInv
    BY DEF Init, KnowledgeInv, Reflects, EmptyKnowledge
  <2>. QED
    BY <2>1, <2>3, <2>4 DEF Inv
<1>2. Inv /\ [Next]_vars => Inv'
  <2> SUFFICES ASSUME Inv, [Next]_vars PROVE Inv'
    OBVIOUS
  <2>1. ASSUME NEW r \in Robots, NEW e \in Edges, NEW status \in EdgeStatus,
               NEW at \in 0..MaxTick,
               NEW sent \in Outcomes(r, {NewDelta(r, e, status, at)}),
               Observe(r, e, status, at, sent)
        PROVE  Inv'
    BY <2>1, ObserveKeeps
  <2>2. ASSUME NEW r \in Robots, NEW sent \in Outcomes(r, knowledge[r].overlay),
               Resynchronize(r, sent)
        PROVE  Inv'
    BY <2>2, ResynchronizeKeeps
  <2>3. ASSUME NEW m \in scheduled, Deliver(m)
        PROVE  Inv'
    BY <2>3, DeliverKeeps
  <2>4. ASSUME NEW link \in CutLinks, NEW up \in BOOLEAN,
               SetLinkState(link[1], link[2], up)
        PROVE  Inv'
    <3>1. downLinks' \subseteq Robots \X Participants
            /\ UNCHANGED <<now, streams, knowledge, scheduled, heard, announced>>
      BY <2>4 DEF SetLinkState, Inv, TypeOK, Robots, Participants
    <3>. QED
      BY <3>1 DEF Inv, TypeOK, StreamsInv, KnowledgeInv, Observed
  <2>5. CASE UNCHANGED vars
    BY <2>5 DEF vars, Inv, TypeOK, StreamsInv, KnowledgeInv, Observed
  <2>. QED
    BY <2>1, <2>2, <2>3, <2>4, <2>5 DEF Next
<1>. QED
  BY <1>1, <1>2, PTL DEF Spec

-----------------------------------------------------------------------------
(* The variables keep their types.                                         *)
THEOREM TypeCorrect == Spec => []TypeOK
BY InvariantHolds, PTL DEF Inv

(* Whatever producers do, an event that was offered before -- the latest   *)
(* of its stream or an older one -- leaves the knowledge as it is.         *)
THEOREM ReofferIsIdempotent == Spec => []ReofferChangesNothing
<1>1. Inv => ReofferChangesNothing
  <2> SUFFICES ASSUME Inv, NEW p \in Participants, NEW d \in heard[p]
               PROVE  Reconcile(d, knowledge[p]) = knowledge[p]
    BY DEF ReofferChangesNothing
  <2> DEFINE k == knowledge[p]
  <2>1. /\ k \in Knowledge /\ d \in Delta /\ heard[p] \subseteq Delta
        /\ Reflects(k, heard[p])
    BY DEF Inv, TypeOK, KnowledgeInv, Knowledge
  <2>2. PICK l \in k.progression :
          SameStream(l, d) /\ l.source_sequence >= d.source_sequence
    BY <2>1 DEF Reflects
  <2>3. l \in Latest(k, d.source, d.edge) /\ l \in Delta
    BY <2>1, <2>2 DEF Latest, SameStream, Reflects
  <2>4. IsStale(d, k) \/ IsRepeat(d, k)
    BY <2>1, <2>2, <2>3 DEF IsStale, IsRepeat, Delta
  <2>. QED
    BY <2>1, <2>4, ReconcileEffect
<1>. QED
  BY <1>1, InvariantHolds, PTL

(* Whatever producers do, the progression records are the last word of     *)
(* each stream a participant was offered.                                  *)
THEOREM ProgressionIsExact == Spec => []ProgressionIsLatestHeard
<1>1. Inv => ProgressionIsLatestHeard
  <2> SUFFICES ASSUME Inv, NEW p \in Participants, NEW r \in Robots, NEW e \in Edges
               PROVE  LET stream == {d \in heard[p] : d.source = r /\ d.edge = e}
                      IN  Latest(knowledge[p], r, e) =
                            {d \in stream : \A h \in stream :
                                             h.source_sequence <= d.source_sequence}
    BY DEF ProgressionIsLatestHeard
  <2> DEFINE k == knowledge[p]
             stream == {d \in heard[p] : d.source = r /\ d.edge = e}
  <2>1. /\ k \in Knowledge /\ heard[p] \subseteq Delta /\ Reflects(k, heard[p])
        /\ Consistent(heard[p])
    <3>1. k \in Knowledge /\ heard[p] \subseteq Delta /\ Reflects(k, heard[p])
      BY DEF Inv, TypeOK, KnowledgeInv, Knowledge
    <3>2. Consistent(Observed) /\ heard[p] \subseteq Observed
      BY DEF Inv, StreamsInv, Observed
    <3>. QED
      BY <3>1, <3>2 DEF Consistent
  <2>2. ASSUME NEW l \in Latest(k, r, e)
        PROVE  l \in stream /\ \A h \in stream : h.source_sequence <= l.source_sequence
    BY <2>1 DEF Latest, Reflects, SameStream
  <2>3. ASSUME NEW d \in stream, \A h \in stream : h.source_sequence <= d.source_sequence
        PROVE  d \in Latest(k, r, e)
    <3>1. PICK l \in k.progression :
            SameStream(l, d) /\ l.source_sequence >= d.source_sequence
      BY <2>1 DEF Reflects
    <3>2. l \in stream /\ l \in Latest(k, r, e)
      BY <2>1, <3>1 DEF Latest, SameStream, Reflects
    <3>3. l.source_sequence = d.source_sequence
      <4>1. l.source_sequence \in Int /\ d.source_sequence \in Int
        BY <2>1, <3>2 DEF Delta
      <4>. QED
        BY <2>3, <3>1, <3>2, <4>1
    <3>4. l = d
      BY <2>1, <3>1, <3>2, <3>3 DEF Consistent
    <3>. QED
      BY <3>2, <3>4
  <2>. QED
    BY <2>2, <2>3
<1>. QED
  BY <1>1, InvariantHolds, PTL

(* Whatever producers do, no delivery is a conflict of identities, and the *)
(* assertion on a source's own ticks in reconcile() never fires.           *)
THEOREM DeliveriesWellFormed == Spec => []DeliveriesAreWellFormed
<1>1. Inv => DeliveriesAreWellFormed
  <2> SUFFICES ASSUME Inv, NEW m \in scheduled
               PROVE  LET k == knowledge[m.to]
                      IN  /\ Decision(m.delta, k) # "RejectedConflict"
                          /\ Decision(m.delta, k) = "Applied" =>
                               \A s \in Winner(k, m.delta.edge) :
                                  s.source = m.delta.source =>
                                      m.delta.observed_at >= s.observed_at
    BY DEF DeliveriesAreWellFormed
  <2> DEFINE k == knowledge[m.to]
             d == m.delta
  <2>1. /\ k \in Knowledge /\ Reflects(k, heard[m.to]) /\ d \in Observed
        /\ heard[m.to] \subseteq Observed /\ Observed \subseteq Delta
        /\ Consistent(Observed)
    BY DEF Inv, TypeOK, KnowledgeInv, Knowledge, StreamsInv, Observed
  <2>2. ASSUME IsRepeat(d, k)
        PROVE  d \in Latest(k, d.source, d.edge)
    BY <2>1, <2>2 DEF IsRepeat, Latest, Reflects, Consistent, SameStream
  <2>3. ASSUME ~IsStale(d, k), ~IsRepeat(d, k), NEW s \in Winner(k, d.edge),
               s.source = d.source
        PROVE  d.observed_at >= s.observed_at
    <3>1. s \in Observed /\ SameStream(s, d) /\ s \in heard[m.to]
      BY <2>1, <2>3 DEF Winner, Reflects, SameStream
    <3>2. PICK l \in k.progression :
            SameStream(l, s) /\ l.source_sequence >= s.source_sequence
      BY <2>1, <3>1 DEF Reflects
    <3>3. l.source_sequence < d.source_sequence
      BY <2>1, <2>3, <3>1, <3>2 DEF IsStale, IsRepeat, Latest, SameStream, Delta, Knowledge
    <3>4. s.source_sequence < d.source_sequence
      <4>1. s.source_sequence \in Int /\ l.source_sequence \in Int
              /\ d.source_sequence \in Int
        BY <2>1, <3>1 DEF Delta, Knowledge
      <4>. QED
        BY <3>2, <3>3, <4>1
    <3>5. s.observed_at <= d.observed_at
      BY <2>1, <3>1, <3>4 DEF Consistent
    <3>6. s.observed_at \in Int /\ d.observed_at \in Int
      BY <2>1, <3>1 DEF Delta
    <3>. QED
      BY <3>5, <3>6
  <2>4. Decision(d, k) # "RejectedConflict"
    <3>0. IsRepeat(d, k) => ~IsStale(d, k)
      BY DEF IsRepeat
    <3>1. CASE IsStale(d, k)
      BY <3>1 DEF Decision, IsRepeat
    <3>2. CASE IsRepeat(d, k)
      BY <2>2, <3>0, <3>2 DEF Decision
    <3>3. CASE ~IsStale(d, k) /\ ~IsRepeat(d, k)
      BY <3>3 DEF Decision
    <3>. QED
      BY <3>1, <3>2, <3>3
  <2>5. Decision(d, k) = "Applied" => ~IsStale(d, k) /\ ~IsRepeat(d, k)
    <3>1. CASE IsStale(d, k)
      BY <3>1 DEF Decision, IsRepeat
    <3>2. CASE IsRepeat(d, k)
      BY <3>2 DEF Decision, IsRepeat
    <3>. QED
      BY <3>1, <3>2
  <2>. QED
    BY <2>3, <2>4, <2>5
<1>. QED
  BY <1>1, InvariantHolds, PTL

-----------------------------------------------------------------------------
(* The strengthening for producers that do not reopen an edge in a tick.   *)
AscendingInv ==
    /\ Inv
    /\ Ascending(Observed)
    /\ \A p \in Participants : BestOf(knowledge[p], heard[p])

(* Their new delta is better than all they said in that stream before.     *)
LEMMA ObserveAscends ==
    ASSUME ~SameTickReopen, AscendingInv,
           NEW r \in Robots, NEW e \in Edges, NEW status \in EdgeStatus,
           NEW at \in 0..MaxTick, NEW sent \in Outcomes(r, {NewDelta(r, e, status, at)}),
           Observe(r, e, status, at, sent)
    PROVE  Ascending(Observed \cup {NewDelta(r, e, status, at)})
<1> DEFINE d == NewDelta(r, e, status, at)
           last == streams[r][e].last_sequence
<1> USE ConstantsAssumption
<1>1. /\ last \in Nat /\ last + 1 = d.source_sequence /\ d \in Delta
      /\ d.source = r /\ d.edge = e /\ d.observed_at = at /\ d.status = status
      /\ at >= streams[r][e].last_observed_at
      /\ streams[r][e].last_observed_at \in Int
  BY DEF AscendingInv, Inv, TypeOK, Observe, NewDelta, Delta
<1>2. status = "Blocked" \/ ~JustBlocked(r, e, at)
  BY DEF Observe
<1>3. r \in Participants /\ Observed \subseteq Delta
  BY DEF AscendingInv, Inv, TypeOK, Observed, Robots, Participants
<1>4. ASSUME NEW a \in Observed, SameStream(a, d)
      PROVE  Better(d, a) /\ a.source_sequence <= last
  <2>1. /\ a \in heard[r] /\ a.source_sequence <= last /\ a \in Delta
        /\ a.observed_at <= streams[r][e].last_observed_at
    BY <1>1, <1>3, <1>4 DEF AscendingInv, Inv, StreamsInv, SameStream
  <2>2. last > 0
    BY <1>1, <2>1 DEF Delta
  <2>3. PICK z \in heard[r] : z.source = r /\ z.edge = e /\ z.source_sequence = last
    BY <2>2 DEF AscendingInv, Inv, StreamsInv
  <2>4. z \in Observed /\ z \in Delta /\ z.observed_at <= streams[r][e].last_observed_at
    BY <1>3, <2>3 DEF AscendingInv, Inv, StreamsInv, Observed
  <2>5. z \in Latest(knowledge[r], r, e)
    <3>1. PICK l \in knowledge[r].progression :
            SameStream(l, z) /\ l.source_sequence >= z.source_sequence
      BY <1>3, <2>3 DEF AscendingInv, Inv, KnowledgeInv, Reflects
    <3>2. l \in Observed /\ l \in Delta
      BY <1>3 DEF AscendingInv, Inv, KnowledgeInv, Reflects, Observed
    <3>3. l.source_sequence <= last
      BY <2>3, <3>1, <3>2 DEF AscendingInv, Inv, StreamsInv, SameStream
    <3>4. l.source_sequence = z.source_sequence
      BY <1>1, <2>3, <3>1, <3>2, <3>3 DEF Delta
    <3>5. l = z
      BY <2>4, <3>1, <3>2, <3>4 DEF AscendingInv, Inv, StreamsInv, Consistent
    <3>. QED
      BY <2>3, <3>5 DEF Latest
  <2>6. Better(d, z)
    <3>1. z.observed_at \in Int /\ at \in Int /\ z.observed_at <= at
      BY <1>1, <2>4 DEF Delta
    <3>2. z.observed_at = at => status = "Blocked" \/ z.status # "Blocked"
      BY <1>2, <2>5 DEF JustBlocked
    <3>. QED
      BY <1>1, <2>3, <2>4, <3>1, <3>2 DEF Better, Supersedes, Delta, EdgeStatus
  <2>7. a = z \/ Better(z, a)
    <3>1. SameStream(z, a)
      BY <1>1, <1>4, <2>3 DEF SameStream
    <3>2. CASE a.source_sequence = last
      BY <2>3, <2>4, <3>1, <3>2 DEF AscendingInv, Inv, StreamsInv, Consistent
    <3>3. CASE a.source_sequence < last
      BY <2>3, <2>4, <3>1, <3>3 DEF AscendingInv, Ascending, SameStream
    <3>. QED
      BY <1>1, <2>1, <3>2, <3>3 DEF Delta
  <2>. QED
    BY <1>1, <2>1, <2>4, <2>6, <2>7, BetterTransitive
<1>5. ASSUME NEW a \in Observed \cup {d}, NEW b \in Observed \cup {d},
             SameStream(a, b), a.source_sequence < b.source_sequence
      PROVE  Better(b, a)
  <2>1. a.source_sequence \in Int /\ b.source_sequence \in Int
    BY <1>1, <1>3 DEF Delta
  <2>2. CASE a \in Observed /\ b \in Observed
    BY <1>5, <2>2 DEF AscendingInv, Ascending
  <2>3. CASE a \in Observed /\ b = d
    BY <1>4, <1>5, <2>3
  <2>4. CASE a = d /\ b \in Observed
    BY <1>1, <1>4, <1>5, <2>1, <2>4 DEF SameStream
  <2>5. CASE a = d /\ b = d
    BY <1>5, <2>1, <2>5
  <2>. QED
    BY <2>2, <2>3, <2>4, <2>5
<1>. QED
  BY <1>5 DEF Ascending

(* One offer keeps everybody's winners the best of what they were offered. *)
LEMMA OfferKeepsBest ==
    ASSUME AscendingInv, NEW p \in Participants, NEW d \in Delta,
           Consistent(Observed \cup {d}), Ascending(Observed \cup {d}), Offer(p, d)
    PROVE  \A q \in Participants : BestOf(knowledge'[q], heard'[q])
<1>1. /\ knowledge[p] \in Knowledge /\ heard[p] \in SUBSET Delta
      /\ heard[p] \subseteq Observed
      /\ Reflects(knowledge[p], heard[p]) /\ BestOf(knowledge[p], heard[p])
  BY DEF AscendingInv, Inv, TypeOK, Knowledge, KnowledgeInv, Observed
<1>2. Consistent(heard[p] \cup {d}) /\ Ascending(heard[p] \cup {d})
  BY <1>1 DEF Consistent, Ascending
<1>3. BestOf(Reconcile(d, knowledge[p]), heard[p] \cup {d})
  BY <1>1, <1>2, ReconcileBest
<1>4. /\ knowledge'[p] = Reconcile(d, knowledge[p])
      /\ heard'[p] = heard[p] \cup {d}
      /\ \A q \in Participants \ {p} :
           knowledge'[q] = knowledge[q] /\ heard'[q] = heard[q]
  BY DEF Offer, AscendingInv, Inv, TypeOK
<1>. QED
  BY <1>3, <1>4 DEF AscendingInv

(* The strengthened invariant holds if no robot reopens within a tick.     *)
THEOREM AscendingInvHolds ==
    ASSUME ~SameTickReopen PROVE Spec => []AscendingInv
<1>1. Init => AscendingInv
  <2> SUFFICES ASSUME Init PROVE Ascending(Observed) /\
                 \A p \in Participants : BestOf(knowledge[p], heard[p])
    <3>1. Init => Inv
      BY ConstantsAssumption DEF Init, Inv, TypeOK, EmptyKnowledge, StreamsInv,
         Consistent, Observed, KnowledgeInv, Reflects
    <3>. QED
      BY <3>1 DEF AscendingInv
  <2>. QED
    BY DEF Init, Ascending, Observed, BestOf
<1>2. AscendingInv /\ Inv' /\ [Next]_vars => AscendingInv'
  <2> SUFFICES ASSUME AscendingInv, Inv', [Next]_vars
               PROVE  Ascending(Observed') /\
                      \A p \in Participants : BestOf(knowledge'[p], heard'[p])
    BY DEF AscendingInv
  <2>1. ASSUME NEW r \in Robots, NEW e \in Edges, NEW status \in EdgeStatus,
               NEW at \in 0..MaxTick,
               NEW sent \in Outcomes(r, {NewDelta(r, e, status, at)}),
               Observe(r, e, status, at, sent)
        PROVE  Ascending(Observed') /\
               \A p \in Participants : BestOf(knowledge'[p], heard'[p])
    <3> DEFINE d == NewDelta(r, e, status, at)
    <3>1. Ascending(Observed \cup {d})
      BY <2>1, ObserveAscends
    <3>2. /\ d \in Delta /\ Consistent(Observed \cup {d})
          /\ Observed' = Observed \cup {d} /\ Offer(r, d)
      BY <2>1, ObserveKeeps DEF AscendingInv
    <3>3. r \in Participants
      BY DEF Robots, Participants
    <3> HIDE DEF d
    <3>4. \A p \in Participants : BestOf(knowledge'[p], heard'[p])
      BY <3>1, <3>2, <3>3, OfferKeepsBest
    <3>. QED
      BY <3>1, <3>2, <3>4
  <2>2. ASSUME NEW r \in Robots, NEW sent \in Outcomes(r, knowledge[r].overlay),
               Resynchronize(r, sent)
        PROVE  Ascending(Observed') /\
               \A p \in Participants : BestOf(knowledge'[p], heard'[p])
    BY <2>2 DEF Resynchronize, AscendingInv, Observed
  <2>3. ASSUME NEW m \in scheduled, Deliver(m)
        PROVE  Ascending(Observed') /\
               \A p \in Participants : BestOf(knowledge'[p], heard'[p])
    <3>1. /\ m.delta \in Observed /\ m.delta \in Delta /\ m.to \in Participants
          /\ Observed' = Observed
      BY <2>3, DeliverKeeps DEF AscendingInv
    <3>2. Observed \cup {m.delta} = Observed
      BY <3>1
    <3>3. Consistent(Observed \cup {m.delta}) /\ Ascending(Observed \cup {m.delta})
      BY <3>2 DEF AscendingInv, Inv, StreamsInv
    <3>4. Offer(m.to, m.delta)
      BY <2>3 DEF Deliver
    <3>5. \A p \in Participants : BestOf(knowledge'[p], heard'[p])
      BY <3>1, <3>3, <3>4, OfferKeepsBest
    <3>. QED
      BY <3>1, <3>5 DEF AscendingInv
  <2>4. ASSUME NEW link \in CutLinks, NEW up \in BOOLEAN,
               SetLinkState(link[1], link[2], up)
        PROVE  Ascending(Observed') /\
               \A p \in Participants : BestOf(knowledge'[p], heard'[p])
    BY <2>4 DEF SetLinkState, AscendingInv, Observed
  <2>5. CASE UNCHANGED vars
    BY <2>5 DEF vars, AscendingInv, Observed
  <2>. QED
    BY <2>1, <2>2, <2>3, <2>4, <2>5 DEF Next
<1>. QED
  BY <1>1, <1>2, InvariantHolds, PTL DEF Spec

(* Then a winner is the one best delta of those offered about its edge ... *)
LEMMA WinnerIsBest == AscendingInv => WinnerIsBestHeard
<1> SUFFICES ASSUME AscendingInv, NEW p \in Participants, NEW e \in Edges
             PROVE  LET all == HeardAbout(p, e)
                    IN  Winner(knowledge[p], e) =
                          {d \in all : \A h \in all \ {d} : Better(d, h)}
                        /\ (all # {} => Winner(knowledge[p], e) # {})
  BY DEF WinnerIsBestHeard
<1> DEFINE k == knowledge[p]
           all == HeardAbout(p, e)
<1>1. /\ heard[p] \subseteq Delta /\ Reflects(k, heard[p]) /\ BestOf(k, heard[p])
  BY DEF AscendingInv, Inv, TypeOK, KnowledgeInv
<1>2. ASSUME NEW w \in Winner(k, e)
      PROVE  w \in all /\ \A h \in all \ {w} : Better(w, h)
  BY <1>1 DEF Winner, HeardAbout, Reflects, BestOf
<1>3. ASSUME NEW d \in all, \A h \in all \ {d} : Better(d, h)
      PROVE  d \in Winner(k, e)
  <2>1. PICK w \in k.overlay : w.edge = e /\ (w = d \/ Better(w, d))
    BY <1>1, <1>3 DEF HeardAbout, BestOf
  <2>2. w \in all /\ w \in Delta /\ d \in Delta
    BY <1>1, <2>1 DEF HeardAbout, Reflects
  <2>3. w = d
    BY <1>3, <2>1, <2>2, BetterAsymmetric
  <2>. QED
    BY <2>1, <2>3 DEF Winner
<1>4. all # {} => Winner(k, e) # {}
  BY <1>1 DEF HeardAbout, BestOf, Winner
<1>. QED
  BY <1>2, <1>3, <1>4

(* ... so what is lost, repeated or late never shows in a belief.          *)
THEOREM BeliefIsBestHeard ==
    ASSUME ~SameTickReopen PROVE Spec => []WinnerIsBestHeard
BY AscendingInvHolds, WinnerIsBest, PTL

(* Arrival order does not matter: participants offered the same deltas     *)
(* believe the same (ADR-004), if no robot reopens an edge within a tick.  *)
THEOREM Convergence ==
    ASSUME ~SameTickReopen PROVE Spec => []SameHeardSameBelief
<1>1. WinnerIsBestHeard => SameHeardSameBelief
  BY DEF WinnerIsBestHeard, SameHeardSameBelief, Agree
<1>. QED
  BY <1>1, BeliefIsBestHeard, PTL

-----------------------------------------------------------------------------
\* q was offered, or is to be offered, something as good as d.
Reaches(d, q) ==
    \E x \in Observed :
        /\ x.edge = d.edge /\ (x = d \/ Better(x, d))
        /\ x \in heard[q] \/ [to |-> q, delta |-> x] \in scheduled

\* What an announced robot observed reaches everybody.
AnnouncedInv ==
    \A d \in Observed, q \in Participants : d.source \in announced => Reaches(d, q)

(* A complete re-announcement puts a match for every observation of the    *)
(* robot on the way to every participant.                                  *)
LEMMA AnnounceReaches ==
    ASSUME AscendingInv, AnnouncedInv,
           NEW r \in Robots, NEW sent \in Outcomes(r, knowledge[r].overlay),
           Resynchronize(r, sent)
    PROVE  AnnouncedInv'
<1>1. /\ scheduled' = scheduled \cup sent /\ heard' = heard /\ Observed' = Observed
      /\ announced' \subseteq announced \cup {r}
      /\ r \in announced' => r \in announced \/ sent = Addressed(r, knowledge[r].overlay)
  BY DEF Resynchronize, Emit, Observed
<1>2. SUFFICES ASSUME NEW d \in Observed, NEW q \in Participants, d.source \in announced'
               PROVE  Reaches(d, q)'
  BY <1>1 DEF AnnouncedInv
<1>3. CASE d.source \in announced
  BY <1>1, <1>3 DEF AnnouncedInv, Reaches
<1>4. CASE d.source = r /\ sent = Addressed(r, knowledge[r].overlay)
  <2>1. d \in heard[r] /\ r \in Participants
    BY <1>4 DEF AscendingInv, Inv, StreamsInv, Robots, Participants
  <2>2. PICK w \in knowledge[r].overlay : w.edge = d.edge /\ (w = d \/ Better(w, d))
    BY <2>1 DEF AscendingInv, BestOf
  <2>3. w \in heard[r] /\ w \in Observed
    BY <2>1, <2>2 DEF AscendingInv, Inv, KnowledgeInv, Reflects, Observed
  <2>4. q # r => [to |-> q, delta |-> w] \in sent
    BY <1>4, <2>2 DEF Addressed
  <2>. QED
    BY <1>1, <2>2, <2>3, <2>4 DEF Reaches
<1>. QED
  BY <1>1, <1>2, <1>3, <1>4

(* Re-announcing the winners alone converges the fleet (ADR-008).          *)
THEOREM AnnouncementConverges ==
    ASSUME ~SameTickReopen PROVE Spec => []AgreedWhenAnnounced
<1>1. Init => AnnouncedInv
  BY DEF Init, AnnouncedInv
<1>2. AscendingInv /\ AnnouncedInv /\ [Next]_vars => AnnouncedInv'
  <2> SUFFICES ASSUME AscendingInv, AnnouncedInv, [Next]_vars PROVE AnnouncedInv'
    OBVIOUS
  <2>1. ASSUME NEW r \in Robots, NEW e \in Edges, NEW status \in EdgeStatus,
               NEW at \in 0..MaxTick,
               NEW sent \in Outcomes(r, {NewDelta(r, e, status, at)}),
               Observe(r, e, status, at, sent)
        PROVE  AnnouncedInv'
    BY <2>1 DEF Observe, AnnouncedInv
  <2>2. ASSUME NEW r \in Robots, NEW sent \in Outcomes(r, knowledge[r].overlay),
               Resynchronize(r, sent)
        PROVE  AnnouncedInv'
    BY <2>2, AnnounceReaches
  <2>3. ASSUME NEW m \in scheduled, Deliver(m)
        PROVE  AnnouncedInv'
    <3>1. /\ Observed' = Observed
          /\ \A q \in Participants : heard[q] \subseteq heard'[q]
      BY <2>3, DeliverKeeps DEF AscendingInv
    <3>2. UNCHANGED <<scheduled, announced>>
      BY <2>3 DEF Deliver
    <3>. QED
      BY <3>1, <3>2 DEF AnnouncedInv, Reaches
  <2>4. ASSUME NEW link \in CutLinks, NEW up \in BOOLEAN,
               SetLinkState(link[1], link[2], up)
        PROVE  AnnouncedInv'
    BY <2>4 DEF SetLinkState, AnnouncedInv, Reaches, Observed
  <2>5. CASE UNCHANGED vars
    BY <2>5 DEF vars, AnnouncedInv, Reaches, Observed
  <2>. QED
    BY <2>1, <2>2, <2>3, <2>4, <2>5 DEF Next
<1>3. AscendingInv /\ AnnouncedInv => AgreedWhenAnnounced
  <2> SUFFICES ASSUME AscendingInv, AnnouncedInv, announced = Robots, AllDelivered,
                      NEW p \in Participants, NEW q \in Participants, NEW e \in Edges
               PROVE  Winner(knowledge[p], e) \subseteq Winner(knowledge[q], e)
    BY DEF AgreedWhenAnnounced, Agree
  <2> SUFFICES ASSUME NEW w \in Winner(knowledge[p], e)
               PROVE  w \in Winner(knowledge[q], e)
    OBVIOUS
  <2>1. /\ Observed \subseteq Delta
        /\ \A t \in Participants : heard[t] \subseteq Observed
        /\ \A t \in Participants : Reflects(knowledge[t], heard[t])
        /\ \A t \in Participants : BestOf(knowledge[t], heard[t])
    BY DEF AscendingInv, Inv, TypeOK, Observed, KnowledgeInv
  <2>2. ASSUME NEW t \in Participants, NEW d \in Observed, d.edge = e
        PROVE  \E v \in Winner(knowledge[t], e) : v = d \/ Better(v, d)
    <3>1. PICK x \in Observed : x.edge = e /\ (x = d \/ Better(x, d)) /\ x \in heard[t]
      <4>1. Reaches(d, t)
        BY <2>1, <2>2 DEF AnnouncedInv, Delta
      <4>. QED
        BY <2>2, <4>1 DEF Reaches, AllDelivered
    <3>2. PICK v \in knowledge[t].overlay : v.edge = e /\ (v = x \/ Better(v, x))
      BY <2>1, <3>1 DEF BestOf
    <3>3. v \in Delta /\ x \in Delta /\ d \in Delta
      BY <2>1, <3>2 DEF Reflects
    <3>. QED
      BY <3>1, <3>2, <3>3, BetterTransitive DEF Winner
  <2>3. w \in Observed /\ w.edge = e
    BY <2>1 DEF Winner, Reflects
  <2>4. PICK v \in Winner(knowledge[q], e) : v = w \/ Better(v, w)
    BY <2>2, <2>3
  <2>5. v \in Observed /\ v.edge = e
    BY <2>1 DEF Winner, Reflects
  <2>6. PICK u \in Winner(knowledge[p], e) : u = v \/ Better(u, v)
    BY <2>2, <2>5
  <2>7. u = w
    BY <2>1 DEF Winner, Reflects
  <2>. QED
    BY <2>1, <2>3, <2>4, <2>5, <2>6, <2>7, BetterAsymmetric
<1>. QED
  BY <1>1, <1>2, <1>3, AscendingInvHolds, PTL DEF Spec

-----------------------------------------------------------------------------
\* n knows at least as recent and as much as k.
AtLeastAsRecent(n, k) ==
    /\ \A s \in k.overlay : \E t \in n.overlay :
          t.edge = s.edge /\ t.observed_at >= s.observed_at
    /\ \A s \in k.progression : \E t \in n.progression :
          t.edge = s.edge /\ t.source = s.source
            /\ t.source_sequence >= s.source_sequence

(* Knowing the same is knowing at least as recent.                         *)
LEMMA SameIsAsRecent ==
    ASSUME NEW k \in Knowledge PROVE AtLeastAsRecent(k, k)
BY DEF AtLeastAsRecent, Knowledge, Delta

(* One reconcile() call never trades a belief for an older observation.    *)
LEMMA ReconcileIsAsRecent ==
    ASSUME NEW H \in SUBSET Delta, NEW k \in Knowledge, NEW d \in Delta,
           Consistent(H \cup {d}), Reflects(k, H)
    PROVE  AtLeastAsRecent(Reconcile(d, k), k)
<1> DEFINE n == Reconcile(d, k)
<1>1. d \in k.overlay => IsStale(d, k) \/ IsRepeat(d, k)
  BY DEF Reflects, IsStale, IsRepeat, Latest, SameStream, Delta
<1>2. CASE IsStale(d, k) \/ IsRepeat(d, k)
  BY <1>1, <1>2, ReconcileEffect, SameIsAsRecent
<1>3. CASE ~IsStale(d, k) /\ ~IsRepeat(d, k)
  <2>1. \A l \in Latest(k, d.source, d.edge) : l.source_sequence < d.source_sequence
    BY <1>3 DEF IsStale, IsRepeat, Latest, Knowledge, Delta
  <2>2. n.progression = (k.progression \ Latest(k, d.source, d.edge)) \cup {d}
    BY <1>1, <1>3, ReconcileEffect
  <2>3. ASSUME NEW s \in k.progression
        PROVE  \E t \in n.progression : t.edge = s.edge /\ t.source = s.source
                  /\ t.source_sequence >= s.source_sequence
    BY <2>1, <2>2 DEF Latest, Knowledge, Delta
  <2>4. ASSUME NEW s \in Winner(k, d.edge), ~IsDominated(d, k)
        PROVE  d.observed_at >= s.observed_at
    <3>1. s \in Delta /\ s \in H
      BY DEF Winner, Reflects
    <3>2. CASE s.source # d.source
      BY <2>4, <3>1, <3>2 DEF IsDominated, Supersedes, Delta
    <3>3. CASE s.source = d.source
      <4>1. PICK l \in k.progression :
              SameStream(l, s) /\ l.source_sequence >= s.source_sequence
        BY <3>1 DEF Reflects
      <4>2. l \in Latest(k, d.source, d.edge)
        BY <3>3, <4>1 DEF Latest, SameStream, Winner
      <4>3. s.source_sequence < d.source_sequence
        <5>1. s.source_sequence \in Int /\ l.source_sequence \in Int
                /\ d.source_sequence \in Int
          BY <3>1 DEF Delta, Knowledge
        <5>. QED
          BY <2>1, <4>1, <4>2, <5>1
      <4>4. s.observed_at <= d.observed_at
        BY <3>1, <3>3, <4>3 DEF Consistent, SameStream, Winner
      <4>. QED
        BY <3>1, <4>4 DEF Delta
    <3>. QED
      BY <3>2, <3>3
  <2>5. ASSUME NEW s \in k.overlay
        PROVE  \E t \in n.overlay : t.edge = s.edge /\ t.observed_at >= s.observed_at
    <3>1. s.observed_at \in Int
      BY DEF Knowledge, Delta
    <3>2. CASE s \in n.overlay
      BY <3>1, <3>2
    <3>3. CASE s \notin n.overlay
      <4>1. /\ ~IsDominated(d, k)
            /\ n.overlay = (k.overlay \ Winner(k, d.edge)) \cup {d}
        BY <1>1, <1>3, <3>3, ReconcileEffect
      <4>2. s \in Winner(k, d.edge) /\ s.edge = d.edge
        BY <3>3, <4>1 DEF Winner
      <4>. QED
        BY <2>4, <4>1, <4>2
    <3>. QED
      BY <3>2, <3>3
  <2>. QED
    BY <2>3, <2>5 DEF AtLeastAsRecent
<1>. QED
  BY <1>2, <1>3

(* Whatever producers do, no belief is replaced by an earlier observation  *)
(* and no stream is rolled back.                                           *)
THEOREM NeverRollsBack == Spec => KnowledgeNeverRollsBack
<1> DEFINE NoRollBack == \A p \in Participants : AtLeastAsRecent(knowledge'[p], knowledge[p])
<1>1. ASSUME Inv, NEW p \in Participants, NEW d \in Delta,
             Consistent(Observed \cup {d}), Offer(p, d)
      PROVE  NoRollBack
  <2>1. /\ \A q \in Participants : knowledge[q] \in Knowledge
        /\ heard[p] \in SUBSET Delta /\ heard[p] \subseteq Observed
        /\ Reflects(knowledge[p], heard[p])
    BY <1>1 DEF Inv, TypeOK, Knowledge, KnowledgeInv, Observed
  <2>2. Consistent(heard[p] \cup {d})
    BY <1>1, <2>1 DEF Consistent
  <2>3. AtLeastAsRecent(Reconcile(d, knowledge[p]), knowledge[p])
    BY <2>1, <2>2, ReconcileIsAsRecent
  <2>4. /\ knowledge'[p] = Reconcile(d, knowledge[p])
        /\ \A q \in Participants \ {p} : knowledge'[q] = knowledge[q]
    BY <1>1 DEF Offer, Inv, TypeOK
  <2>. QED
    BY <2>1, <2>3, <2>4, SameIsAsRecent
<1>2. ASSUME Inv, knowledge' = knowledge
      PROVE  NoRollBack
  BY <1>2, SameIsAsRecent DEF Inv, TypeOK, Knowledge
<1>3. Inv /\ [Next]_vars => NoRollBack
  <2> SUFFICES ASSUME Inv, [Next]_vars PROVE NoRollBack
    OBVIOUS
  <2> HIDE DEF NoRollBack
  <2>1. ASSUME NEW r \in Robots, NEW e \in Edges, NEW status \in EdgeStatus,
               NEW at \in 0..MaxTick,
               NEW sent \in Outcomes(r, {NewDelta(r, e, status, at)}),
               Observe(r, e, status, at, sent)
        PROVE  NoRollBack
    <3> DEFINE d == NewDelta(r, e, status, at)
    <3>1. d \in Delta /\ Consistent(Observed \cup {d}) /\ Offer(r, d)
      BY <2>1, ObserveKeeps
    <3>2. r \in Participants
      BY DEF Robots, Participants
    <3> HIDE DEF d
    <3>. QED
      BY <1>1, <3>1, <3>2
  <2>2. ASSUME NEW m \in scheduled, Deliver(m)
        PROVE  NoRollBack
    <3>1. m.delta \in Delta /\ m.to \in Participants /\ m.delta \in Observed
      BY <2>2, DeliverKeeps
    <3>2. Observed \cup {m.delta} = Observed
      BY <3>1
    <3>3. Consistent(Observed \cup {m.delta})
      BY <3>2 DEF Inv, StreamsInv
    <3>4. Offer(m.to, m.delta)
      BY <2>2 DEF Deliver
    <3>. QED
      BY <1>1, <3>1, <3>3, <3>4
  <2>3. CASE \E r \in Robots : \E sent \in Outcomes(r, knowledge[r].overlay) :
               Resynchronize(r, sent)
    BY <1>2, <2>3 DEF Resynchronize
  <2>4. CASE \E link \in CutLinks, up \in BOOLEAN : SetLinkState(link[1], link[2], up)
    BY <1>2, <2>4 DEF SetLinkState
  <2>5. CASE UNCHANGED vars
    BY <1>2, <2>5 DEF vars
  <2>. QED
    BY <2>1, <2>2, <2>3, <2>4, <2>5 DEF Next
<1>4. Inv /\ [Next]_vars =>
        [\A p \in Participants :
         /\ \A s \in knowledge[p].overlay : \E t \in knowledge'[p].overlay :
               t.edge = s.edge /\ t.observed_at >= s.observed_at
         /\ \A s \in knowledge[p].progression :
               \E t \in knowledge'[p].progression :
                  /\ t.edge = s.edge /\ t.source = s.source
                  /\ t.source_sequence >= s.source_sequence]_vars
  BY <1>3 DEF AtLeastAsRecent
<1>. QED
  BY <1>4, InvariantHolds, PTL DEF Spec, KnowledgeNeverRollsBack

-----------------------------------------------------------------------------
(* One offer is, abstractly, learning of the delta.                        *)
LEMMA OfferLearns ==
    ASSUME AscendingInv, NEW p \in Participants, NEW d \in Delta,
           Consistent(Observed \cup {d}), Ascending(Observed \cup {d}), Offer(p, d)
    PROVE  Abstract!LearnOf(p, d)
<1> DEFINE belief == [q \in Participants |-> [e \in Edges |-> Winner(knowledge[q], e)]]
           k == knowledge[p]
           n == Reconcile(d, k)
<1>1. /\ k \in Knowledge /\ heard[p] \in SUBSET Delta
      /\ heard[p] \subseteq Observed
      /\ Reflects(k, heard[p]) /\ BestOf(k, heard[p])
  BY DEF AscendingInv, Inv, TypeOK, Knowledge, KnowledgeInv, Observed
<1>2. Consistent(heard[p] \cup {d}) /\ Ascending(heard[p] \cup {d})
  BY <1>1 DEF Consistent, Ascending
<1>3. /\ knowledge'[p] = n
      /\ \A q \in Participants \ {p} : knowledge'[q] = knowledge[q]
  BY DEF Offer, AscendingInv, Inv, TypeOK
<1>4. \A s \in Winner(k, d.edge) : s \in Delta
  BY <1>1 DEF Winner, Knowledge
<1>5. Winner(n, d.edge) = Abstract!Join(Winner(k, d.edge), d)
  <2>1. CASE /\ \E s \in Winner(k, d.edge) : s = d \/ Better(s, d)
             /\ n.overlay = k.overlay
    BY <2>1 DEF Abstract!Join, Winner
  <2>2. CASE /\ \A s \in Winner(k, d.edge) : Better(d, s)
             /\ n.overlay = (k.overlay \ Winner(k, d.edge)) \cup {d}
    <3>1. Winner(n, d.edge) = {d}
      BY <2>2 DEF Winner
    <3>2. ~ \E s \in Winner(k, d.edge) : s = d \/ Better(s, d)
      BY <1>4, <2>2, BetterAsymmetric
    <3>. QED
      BY <3>1, <3>2 DEF Abstract!Join
  <2>. QED
    BY <1>1, <1>2, <2>1, <2>2, ReconcileJoins
<1>6. \A e \in Edges \ {d.edge} : Winner(n, e) = Winner(k, e)
  <2>1. n.overlay = k.overlay \/ n.overlay = (k.overlay \ Winner(k, d.edge)) \cup {d}
    BY <1>1, <1>2, ReconcileJoins
  <2>. QED
    BY <2>1 DEF Winner
<1>7. d.edge \in Edges
  BY DEF Delta
<1>8. belief' = [belief EXCEPT ![p][d.edge] = Abstract!Join(@, d)]
  <2> HIDE DEF n
  <2>1. belief'[p] = [belief[p] EXCEPT ![d.edge] = Abstract!Join(Winner(k, d.edge), d)]
    BY <1>3, <1>5, <1>6, <1>7
  <2>2. \A q \in Participants \ {p} : belief'[q] = belief[q]
    BY <1>3
  <2>3. belief[p][d.edge] = Winner(k, d.edge)
    BY <1>7
  <2>. QED
    BY <2>1, <2>2, <2>3
<1>. QED
  BY <1>8 DEF Abstract!LearnOf

(* Reconciliation implements the abstract map knowledge: each observation  *)
(* is observed once, each delivery is learning or nothing.                 *)
THEOREM ReconciliationRefines ==
    ASSUME ~SameTickReopen PROVE Spec => ImplementsMapKnowledge
<1>1. Init => Abstract!Init
  BY DEF Init, Abstract!Init, Observed, Winner, EmptyKnowledge
<1>2. AscendingInv /\ Inv' /\ [Next]_vars => [Abstract!Next]_(Abstract!vars)
  <2> SUFFICES ASSUME AscendingInv, [Next]_vars
               PROVE  [Abstract!Next]_(Abstract!vars)
    OBVIOUS
  <2>1. ASSUME NEW r \in Robots, NEW e \in Edges, NEW status \in EdgeStatus,
               NEW at \in 0..MaxTick,
               NEW sent \in Outcomes(r, {NewDelta(r, e, status, at)}),
               Observe(r, e, status, at, sent)
        PROVE  Abstract!Next
    <3> DEFINE d == NewDelta(r, e, status, at)
    <3>1. Ascending(Observed \cup {d})
      BY <2>1, ObserveAscends
    <3>2. /\ d \in Delta /\ Consistent(Observed \cup {d})
          /\ Observed' = Observed \cup {d} /\ Offer(r, d)
      BY <2>1, ObserveKeeps DEF AscendingInv
    <3>3. r \in Participants
      BY DEF Robots, Participants
    <3> HIDE DEF d
    <3>4. Abstract!Observe(r, d)
      BY <3>1, <3>2, <3>3, OfferLearns DEF Abstract!Observe
    <3>. QED
      BY <3>2, <3>3, <3>4 DEF Abstract!Next
  <2>2. ASSUME NEW m \in scheduled, Deliver(m)
        PROVE  Abstract!Next
    <3>1. /\ m.delta \in Observed /\ m.delta \in Delta /\ m.to \in Participants
          /\ Observed' = Observed
      BY <2>2, DeliverKeeps DEF AscendingInv
    <3>2. Observed \cup {m.delta} = Observed
      BY <3>1
    <3>3. Consistent(Observed \cup {m.delta}) /\ Ascending(Observed \cup {m.delta})
      BY <3>2 DEF AscendingInv, Inv, StreamsInv
    <3>4. Offer(m.to, m.delta)
      BY <2>2 DEF Deliver
    <3>5. Abstract!Learn(m.to, m.delta)
      BY <3>1, <3>3, <3>4, OfferLearns DEF Abstract!Learn
    <3>. QED
      BY <3>1, <3>5 DEF Abstract!Next
  <2>3. CASE UNCHANGED <<knowledge, heard>>
    BY <2>3 DEF Abstract!vars, Observed
  <2>4. CASE \E r \in Robots : \E sent \in Outcomes(r, knowledge[r].overlay) :
               Resynchronize(r, sent)
    BY <2>3, <2>4 DEF Resynchronize
  <2>5. CASE \E link \in CutLinks, up \in BOOLEAN : SetLinkState(link[1], link[2], up)
    BY <2>3, <2>5 DEF SetLinkState
  <2>6. CASE UNCHANGED vars
    BY <2>3, <2>6 DEF vars
  <2>. QED
    BY <2>1, <2>2, <2>4, <2>5, <2>6 DEF Next
<1>. QED
  BY <1>1, <1>2, InvariantHolds, AscendingInvHolds, PTL
     DEF Spec, ImplementsMapKnowledge, Abstract!Spec
=============================================================================
