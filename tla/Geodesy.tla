------------------------------ MODULE Geodesy -------------------------------
(***************************************************************************)
(* Where localization's arithmetic gives up.  Of a position only the       *)
(* latitude is kept, in metres north of the equator: longitudes wrap, and  *)
(* a heading is a choice.  An operator whose result the headings or the    *)
(* random draws decide is the set of the results there may be, Exception   *)
(* among them where the code may throw.                                    *)
(***************************************************************************)
EXTENDS Integers

CONSTANTS
    Exception,
    Pole,        \* the latitude of a pole, 90 degrees
    Domain,      \* the end of apply_en_displacement's domain, 89 degrees
    MaxMotion,   \* the end of propagate's domain, 1000 km
    MaxReal,     \* the largest finite double
    MaxNoise     \* the largest sum of the 12 draws of a noise: 6

ASSUME GeodesyAssumption ==
    /\ Domain \in Nat /\ Pole \in Nat /\ MaxMotion \in Nat /\ MaxReal \in Nat
    /\ MaxNoise \in Nat
    /\ Domain <= Pole /\ Pole <= MaxReal /\ MaxMotion <= MaxReal
    /\ Exception \notin Int

Magnitude(x) == IF x < 0 THEN -x ELSE x
IsFinite(x) == Magnitude(x) <= MaxReal

\* sigma_scaled_noise.
Noise(sigma) == (-(MaxNoise * sigma))..(MaxNoise * sigma)

\* apply_en_displacement: neither clamped nor past a pole.
Displaced(latitude, east, north) ==
    IF /\ IsFinite(east) /\ IsFinite(north)
       /\ east # 0 => Magnitude(latitude) <= Domain
       /\ Magnitude(latitude + north) <= Pole
    THEN latitude + north
    ELSE Exception

(* LocalizationTracker::propagate over the stretches of one update, one    *)
(* after the other.  A straight way is a single stretch; how much of the   *)
(* motion lies between two bends of another is left open.  A stretch is    *)
(* walked in steps of up to ten metres, and one that is taken beyond the   *)
(* domain with any motion east throws.                                     *)
Propagated(latitude, motion, config, isStraight) ==
    LET distance == motion * (1 + config.scale)
        isTooMuch == distance > MaxMotion \/ ~IsFinite(motion * config.drift)
        mayLeave == distance # 0 /\ Magnitude(latitude) + distance > Domain
        reachable == {l \in (latitude - distance)..(latitude + distance) : Magnitude(l) <= Pole}
    IN  (IF isTooMuch /\ isStraight THEN {} ELSE reachable) \cup
        (IF isTooMuch \/ mayLeave THEN {Exception} ELSE {})
=============================================================================
