-------------------------- MODULE MCReconciliation --------------------------
(* Reconciliation on small fleets; the bounds are in the configurations.   *)
EXTENDS Reconciliation

\* Only the way from robot 1 to the station is ever cut.
CutStation == {<<1, 0>>}
NoCuts == {}
=============================================================================
