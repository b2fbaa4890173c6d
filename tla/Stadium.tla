------------------------------ MODULE Stadium ------------------------------
(* The zones of one stadium of the registry, for the modules about its      *)
(* crowd and about its routes.                                              *)
EXTENDS FiniteSets

CONSTANT Zones    \* the ids of the stadium's zones

ASSUME StadiumAssumption == IsFiniteSet(Zones) /\ Zones # {}
=============================================================================
