---------------------------- MODULE MCCrowdFlow ----------------------------
(* A gate of 4 places and a stand of 20, big enough to be seeded with a     *)
(* pre-match crowd; counts that reach every level of the stand, and above.  *)
EXTENDS CrowdFlow, TLC

CONSTANTS gate, stand

MCZones == {gate, stand}
MCCapacityOf == (gate :> 4) @@ (stand :> 20)
=============================================================================
