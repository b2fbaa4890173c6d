-------------------------- MODULE MCShortestPath ---------------------------
(* Every subset of seven edges on four zones: two routes of different cost  *)
(* to each zone, a cycle whose edges have no weight, a pair of parallel     *)
(* edges, one of them inaccessible.  The searches of both stacks are        *)
(* checked at once: each round may be one of either.                        *)
EXTENDS GraphRouter, TLC

CONSTANTS gate, hall, stand, exit

MCNodes == {gate, hall, stand, exit}

Road(f, t, w, acc) == [from |-> f, to |-> t, weight |-> w, accessible |-> acc]

MCGraphs == SUBSET {
    Road(gate, hall, 1, TRUE), Road(gate, stand, 3, TRUE), Road(hall, stand, 0, TRUE),
    Road(stand, hall, 0, TRUE), Road(stand, exit, 2, TRUE), Road(hall, exit, 4, TRUE),
    Road(hall, exit, 1, FALSE)}

MCExclusions == {{}, {gate}, {hall}, {exit}}

MCMultipliers == {[n \in MCNodes |-> 1], [n \in MCNodes |-> IF n = hall THEN 4 ELSE 1]}

\* A call runs to its end without giving up the event loop.
BothSpec ==
    /\ Init \/ RouterInit
    /\ [][Next \/ RouterNext]_searchVars
    /\ WF_searchVars(Next \/ RouterNext)
=============================================================================
