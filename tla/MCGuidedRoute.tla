--------------------------- MODULE MCGuidedRoute ---------------------------
(* A ring of five zones: from zone 3 to zone 1 by zone 2, or by 4 and 0.    *)
EXTENDS GuidedRoute

\* Capacity 10, and 20 at the gate, zone 0.  Two reports leave zones out, one
\* names a zone that the ring lacks.
MCReports ==
    {[counts |-> (0 :> 19 @@ 9 :> 10), event |-> NoEvent],
     [counts |-> (1 :> 7 @@ 2 :> 10), event |-> "HALF_TIME"],
     [counts |-> (0 :> 14 @@ 1 :> 12 @@ 2 :> 3 @@ 4 :> 4), event |-> NoEvent]}

Ask(from, to, accessible, avoid, language) ==
    [origin |-> from, destination |-> to, accessible |-> accessible, avoid |-> avoid,
     language |-> language]

MCRequests ==
    {Ask(3, 1, FALSE, {}, "en"), Ask(3, 1, FALSE, {2}, "en"), Ask(3, 1, FALSE, {}, "es"),
     Ask(3, 1, TRUE, {}, "en"), Ask(3, 9, FALSE, {}, "en")}

\* No two routes tie: what the code's order of the heap decides does not matter.
ASSUME NoTies ==
    \A s \in Snapshots \cup {None}, q \in MCRequests :
        Cardinality(RoutesThrough[s][q]) <= 1
=============================================================================
