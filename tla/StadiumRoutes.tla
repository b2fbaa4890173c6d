--------------------------- MODULE StadiumRoutes ---------------------------
(* The walks through a stadium's graph and what they cost, for the modules  *)
(* that take a search for a route at its contract.                          *)
EXTENDS Stadium, Integers, Sequences, FiniteSetsExt

CONSTANT Edges    \* the stadium's graph

Edge == [from : Zones, to : Zones, weight : Nat, accessible : BOOLEAN]

\* Two zones are joined by one edge at most in each direction.
ASSUME GraphAssumption ==
    /\ Edges \subseteq Edge
    /\ \A e, f \in Edges : e.from = f.from /\ e.to = f.to => e = f

EdgeBetween(a, b) == {e \in Edges : e.from = a /\ e.to = b}

\* The simple routes of the stadium.
RoutesOfLength(n) ==
    {r \in [1 .. n -> Zones] :
        /\ \A i, j \in 1 .. n : r[i] = r[j] => i = j
        /\ \A i \in 1 .. n - 1 : EdgeBetween(r[i], r[i + 1]) # {}}

Routes == UNION {RoutesOfLength(n) : n \in 1 .. Cardinality(Zones)}

\* The edges a route follows; at most one for each zone it enters.
EdgesOf(r) == UNION {EdgeBetween(r[i], r[i + 1]) : i \in 1 .. Len(r) - 1}

\* Entering a zone costs the edge's weight times the multiplier of the zone.
CostOf(r, m) == MapThenSumSet(LAMBDA e : e.weight * m[e.to], EdgesOf(r))

\* The routes a search may return: those that enter no excluded zone and, for
\* a fan who needs it, follow accessible edges only.
RoutesFor(origin, destination, excluded, accessibleOnly) ==
    {r \in Routes :
        /\ r[1] = origin /\ r[Len(r)] = destination
        /\ \A e \in EdgesOf(r) : e.to \notin excluded /\ (accessibleOnly => e.accessible)}

CheapestOf(S, m) == {r \in S : \A s \in S : CostOf(r, m) <= CostOf(s, m)}
=============================================================================
