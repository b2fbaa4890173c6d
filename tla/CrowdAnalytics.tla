--------------------------- MODULE CrowdAnalytics ---------------------------
(***************************************************************************)
(* The domain stack's crowd analytics, domain/services/crowd_analytics.py, *)
(* over the mock graph of domain/repositories/stadium_repository.py.       *)
(*                                                                         *)
(* A snapshot is computed in one step from one report of the sensors.  It  *)
(* is kept as the report's levels and the match event: the bottlenecks and *)
(* the overall level are functions of both.                                *)
(***************************************************************************)
EXTENDS Integers, Sequences, FiniteSets, FiniteSetsExt

CONSTANTS
    NumZones,        \* meta["zones"]
    ZoneCapacity,    \* the capacity of a zone that is neither gate nor exit
    StrayCapacity,   \* the one assumed of a zone that the graph lacks (1000)
    NoEvent          \* match_event = None

ASSUME CrowdAnalyticsAssumption ==
    /\ NumZones \in Nat /\ NumZones >= 3
    /\ ZoneCapacity \in Nat \ {0}
    /\ StrayCapacity \in Nat \ {0}

-----------------------------------------------------------------------------
(* The mock graph: a ring.                                                  *)

Zones == 0 .. NumZones - 1

ZoneTypeCycle ==
    <<"gate", "corridor", "concourse", "concession", "bathroom", "seating", "concourse", "exit">>
TypeOf(z) == ZoneTypeCycle[(z % 8) + 1]

CapacityOf(z) ==
    IF z \notin Zones THEN StrayCapacity
    ELSE IF TypeOf(z) \in {"gate", "exit"} THEN 2 * ZoneCapacity ELSE ZoneCapacity

\* Both directions of the edge between zones i and i + 1 cost 60 s; every third
\* one is accessible.
RingEdges ==
    UNION {LET j == (i + 1) % NumZones IN
           {[from |-> i, to |-> j, weight |-> 60, accessible |-> i % 3 = 0],
            [from |-> j, to |-> i, weight |-> 60, accessible |-> i % 3 = 0]} : i \in Zones}

Graph == INSTANCE StadiumRoutes WITH Edges <- RingEdges

-----------------------------------------------------------------------------
(* The levels of one report, which names some of the zones, and perhaps     *)
(* others that the graph lacks.                                             *)

Levels == 0 .. 3
LOW == 0
MODERATE == 1
HIGH == 2
CRITICAL == 3

\* The count is clamped to 110 % of the capacity; the level counts the
\* thresholds of 40, 70 and 90 % that it reaches.
Clamped(z, n) == Min({n, (11 * CapacityOf(z)) \div 10})
LevelOf(z, n) == Cardinality({t \in {40, 70, 90} : 100 * Clamped(z, n) >= t * CapacityOf(z)})

\* compute_snapshot.
SnapshotOf(counts, event) ==
    [levels |-> [z \in DOMAIN counts |-> LevelOf(z, counts[z])], event |-> event]

CriticalZones(s) == {z \in DOMAIN s.levels : s.levels[z] = CRITICAL}

OverallCongestion(s) == Max({LOW} \cup {s.levels[z] : z \in DOMAIN s.levels})

-----------------------------------------------------------------------------
(* _predict_bottlenecks.                                                    *)

SurgeTypes(event) ==
    CASE event = "HALF_TIME"     -> {"concession", "bathroom", "concourse"}
      [] event = "GOAL"          -> {"seating", "concourse"}
      [] event = "FINAL_WHISTLE" -> {"exit", "gate", "corridor"}
      [] event = "MATCH_START"   -> {"gate", "corridor", "seating"}
      [] event = "PRE_MATCH"     -> {"gate", "concourse"}
      [] OTHER                   -> {}

Seeds(s) ==
    {z \in DOMAIN s.levels : s.levels[z] \in {HIGH, CRITICAL}}
        \cup {z \in Zones : TypeOf(z) \in SurgeTypes(s.event)}

NeighboursOf(S) == {e.to : e \in {f \in RingEdges : f.from \in S}}

\* Mutant: the seeds are not marked as visited, so a neighbour overwrites them.
SurgeScoreOverwritten(s, z) ==
    IF z \in NeighboursOf(Seeds(s)) THEN 50
    ELSE IF z \in Seeds(s) THEN 100
    ELSE IF z \in NeighboursOf(NeighboursOf(Seeds(s))) THEN 25
    ELSE 0

\* The surge that reaches a zone, in percent: the search from all the seeds at
\* once visits a zone first from the seeds nearest to it, and each hop halves.
SurgeScore(s, z) ==
    IF z \in Seeds(s) THEN 100
    ELSE IF z \in NeighboursOf(Seeds(s)) THEN 50
    ELSE IF z \in NeighboursOf(NeighboursOf(Seeds(s))) THEN 25
    ELSE 0

Bottlenecks(s) ==
    [z \in {y \in Zones \cup Seeds(s) : SurgeScore(s, y) >= 30} |->
        IF SurgeScore(s, z) >= 80 THEN CRITICAL
        ELSE IF SurgeScore(s, z) >= 50 THEN HIGH ELSE MODERATE]
=============================================================================
