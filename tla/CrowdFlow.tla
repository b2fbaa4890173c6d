----------------------------- MODULE CrowdFlow -----------------------------
(***************************************************************************)
(* services/crowd_flow.py: the in-memory crowd model of one stadium.       *)
(*                                                                         *)
(* ingest overwrites the zones a batch names and keeps their previous      *)
(* reading; get_snapshot and get_density_multipliers read them.  Neither   *)
(* holds an await, so each is one step of the asyncio loop.  Stadiums do   *)
(* not share zones: a request for an unknown one raises before any state   *)
(* is read, and every known one behaves as this module does.               *)
(*                                                                         *)
(* Densities are ratios of integers here, compared by cross multiplication *)
(* where the code divides floats.                                          *)
(***************************************************************************)
EXTENDS Stadium, Integers, FiniteSetsExt

CONSTANTS
    StrayZones,       \* zone ids a sensor may report that the registry lacks
    CapacityOf,       \* zone.capacity
    MaxCount,         \* largest occupancy_count a reading may carry (200 000)
    Counts,           \* the occupancy_counts readings carry
    MaxReadings,      \* bound on the readings of a batch (500 in the model class)
    TicksPerSecond,   \* resolution of the monotonic clock
    Horizon,          \* ticks of extrapolation (900 s in the code)
    MaxTime           \* bound on the clock

ASSUME ZonesAssumption ==
    /\ Zones \cap StrayZones = {}
    /\ CapacityOf \in [Zones -> Nat \ {0}]
ASSUME CountsAssumption ==
    /\ MaxCount \in Nat
    /\ Counts \subseteq 0 .. MaxCount
    /\ MaxReadings \in Nat
ASSUME TimeAssumption ==
    /\ TicksPerSecond \in Nat \ {0}
    /\ Horizon \in Nat \ {0}
    /\ MaxTime \in Nat

VARIABLES
    now,          \* time.monotonic(), in ticks
    zone,         \* self._state[stadium_id]
    reported      \* history: the counts of the last batch that named the zone

crowdVars == <<now, zone, reported>>

ZoneState == [current : Nat, prev : Nat, last : Nat, prevTime : Nat]
Reading == [zone : Zones \cup StrayZones, count : Counts]

-----------------------------------------------------------------------------
(* Density levels, in their order.                                          *)

Low == 0
Medium == 1
High == 2
Critical == 3
Levels == Low .. Critical

\* _classify_density of the score n / d: 0.5, 0.75 and 0.92 open a level.
Classify(n, d) ==
    CASE 2 * n < d -> Low
      [] 2 * n >= d /\ 4 * n < 3 * d -> Medium
      [] 4 * n >= 3 * d /\ 25 * n < 23 * d -> High
      [] OTHER -> Critical

Density(z) == Classify(zone[z].current, CapacityOf[z])

\* Mutant: the rate is taken from the wrong end.
PredictedBackwards(z) ==
    LET s == zone[z]
        elapsed == s.last - s.prevTime
        n == s.current * elapsed + (s.prev - s.current) * Horizon
        d == CapacityOf[z] * elapsed
    IN  IF elapsed < TicksPerSecond THEN Density(z)
        ELSE Classify(IF n < 0 THEN 0 ELSE IF n > d THEN d ELSE n, d)

\* _predict_future_density: current + rate * horizon, clamped to [0, 1]; two
\* ingests less than a second apart give no rate.
Predicted(z) ==
    LET s == zone[z]
        elapsed == s.last - s.prevTime
        n == s.current * elapsed + (s.current - s.prev) * Horizon
        d == CapacityOf[z] * elapsed
    IN  IF elapsed < TicksPerSecond THEN Density(z)
        ELSE Classify(IF n < 0 THEN 0 ELSE IF n > d THEN d ELSE n, d)

\* Mutant: only a CRITICAL prediction adds to the probability.
BottleneckCriticalOnly(z) ==
    7 * zone[z].current + (IF Predicted(z) = Critical THEN 3 * CapacityOf[z] ELSE 0)

\* bottleneck_probability, in tenths of a zone's capacity: 0.7 of the density,
\* and 0.3 more when the prediction is HIGH or CRITICAL.
Bottleneck(z) ==
    7 * zone[z].current + (IF Predicted(z) >= High THEN 3 * CapacityOf[z] ELSE 0)

\* get_snapshot's active_bottleneck_zone_ids.
Bottlenecks == {z \in Zones : Density(z) >= High}

\* DENSITY_ROUTING_MULTIPLIERS, in tenths.
MultiplierOf == [l \in Levels |->
    CASE l = Low -> 10 [] l = Medium -> 18 [] l = High -> 35 [] l = Critical -> 80]

\* get_density_multipliers.
DensityMultipliers == [z \in Zones |-> MultiplierOf[Density(z)]]

-----------------------------------------------------------------------------

TypeOK ==
    /\ now \in 0 .. MaxTime
    /\ zone \in [Zones -> ZoneState]
    /\ reported \in [Zones -> SUBSET Counts]
    /\ \A z \in Zones :
        /\ zone[z].current <= CapacityOf[z]
        /\ zone[z].prev <= CapacityOf[z]
        /\ zone[z].prevTime <= zone[z].last
        /\ zone[z].last <= now

SeedCounts(z) == 0 .. (CapacityOf[z] * 5) \div 100

\* _initialize_all_stadiums: a pre-match crowd of at most 5 % of each zone.
Init ==
    /\ now = 0
    /\ zone \in [Zones -> [current : UNION {SeedCounts(z) : z \in Zones},
                           prev : {0}, last : {0}, prevTime : {0}]]
    /\ \A z \in Zones : zone[z].current \in SeedCounts(z)
    /\ reported = [z \in Zones |-> {}]

\* A validated batch: at least one reading, a bounded number of them.
Batches == UNION {kSubset(n, Reading) : n \in 1 .. MaxReadings}

CountsFor(batch, z) == {r.count : r \in {r \in batch : r.zone = z}}

\* Mutant: the comparison keeps the smallest count.
MinByZone(batch, z) == Min(CountsFor(batch, z))

\* max_by_zone[zone_id]: the largest count the batch reports for the zone.
MaxByZone(batch, z) == Max(CountsFor(batch, z))

\* Mutant: the count of the sensors is kept as it is.
UpdatedUncapped(batch, z) ==
    [current |-> MaxByZone(batch, z),
     prev |-> zone[z].current,
     last |-> now,
     prevTime |-> zone[z].last]

\* The shift current -> prev and the new, capped occupancy of a zone.
Updated(batch, z) ==
    [current |-> Min({MaxByZone(batch, z), CapacityOf[z]}),
     prev |-> zone[z].current,
     last |-> now,
     prevTime |-> zone[z].last]

\* ingest: every zone of the registry the batch names is updated, readings of
\* unknown zones are dropped, the other zones keep their state.
Ingest(batch) ==
    LET named == {r.zone : r \in batch} \cap Zones
    IN  /\ zone' = [z \in Zones |-> IF z \in named THEN Updated(batch, z) ELSE zone[z]]
        /\ reported' = [z \in Zones |->
               IF z \in named THEN CountsFor(batch, z) ELSE reported[z]]
        /\ UNCHANGED now

Tick ==
    /\ now < MaxTime
    /\ now' = now + 1
    /\ UNCHANGED <<zone, reported>>

Next == Tick \/ \E batch \in Batches : Ingest(batch)

Spec == Init /\ [][Next]_crowdVars

-----------------------------------------------------------------------------

(* crowd_flow.py:133-135.  The conservative aggregation never shows a zone *)
(* emptier than any sensor of its last batch reported, up to its capacity, *)
(* and never fuller than all of them.                                       *)
NoUnderestimate ==
    \A z \in Zones : reported[z] # {} =>
        /\ \A n \in reported[z] : n <= zone[z].current \/ zone[z].current = CapacityOf[z]
        /\ \E n \in reported[z] : zone[z].current <= n

(* crowd_flow.py:174-201.  The extrapolation, its clamp and its sub-second *)
(* case agree with the trend: a zone that filled up since its previous     *)
(* ingest is never predicted calmer than it is, one that emptied never     *)
(* more crowded.                                                            *)
PredictionFollowsTrend ==
    \A z \in Zones :
        /\ zone[z].current >= zone[z].prev => Predicted(z) >= Density(z)
        /\ zone[z].current <= zone[z].prev => Predicted(z) <= Density(z)

(* crowd_flow.py:233-251.  The two alarms of a snapshot agree: a zone that  *)
(* is listed as a bottleneck and did not empty since its previous ingest   *)
(* has a bottleneck probability above 0.8, and no zone exceeds 1.           *)
AlarmsAgree ==
    \A z \in Zones :
        /\ Bottleneck(z) <= 10 * CapacityOf[z]
        /\ z \in Bottlenecks /\ zone[z].current >= zone[z].prev
               => Bottleneck(z) > 8 * CapacityOf[z]
=============================================================================
