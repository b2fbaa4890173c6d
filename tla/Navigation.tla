----------------------------- MODULE Navigation -----------------------------
(***************************************************************************)
(* services/navigation.py with the endpoint of routers/navigation.py: one  *)
(* request for a route through a stadium whose crowd keeps changing.       *)
(*                                                                         *)
(* The route is planned in one step of the event loop: nothing is awaited  *)
(* between the read of the density multipliers and the first translation.  *)
(* Then every zone of the route awaits its translated instruction, and     *)
(* sensor batches are ingested meanwhile.  The search is taken at its      *)
(* contract, a cheapest simple route of those the query allows, which      *)
(* ShortestPath and ShortestPathProofs establish.  A translation returns   *)
(* whatever happens (GenAITranslation): its text is not modelled here.     *)
(***************************************************************************)
EXTENDS CrowdFlow, StadiumRoutes

CONSTANTS
    Requests,       \* the requests a fan may send
    MaxIngests,     \* bound on the batches ingested during the request
    NoWarning       \* crowd_warning = None

VARIABLES
    ingests,       \* batches ingested so far
    request,       \* the NavigationRequest
    multiplier,    \* density_multipliers, read once; in tenths
    route,         \* route_zone_ids
    optimized,     \* is_crowd_optimized
    steps,         \* the RouteSteps built so far
    status,        \* "pending" or the HTTP status
    crowdThen      \* history: the density levels when the route was planned

callVars == <<request, multiplier, route, optimized, steps, status, crowdThen>>
navigationVars == <<now, zone, reported, ingests, request, multiplier, route,
                    optimized, steps, status, crowdThen>>

Request == [stadiumExists : BOOLEAN, origin : Zones \cup StrayZones,
            destination : Zones \cup StrayZones, accessibleOnly : BOOLEAN,
            avoid : SUBSET (Zones \cup StrayZones)]
RouteStep == [zone : Zones, level : Levels,
              warning : Levels \cup {NoWarning}, seconds : Nat]

ASSUME NavigationAssumption ==
    /\ Requests \subseteq Request
    /\ MaxIngests \in Nat
    /\ NoWarning \notin Levels

-----------------------------------------------------------------------------

\* The routes the arguments of a call allow.
Allowed(excluded) ==
    RoutesFor(request.origin, request.destination, excluded, request.accessibleOnly)

Cheapest(m, excluded) == CheapestOf(Allowed(excluded), m)

NavigationTypeOK ==
    /\ TypeOK
    /\ ingests \in 0 .. MaxIngests
    /\ request \in Requests
    /\ multiplier \in [Zones -> {MultiplierOf[l] : l \in Levels}]
    /\ route \in Routes \cup {<<>>}
    /\ optimized \in BOOLEAN
    /\ steps \in Seq(RouteStep) /\ Len(steps) <= Len(route)
    /\ status \in {"pending", "200", "400", "404"}
    /\ crowdThen \in [Zones -> Levels]

NavigationInit ==
    /\ Init
    /\ ingests = 0
    /\ request \in Requests
    /\ multiplier = DensityMultipliers
    /\ route = <<>>
    /\ optimized = FALSE
    /\ steps = <<>>
    /\ status = "pending"
    /\ crowdThen = [z \in Zones |-> Density(z)]

\* A batch of sensor readings arrives while the request is being served.
Sense ==
    /\ ingests < MaxIngests
    /\ ingests' = ingests + 1
    /\ \E batch \in Batches : Ingest(batch)
    /\ UNCHANGED callVars

Known == request.stadiumExists /\ {request.origin, request.destination} \subseteq Zones

\* The three "not found" errors, which the endpoint answers with 404.
NotFound ==
    /\ status = "pending" /\ route = <<>>
    /\ ~Known
    /\ status' = "404"
    /\ UNCHANGED <<now, zone, reported, ingests, request, multiplier, route, optimized, steps, crowdThen>>

Blocked(m) == {z \in Zones : m[z] >= MultiplierOf[Critical]}

\* Mutant: the zones to avoid are added before origin and destination are let in.
ExcludedThenAllowed(m) ==
    (Blocked(m) \cup request.avoid) \ {request.origin, request.destination}

\* Mutant: the destination is not let in.
ExcludedDestination(m) == (Blocked(m) \ {request.origin}) \cup request.avoid

\* CRITICAL zones but for origin and destination, then the zones to avoid.
Excluded(m) ==
    (Blocked(m) \ {request.origin, request.destination}) \cup request.avoid

\* Without multipliers every zone counts once, and nothing is excluded.
FreeFlow == [z \in Zones |-> 10]

\* The route under the crowd of this moment, and whether it is another one
\* than the crowd-blind route.  No route: the endpoint answers 400.  Which of
\* several cheapest routes a search returns depends on its whole queue, so on
\* all its arguments; with the same arguments it returns the same route.
Plan ==
    /\ status = "pending" /\ route = <<>>
    /\ Known
    /\ multiplier' = DensityMultipliers
    /\ crowdThen' = [z \in Zones |-> Density(z)]
    /\ \/ /\ Cheapest(multiplier', Excluded(multiplier')) = {}
          /\ status' = "400"
          /\ UNCHANGED <<route, optimized>>
       \/ \E r \in Cheapest(multiplier', Excluded(multiplier')), naive \in Cheapest(FreeFlow, {}) :
          /\ multiplier' = FreeFlow /\ Excluded(multiplier') = {} => r = naive
          /\ route' = r
          /\ optimized' = (r # naive)
          /\ UNCHANGED status
    /\ UNCHANGED <<now, zone, reported, ingests, request, steps>>

\* Mutant: the step asks the crowd model again.
LevelNow(z) == Density(z)

\* Mutant: the levels are counted instead of indexed from LOW = 0.
LevelCounted(z) == Cardinality({l \in Levels : MultiplierOf[l] <= multiplier[z]})

\* The reverse map: the last level whose multiplier does not exceed the zone's.
LevelFor(z) == Max({l \in Levels : MultiplierOf[l] <= multiplier[z]})

\* generate_crowd_warning: HIGH and CRITICAL have a template, in English at least.
WarningFor(l) == IF l \in {Low, Medium} THEN NoWarning ELSE l

\* 60 s times the multiplier of the next zone, nothing for the last one.
SecondsFor(i) == IF i = Len(route) THEN 0 ELSE 6 * multiplier[route[i + 1]]

StepFor(i) ==
    [zone |-> route[i], level |-> LevelFor(route[i]),
     warning |-> WarningFor(LevelFor(route[i])), seconds |-> SecondsFor(i)]

\* Mutant: the answer waits for a step beyond the last one.
GuideBeyond ==
    LET i == Len(steps) + 1
    IN  /\ status = "pending" /\ i <= Len(route)
        /\ steps' = Append(steps, StepFor(i))
        /\ status' = IF i > Len(route) THEN "200" ELSE status
        /\ UNCHANGED <<now, zone, reported, ingests, request, multiplier, route, optimized, crowdThen>>

\* The translation of the next zone has come back: its step is appended, and
\* after the last one the request is answered.
Guide ==
    LET i == Len(steps) + 1
    IN  /\ status = "pending" /\ i <= Len(route)
        /\ steps' = Append(steps, StepFor(i))
        /\ status' = IF i = Len(route) THEN "200" ELSE status
        /\ UNCHANGED <<now, zone, reported, ingests, request, multiplier, route, optimized, crowdThen>>

NavigationNext == Sense \/ NotFound \/ Plan \/ Guide

NavigationSpec == NavigationInit /\ [][NavigationNext]_navigationVars

\* The event loop runs every ready handler, and every translation returns.
FairSpec == NavigationSpec /\ WF_navigationVars(NotFound \/ Plan \/ Guide)

-----------------------------------------------------------------------------

(* navigation.py:115, :188-215.  However many batches are ingested while    *)
(* the instructions are translated, all that the steps of an answer say of  *)
(* the crowd is about the moment the route was planned: the level recovered *)
(* from the multiplier is the level of that moment, and a warning is given  *)
(* for exactly the zones that were HIGH or CRITICAL.                        *)
OneCrowdPerRoute ==
    \A i \in 1 .. Len(steps) :
        /\ steps[i].zone = route[i]
        /\ steps[i].level = crowdThen[route[i]]
        /\ (steps[i].warning # NoWarning) <=> crowdThen[route[i]] >= High

(* A zone that the route enters was not at LOW density.                     *)
Congested(r) == \E i \in 2 .. Len(r) : crowdThen[r[i]] > Low

(* models/navigation.py:111-113: is_crowd_optimized is "True if the route   *)
(* deviates from shortest path to avoid congestion".                        *)
FlagMeansCongestion ==
    optimized => \E naive \in Cheapest(FreeFlow, {}) \ {route} : Congested(naive)

(* navigation.py:118-129, tests/unit/test_navigation.py:201.  No route      *)
(* enters a zone the fan asked to avoid, be it the destination, nor goes    *)
(* through a zone that was CRITICAL when it was planned.                    *)
KeepsClear ==
    \A i \in 2 .. Len(route) :
        /\ route[i] \notin request.avoid
        /\ i < Len(route) => crowdThen[route[i]] # Critical

Closed(e) ==
    \/ e.to \in request.avoid
    \/ crowdThen[e.to] = Critical /\ e.to # request.destination
    \/ request.accessibleOnly /\ ~e.accessible

(* navigation.py:123-147.  A request is refused with 400 only for a reason  *)
(* one can point at: a set of zones around the origin that only closed      *)
(* edges leave.  A CRITICAL destination alone closes nothing.               *)
RefusedOnlyBehindCut ==
    status = "400" =>
        \E S \in SUBSET Zones :
            /\ request.origin \in S /\ request.destination \notin S
            /\ \A e \in Edges : e.from \in S /\ e.to \notin S => Closed(e)

(* navigation.py:84-247, routers/navigation.py:60-73.  Every request is     *)
(* answered, whatever is ingested meanwhile: with a step for every zone of  *)
(* the route, or with the refusal that is due.                              *)
EveryRequestAnswered ==
    <>(\/ status = "200" /\ Known /\ Len(steps) = Len(route) /\ route # <<>>
       \/ status = "400" /\ Known /\ route = <<>>
       \/ status = "404" /\ ~Known)
=============================================================================
