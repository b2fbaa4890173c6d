CONSTANTS
    ghost = ghost
    Zones <- MCZones
    StrayZones = {ghost}
    CapacityOf <- MCCapacityOf
    MaxCount = 8
    Counts = {4, 8}
    MaxReadings = 2
    TicksPerSecond = 1
    Horizon = 1
    MaxTime = 0
    Edges <- MCEdges
    Requests <- MCRequests
    MaxIngests = 2
    NoWarning = NoWarning
SPECIFICATION FairSpec
INVARIANTS NavigationTypeOK OneCrowdPerRoute KeepsClear RefusedOnlyBehindCut
PROPERTY EveryRequestAnswered
CHECK_DEADLOCK FALSE
