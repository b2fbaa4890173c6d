\* One request through an empty stadium, by a fan who avoids the east concourse.
CONSTANTS
    ghost = ghost
    Zones <- MCZones
    StrayZones = {ghost}
    CapacityOf <- MCCapacityOf
    MaxCount = 8
    Counts = {4, 8}
    MaxReadings = 2
    TicksPerSecond = 1
    Horizon = 1
    MaxTime = 0
    Edges <- MCEdges
    Requests <- MCAroundEast
    MaxIngests = 0
    NoWarning = NoWarning
SPECIFICATION NavigationSpec
INVARIANT FlagMeansCongestion
CHECK_DEADLOCK FALSE
