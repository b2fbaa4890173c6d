CONSTANTS
    NumZones = 5
    ZoneCapacity = 10
    StrayCapacity = 10
    NoEvent = "NONE"
    Ingests = {i1, i2}
    Calls = {c1, c2}
    Reports <- MCReports
    Requests <- MCRequests
    MaxThreads = 1
    None = None
SPECIFICATION Spec
INVARIANT GuidanceFitsRoute
CHECK_DEADLOCK FALSE
