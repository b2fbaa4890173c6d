CONSTANTS
    gate = gate
    stand = stand
    Zones <- MCZones
    StrayZones = {ghost}
    CapacityOf <- MCCapacityOf
    MaxCount = 19
    Counts = {3, 10, 19}
    MaxReadings = 2
    TicksPerSecond = 2
    Horizon = 5
    MaxTime = 4
SPECIFICATION Spec
INVARIANTS TypeOK NoUnderestimate PredictionFollowsTrend AlarmsAgree
