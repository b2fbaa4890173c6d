\* One address that fans, operators and strangers share; two requests in flight;
\* the clock runs long enough to drain the bucket, wait out a Retry-After of
\* several seconds and drain the bucket again.
CONSTANTS
    Addresses = {gateway}
    Tasks = {t1, t2}
    FanRpm = 1
    OperatorRpm = 2
    WindowSeconds = 2
    TicksPerSecond = 2
    MaxTime = 8
    NoBucket = NoBucket
    Idle = Idle
    Requests <- MCRequests
    Clients <- Keys
    Operators <- OperatorKeys
SYMMETRY TasksSymmetry
SPECIFICATION PipelineSpec
PROPERTY OperatorsHaveTheirBucket
