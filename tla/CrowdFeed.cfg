\* Two ingests may overlap or follow each other, the second repairing what the
\* first one left.  Two fans share a pool of three connections, which their
\* second visits exhaust.
CONSTANTS
    Ingests = {i1, i2}
    Sockets = {c1, c2}
    MaxConnections = 3
    MaxSnapshots = 2
    Nothing = Nothing
SPECIFICATION FairSpec
INVARIANTS TypeOK QuietFeedAgrees 
PROPERTY EveryPushArrives
