\* One key more than the cache holds; entries that expire at once and later.
CONSTANTS
    Keys = {k1, k2, k3}
    Values = {v1, v2}
    Ttls = {0, 2}
    MaxSize = 2
    MaxTime = 3
    Nothing = Nothing
SPECIFICATION Spec
INVARIANTS TypeOK OrderOfUse
PROPERTY KeepsContract
