CONSTANTS
    gate = gate
    hall = hall
    stand = stand
    exit = exit
    Nodes <- MCNodes
    Graphs <- MCGraphs
    Multipliers <- MCMultipliers
    Exclusions <- MCExclusions
    MaxHops = 3
    Infinity = Infinity
    NoNode = NoNode
SPECIFICATION BothSpec
INVARIANTS TypeOK Optimal RouteIsReal
PROPERTIES SettledIsFinal Terminates
CHECK_DEADLOCK FALSE
