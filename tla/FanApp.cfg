CONSTANTS
    Stadiums = {azteca, metlife}
    None = None
    MaxSelections = 3
    MaxSubmits = 2
SPECIFICATION FairSpec
INVARIANTS TypeOK RouteAnswersLastRequest BusyOnlyWhileWaiting
PROPERTY SelectionPrevails
CHECK_DEADLOCK FALSE
