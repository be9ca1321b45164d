SPECIFICATION CatSpec
CONSTANTS
    CatCallers = {c1}
    MaxCatRequests = 1
    MaxCatTroubles = 0
    RigBacklog = 1
PROPERTIES NeverLeftKeyed
CHECK_DEADLOCK FALSE
