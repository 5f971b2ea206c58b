SPECIFICATION CtSpec
CONSTANTS
    Actors <- MCActors
    FlowsOf <- MCTwoPages
    Amounts = {1}
    Margin = 1
    Polls = 2
    Reads = 1
    Pasts <- MCOldPasts
    Floors = {4}
    None = None
PROPERTY CacheIsKept
CHECK_DEADLOCK FALSE
