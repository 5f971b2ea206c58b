SPECIFICATION CtSpec
CONSTANTS
    Actors <- MCActors
    FlowsOf <- MCFlows
    Amounts = {1}
    Margin = 1
    Polls = 1
    Reads = 1
    Pasts <- MCPasts
    Floors = {2}
    None = None
INVARIANTS
    CtTypeOK
    CatchesUp
    SpendMatches
    ReadHeals
CHECK_DEADLOCK FALSE
