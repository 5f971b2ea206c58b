SPECIFICATION SessionSpec
CONSTANTS
    Pages = {p1, p2}
    Passkey = Passkey
    Forever = Forever
    None = None
    Other = Other
    Lifetime = 3
    Margin = 1
    MaxRuleId = 4
    MaxMisses = 2
    Pasts <- MCPasts
    MaxRules = 6
    MaxLedger = 3
    MaxKeys = 2
    MaxStarts = 2
    MaxFails = 2
SYMMETRY MCSymmetry
INVARIANTS
    NoSpareRule
    SessionSigns
    LegacyIsBlocked
CHECK_DEADLOCK FALSE
