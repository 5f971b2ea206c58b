SPECIFICATION PassportSpec
CONSTANTS
    Flows = {f1, f2}
    Kinds = {"request", "confirm", "send", "invest", "enable", "authorize"}
    Assets = {rwa}
    Rwa = rwa
    None = None
    MaxCreds = 2
    MaxProofs = 2
    MaxKeys = 2
    MaxClicks = 2
    MaxTries = 2
    MaxRetries = 1
INVARIANT ArchiveIsSettled
CHECK_DEADLOCK FALSE
