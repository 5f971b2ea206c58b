SPECIFICATION FaucetSpec
CONSTANTS
    Requests = {r1, r2}
    Holders = {h1}
    Assets = {"usdc", "eurc", "xlm", "treasury"}
    Funders <- MCFunders
    Cooldown = 1
    MintClaims = 2
    TopUps = 2
    Starts = {0, 1}
    MaxTime = 1
    MaxClaims = 2
    MaxCrashes = 1
    MaxBalance = 4
    None = None
INVARIANTS
    FaucetTypeOK
    RecordedIsPaid
    OncePerCooldown
PROPERTY ClaimsEnd
CHECK_DEADLOCK FALSE
