SPECIFICATION IssuerSpec
CONSTANTS
    Requests = {r1}
    Cli = cli
    Writers = {r1, cli}
    Wallets = {w1, w2}
    Baseline = base
    LEAVES = 2
    MaxCrashes = 0
    MaxRows = 2
    Writes <- MCWrites
    NoWrite = NoWrite
INVARIANT ProvableIsUnrevoked
