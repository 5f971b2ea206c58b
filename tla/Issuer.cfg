SPECIFICATION IssuerSpec
CONSTANTS
    Requests = {r1, r2}
    Cli = cli
    Writers = {r1, r2, cli}
    Wallets = {w1, w2}
    Baseline = base
    LEAVES = 2
    MaxCrashes = 1
    MaxRows = 2
    Writes <- MCWrites
    NoWrite = NoWrite
SYMMETRY Symmetry
INVARIANTS
    IssuedIsOwn
    NoteRootIsOfFile
    OnChainRowsAreInRoot
PROPERTY RevRootGrows
