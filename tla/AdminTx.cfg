SPECIFICATION TxSpec
CONSTANTS
    Callers = {h1, h2}
    Ops = {set_root, admin_mint}
    Stamps = {s1}
    Attempts = 2
    MaxSeq = 2
    NoTx = NoTx
INVARIANTS
    TxTypeOK
    AtMostOnce
    DoneIsApplied
PROPERTIES
    ImplementsWrites
    CallsEnd
