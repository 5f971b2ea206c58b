SPECIFICATION AppSpec
CONSTANTS
    Wallets = {w1, w2}
    None = None
    MaxAccts = 2
    MaxCreds = 2
    MaxProofs = 1
    MaxCalls = 2
SYMMETRY MCSymmetry
CONSTRAINT MCBound
INVARIANTS
    DeviceIsApp
PROPERTIES
    SettledStaysDropped
