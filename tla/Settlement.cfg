SPECIFICATION Spec
CONSTANTS
    Instances = {pv1, pv2}
    PolicyIds = {1, 2}
    Holders = {alice, bob}
    Subjects = {}
    elig = elig
    UltraHonk = {elig}
    WithKey = {elig}
    PublicInputs <- MCInputs
    Proofs <- MCProofs
    U32_MAX <- MCU32Max
    U128_VALUES <- MCU128Values
    PROOF_BYTES = 14592
    None = None
    Adapters = {ad1}
    DexAdapter = ad1
    PayrollAdapter = ad1
    SacAdapter0 = ad1
    TokenVerifier0 = ad1
    AdapterVerifier0 = pv1
    DexPolicy = 1
    PayrollPolicy = 1
    Amounts = {1}
    SacSeed = 1
    I128_MAX = 1
    MaxAdminMints = 1
SYMMETRY MCSymmetry
CONSTRAINT MCBound
INVARIANTS
    TypeOK
    SettledOncePerInstance
    ProofSettlesOnce
PROPERTIES
    MovesThroughItsGate
    FrozenBalanceIsStill
    ImplementsVouchers
