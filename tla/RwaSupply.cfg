SPECIFICATION Spec
CONSTANTS
    Instances = {pv1}
    PolicyIds = {1}
    Holders = {alice, bob}
    Subjects = {}
    elig = elig
    UltraHonk = {elig}
    WithKey = {elig}
    PublicInputs <- MCInputs
    Proofs <- MCProofs
    U32_MAX <- MCU32Max
    U128_VALUES <- MCU128Values
    PROOF_BYTES = 14592
    None = None
    Adapters = {ad1}
    DexAdapter = ad1
    PayrollAdapter = ad1
    SacAdapter0 = ad1
    TokenVerifier0 = ad1
    AdapterVerifier0 = pv1
    DexPolicy = 1
    PayrollPolicy = 1
    Amounts <- MCAmounts
    SacSeed = 1
    I128_MAX = 3
    MaxAdminMints = 1
INVARIANT RwaSupplyIsIssued
