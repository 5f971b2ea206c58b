SPECIFICATION PvSpec
CONSTANTS
    Instances = {pv1}
    PolicyIds = {1, 2}
    Subjects = {alice}
    elig = elig
    pof = pof
    noKey = noKey
    UltraHonk <- MCUltraHonk
    WithKey <- MCWithKey
    PublicInputs <- MCInputs
    Proofs <- MCProofs
    U32_MAX <- MCU32Max
    U128_VALUES <- MCU128Values
    PROOF_BYTES = 14592
    None = None
INVARIANTS
    PvTypeOK
    EachSpendIsFresh
    NoMixedScope
    RecordedIsSpent
