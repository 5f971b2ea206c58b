----------------------------- MODULE Settlement -----------------------------
(***************************************************************************)
(* The contracts that move value after a passport proof, composed with the *)
(* PolicyVerifier instances behind them: rwa_adapter, rwa_token,           *)
(* compliance_sac_admin, compliant_dex and compliant_payroll.  One action  *)
(* is one successful invocation, with every cross-contract call it makes;  *)
(* require_auth of the paying holder is met by whoever submits it (module  *)
(* SmartAccount models what it takes when the holder is a smart account).  *)
(***************************************************************************)
EXTENDS PolicyVerifier, Integers

CONSTANTS
    Holders,        \* addresses that hold balances
    Adapters,       \* deployed RwaAdapter contracts
    DexAdapter,     \* the adapter each contract was constructed with
    PayrollAdapter,
    SacAdapter0,
    TokenVerifier0, \* an adapter, or a PolicyVerifier itself
    AdapterVerifier0,
    DexPolicy,      \* the policy id CompliantDex stores at construction
    PayrollPolicy,
    Amounts,        \* the amounts submitted (i128: zero and negative ones too)
    SacSeed,        \* USDC and EURC a holder starts with
    I128_MAX,       \* i128::MAX
    MaxAdminMints   \* bound on the calls of admin_mint explored

ASSUME RoutingAssumption ==
    /\ Adapters \cap Instances = {}
    /\ {DexAdapter, PayrollAdapter, SacAdapter0} \subseteq Adapters
    /\ TokenVerifier0 \in Adapters \cup Instances
    /\ AdapterVerifier0 \in Instances
ASSUME PolicyConfigAssumption == {DexPolicy, PayrollPolicy} \subseteq PolicyIds
ASSUME AmountsAssumption ==
    Amounts \subseteq Int /\ SacSeed \in Nat /\ I128_MAX \in Nat /\ MaxAdminMints \in Nat
\* The two circuits in circuits/ have six and four public inputs.
ASSUME CircuitArityAssumption == \A proof \in Proofs : Len(proof.inputs) \in {4, 6}

ASSET_RWA  == 1
ASSET_USDC == 2
ASSET_EURC == 3
ACTION_SETTLEMENT == 1
Sacs == {ASSET_USDC, ASSET_EURC}

VARIABLES
    adapterVerifier,  \* adapter -> the PolicyVerifier it forwards to
    tokenVerifier,    \* the "verifier" RwaToken calls
    sacAdapter,       \* the "adapter" ComplianceSacAdmin calls
    frozen,           \* holders frozen in RwaToken
    rwaBal,           \* RwaToken balances
    sacBal,           \* balances of the two Stellar asset contracts
    issued,           \* history: RWA created by mint and admin_mint
    adminMints,       \* history: calls of admin_mint
    settled,          \* history: what the gated operations were granted for
    settlements       \* history: number of gated operations

routing == <<adapterVerifier, tokenVerifier, sacAdapter>>
history == <<settled, settlements>>
token   == <<frozen, rwaBal, issued, adminMints>>
vars    == <<pvVars, routing, token, sacBal, history>>

-----------------------------------------------------------------------------
(* RwaAdapter.                                                             *)

\* Fault: settlement calls the check mode, which stores nothing.
VerifyPassportReadOnly(adapter, policyId, proof, inputs) ==
    Check(adapterVerifier[adapter], policyId, proof, inputs)
    /\ UNCHANGED <<spent, accepted>>

\* verify_passport and verify: the spending mode.
VerifyPassport(adapter, policyId, proof, inputs) ==
    Verify(adapterVerifier[adapter], policyId, proof, inputs)

\* check_passport and is_eligible.
CheckPassport(adapter, policyId, proof, inputs) ==
    Check(adapterVerifier[adapter], policyId, proof, inputs)

\* validate_passport: FALSE instead of an error.
ValidatePassport(adapter, policyId, proof, inputs) ==
    Validate(adapterVerifier[adapter], policyId, proof, inputs)

AdapterSetVerifier(adapter, pv) ==
    /\ adapterVerifier' = [adapterVerifier EXCEPT ![adapter] = pv]
    /\ UNCHANGED <<pvVars, tokenVerifier, sacAdapter, token, sacBal, history>>

-----------------------------------------------------------------------------
(* What the contracts read from the public inputs before they verify.      *)

\* Fault: the policy id is taken from the caller.
PolicyIdFromCaller(inputs, policyId) == Len(inputs) >= 3 /\ policyId # 0

PolicyIdFromPublicInputs(inputs, policyId) ==
    /\ Len(inputs) >= 3
    /\ policyId = FieldU32(Word(inputs, 2))
    /\ policyId # 0

\* Fault: the action is checked and the asset is not.
RequireActionScope(inputs, asset) ==
    /\ Len(inputs) >= 5
    /\ FieldU32(Word(inputs, 4)) = ACTION_SETTLEMENT

\* The words are compared as decoded: an alias of the asset modulo 2^128 passes.
RequireAssetScope(inputs, asset) ==
    /\ Len(inputs) >= 5
    /\ FieldU32(Word(inputs, 3)) = asset
    /\ FieldU32(Word(inputs, 4)) = ACTION_SETTLEMENT

\* The history of a gated operation that went through.
Grant(pv, policyId, inputs) ==
    /\ settled' = settled \cup
           {[pv |-> pv, key |-> SpentKey(policyId, inputs), inputs |-> inputs]}
    /\ settlements' = settlements + 1

-----------------------------------------------------------------------------
(* RwaToken.                                                               *)

TokenInstance ==
    IF tokenVerifier \in Adapters THEN adapterVerifier[tokenVerifier]
                                  ELSE tokenVerifier

VerifyEligibility(policyId, proof, inputs) ==
    /\ PolicyIdFromPublicInputs(inputs, policyId)
    /\ RequireAssetScope(inputs, ASSET_RWA)
    /\ Verify(TokenInstance, policyId, proof, inputs)
    /\ Grant(TokenInstance, policyId, inputs)

Freeze(holder) ==
    /\ frozen' = frozen \cup {holder}
    /\ UNCHANGED <<pvVars, routing, rwaBal, issued, adminMints, sacBal, history>>

TokenSetVerifier(verifier) ==
    /\ tokenVerifier' = verifier
    /\ UNCHANGED <<pvVars, adapterVerifier, sacAdapter, token, sacBal, history>>

\* mint: no authorization, the proof is the gate.
Mint(to, amount, policyId, proof, inputs) ==
    /\ amount > 0
    /\ to \notin frozen
    /\ VerifyEligibility(policyId, proof, inputs)
    /\ rwaBal[to] + amount <= I128_MAX
    /\ rwaBal' = [rwaBal EXCEPT ![to] = @ + amount]
    /\ issued' = issued + amount
    /\ UNCHANGED <<verifiers, eligible, flag, recorded, routing, frozen, adminMints, sacBal>>

\* Fault: the privileged path forgets the freeze.
AdminMintToFrozen(to, amount) ==
    /\ adminMints < MaxAdminMints
    /\ amount > 0
    /\ rwaBal[to] + amount <= I128_MAX
    /\ rwaBal' = [rwaBal EXCEPT ![to] = @ + amount]
    /\ issued' = issued + amount
    /\ adminMints' = adminMints + 1
    /\ UNCHANGED <<pvVars, routing, frozen, sacBal, history>>

AdminMint(to, amount) ==
    /\ adminMints < MaxAdminMints
    /\ amount > 0
    /\ to \notin frozen
    /\ rwaBal[to] + amount <= I128_MAX
    /\ rwaBal' = [rwaBal EXCEPT ![to] = @ + amount]
    /\ issued' = issued + amount
    /\ adminMints' = adminMints + 1
    /\ UNCHANGED <<pvVars, routing, frozen, sacBal, history>>

\* Fault: debit and credit the wrong way round.
MovedBackwards(from, to, amount) ==
    [[rwaBal EXCEPT ![from] = rwaBal[from] + amount]
             EXCEPT ![to] = rwaBal[to] - amount]

\* transfer: both balances are read before either is written.
Moved(from, to, amount) ==
    [[rwaBal EXCEPT ![from] = rwaBal[from] - amount]
             EXCEPT ![to] = rwaBal[to] + amount]

Transfer(from, to, amount, policyId, proof, inputs) ==
    /\ amount > 0
    /\ from \notin frozen
    /\ to \notin frozen
    /\ VerifyEligibility(policyId, proof, inputs)
    /\ rwaBal[from] >= amount
    /\ rwaBal[to] + amount <= I128_MAX
    /\ rwaBal' = Moved(from, to, amount)
    /\ UNCHANGED <<verifiers, eligible, flag, recorded, routing, frozen, issued,
                   adminMints, sacBal>>

-----------------------------------------------------------------------------
(* The Stellar asset contract (not in this repository): transfer needs the *)
(* sender's balance; trust(to), which precedes it, leaves balances alone.  *)
SacMoved(bal, from, to, amount) ==
    LET debited == [bal EXCEPT ![from] = bal[from] - amount]
    IN  [debited EXCEPT ![to] = debited[to] + amount]

SacTransfer(asset, from, to, amount) ==
    /\ sacBal[asset][from] >= amount
    /\ sacBal' = [sacBal EXCEPT ![asset] = SacMoved(sacBal[asset], from, to, amount)]

\* What the four SAC settlements have in common.
SettleSac(adapter, asset, from, to, amount, policyId, proof, inputs) ==
    /\ amount > 0
    /\ RequireAssetScope(inputs, asset)
    /\ VerifyPassport(adapter, policyId, proof, inputs)
    /\ SacTransfer(asset, from, to, amount)
    /\ Grant(adapterVerifier[adapter], policyId, inputs)
    /\ UNCHANGED <<verifiers, eligible, flag, recorded, routing, token>>

TransferCompliant(from, to, amount, policyId, proof, inputs) ==
    /\ PolicyIdFromPublicInputs(inputs, policyId)
    /\ SettleSac(sacAdapter, ASSET_USDC, from, to, amount, policyId, proof, inputs)

TransferCompliantEurc(from, to, amount, policyId, proof, inputs) ==
    /\ PolicyIdFromPublicInputs(inputs, policyId)
    /\ SettleSac(sacAdapter, ASSET_EURC, from, to, amount, policyId, proof, inputs)

SetAdapter(adapter) ==
    /\ sacAdapter' = adapter
    /\ UNCHANGED <<pvVars, adapterVerifier, tokenVerifier, token, sacBal, history>>

\* CompliantDex and CompliantPayroll verify under the policy id they store.
SwapCompliant(trader, recipient, amount, proof, inputs) ==
    SettleSac(DexAdapter, ASSET_USDC, trader, recipient, amount, DexPolicy, proof, inputs)

PayCompliant(employer, employee, amount, proof, inputs) ==
    SettleSac(PayrollAdapter, ASSET_USDC, employer, employee, amount, PayrollPolicy,
              proof, inputs)

-----------------------------------------------------------------------------
Init ==
    /\ PvInit
    /\ adapterVerifier = [a \in Adapters |-> AdapterVerifier0]
    /\ tokenVerifier = TokenVerifier0
    /\ sacAdapter = SacAdapter0
    /\ frozen = {}
    /\ rwaBal = [h \in Holders |-> 0]
    /\ sacBal = [a \in Sacs |-> [h \in Holders |-> SacSeed]]
    /\ issued = 0
    /\ adminMints = 0
    /\ settled = {}
    /\ settlements = 0

\* An operation of PolicyVerifier that no settlement contract makes.
PolicyVerifierStep == PvNext /\ UNCHANGED <<routing, token, sacBal, history>>

Configure ==
    \/ \E a \in Adapters, pv \in Instances : AdapterSetVerifier(a, pv)
    \/ \E v \in Adapters \cup Instances : TokenSetVerifier(v)
    \/ \E a \in Adapters : SetAdapter(a)

Gated(from, to, amount, proof, inputs) ==
    \/ \E p \in PolicyIds :
           \/ Transfer(from, to, amount, p, proof, inputs)
           \/ TransferCompliant(from, to, amount, p, proof, inputs)
           \/ TransferCompliantEurc(from, to, amount, p, proof, inputs)
    \/ SwapCompliant(from, to, amount, proof, inputs)
    \/ PayCompliant(from, to, amount, proof, inputs)

Next ==
    \/ PolicyVerifierStep
    \/ Configure
    \/ \E h \in Holders : Freeze(h)
    \/ \E to \in Holders, amount \in Amounts :
           \/ AdminMint(to, amount)
           \/ \E proof \in Proofs, inputs \in PublicInputs :
                  \/ \E p \in PolicyIds : Mint(to, amount, p, proof, inputs)
                  \/ \E from \in Holders : Gated(from, to, amount, proof, inputs)

Spec == Init /\ [][Next]_vars

-----------------------------------------------------------------------------
\* TypeOK: no balance is ever negative, whatever amounts are submitted and
\* whoever pays whom (amount <= 0 and insufficient balance are refused).
TypeOK ==
    /\ PvTypeOK
    /\ adapterVerifier \in [Adapters -> Instances]
    /\ tokenVerifier \in Adapters \cup Instances
    /\ sacAdapter \in Adapters
    /\ frozen \subseteq Holders
    /\ rwaBal \in [Holders -> Nat]
    /\ sacBal \in [Sacs -> [Holders -> Nat]]
    /\ issued \in Nat
    /\ adminMints \in 0..MaxAdminMints
    /\ settled \subseteq [pv : Instances, key : Key, inputs : PublicInputs]
    /\ settlements \in Nat

\* Per PolicyVerifier instance, a scoped nullifier pays for one operation at
\* most, whichever of the four contracts it is presented to.
SettledOncePerInstance ==
    settlements = Cardinality({<<s.pv, s.key>> : s \in settled})

\* Per instance, a proof (one string of public inputs) pays for one operation
\* at most, even though two contracts take the policy id from storage and two
\* from the inputs, and the key holds that policy id.  It rests on what is
\* registered: of the policies a proof can be presented under, one has its
\* circuit (deploy_hardened_external.sh lines 54-56).
ProofSettlesOnce ==
    settlements = Cardinality({<<s.pv, s.inputs>> : s \in settled})

\* README.md, Nullifier anti-replay: a proof pays once, whatever instance the
\* contracts are pointed at when it is presented.
ProofSettlesOnceEver ==
    settlements = Cardinality({s.inputs : s \in settled})

\* Value moves only through the gate of its own asset: a step that changes a
\* SAC balance spends a fresh key of that asset's settlement scope, and so
\* does one that changes an RWA balance, unless it is admin_mint.  The scope
\* of a key is the DECODED asset and action words, so what the gate lets
\* through is every proof whose words read as the scope, aliases modulo 2^128
\* included, and the property is that gate and ledger read them alike.
FreshKey(asset) ==
    \E pv \in Instances : \E k \in spent'[pv] \ spent[pv] :
        k[2] = asset /\ k[3] = ACTION_SETTLEMENT

MovesThroughItsGate ==
    [][ /\ \A a \in Sacs : sacBal'[a] # sacBal[a] => FreshKey(a)
        /\ rwaBal' # rwaBal => adminMints' # adminMints \/ FreshKey(ASSET_RWA) ]_vars

\* Freezing is final: from the freeze on, the RWA balance of the holder never
\* changes again, in either direction and by any entry point.
FrozenBalanceIsStill ==
    [][ \A h \in frozen : h \in frozen' /\ rwaBal'[h] = rwaBal[h] ]_vars

\* The gated operations implement vouchers: one nullifier of one instance is
\* one voucher; a verification nobody settles with burns it.
Voucher == INSTANCE Vouchers WITH
    gone     <- UNION {{pv} \X spent[pv] : pv \in Instances},
    redeemed <- {<<s.pv, s.key>> : s \in settled},
    granted  <- settlements

ImplementsVouchers == Voucher!VouchSpec
=============================================================================
