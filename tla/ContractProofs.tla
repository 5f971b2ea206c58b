--------------------------- MODULE ContractProofs ---------------------------
(* Theorems about the contracts: the nullifier ledger of PolicyVerifier, the *)
(* settlement contracts composed with it, and smart accounts as their        *)
(* payers.  Types; one operation per nullifier and per proof; that the       *)
(* composition implements module Vouchers; that smart accounts implement the *)
(* composition, that a session never precedes a bound proof, and that no     *)
(* account is debited on a bound proof that is spent.                        *)
EXTENDS SmartAccount, FiniteSetTheorems, TLAPS

-----------------------------------------------------------------------------
(* The ledger on its own.  First, the decoders.                            *)

\* A decoded word always fits in a u32, whatever the width of the word.
LEMMA FieldU32Type ==
    ASSUME NEW w \in Nat
    PROVE  FieldU32(w) \in 0..U32_MAX
<1>1. Folded(w) \in Nat
  BY U32Assumption, U128Assumption DEF Folded
<1>2. QED
  BY <1>1, U32Assumption DEF FieldU32

\* The key an accepted verification burns is well formed, and its scope is
\* either both parts zero (unscoped inputs) or none.
LEMMA SpentKeyShape ==
    ASSUME NEW p \in PolicyIds, NEW inputs \in PublicInputs,
           ScopeReadable(inputs), NullifierReadable(inputs)
    PROVE  /\ SpentKey(p, inputs) \in Key
           /\ SpentKey(p, inputs)[2] = 0 <=> SpentKey(p, inputs)[3] = 0
<1>1. inputs \in Seq(Nat) /\ p \in 0..U32_MAX
  BY InputsAssumption, PolicyIdsAssumption
<1>2. CASE Scoped(inputs)
  <2>1. /\ inputs[4] \in Nat
        /\ inputs[5] \in Nat
        /\ inputs[6] \in Nat
    BY <1>1, <1>2 DEF Scoped
  <2>2. FieldU32(inputs[4]) \in 0..U32_MAX /\ FieldU32(inputs[5]) \in 0..U32_MAX
    BY <2>1, FieldU32Type
  <2>3. SpentKey(p, inputs) = <<p, FieldU32(inputs[4]), FieldU32(inputs[5]), inputs[6]>>
    BY <1>2 DEF SpentKey, Scope, Nullifier, Word
  <2>4. FieldU32(inputs[4]) # 0 /\ FieldU32(inputs[5]) # 0
    BY <1>2 DEF ScopeReadable, Word
  <2> DEFINE asset  == FieldU32(inputs[4])
             action == FieldU32(inputs[5])
             word   == inputs[6]
  <2>5. /\ asset \in 0..U32_MAX /\ asset # 0 /\ action \in 0..U32_MAX /\ action # 0
        /\ word \in Nat /\ SpentKey(p, inputs) = <<p, asset, action, word>>
    BY <2>1, <2>2, <2>3, <2>4
  <2> HIDE DEF asset, action, word
  <2>6. SpentKey(p, inputs) \in Key
    BY <1>1, <2>5 DEF Key
  <2>7. SpentKey(p, inputs)[2] = asset /\ SpentKey(p, inputs)[3] = action
    BY <2>5
  <2>8. QED
    BY <2>5, <2>6, <2>7
<1>3. CASE ~Scoped(inputs)
  <2>1. inputs[4] \in Nat
    BY <1>1 DEF NullifierReadable
  <2>2. SpentKey(p, inputs) = <<p, 0, 0, inputs[4]>>
    BY <1>3 DEF SpentKey, Scope, Nullifier, Word
  <2>3. QED
    BY <1>1, <2>1, <2>2, U32Assumption DEF Key
<1>4. QED
  BY <1>2, <1>3

-----------------------------------------------------------------------------
(* The inductive invariant: the counter of accepted verifications is the   *)
(* size of the ledger, which takes the ledger to be finite.                *)
LedgerInv ==
    /\ PvTypeOK
    /\ NoMixedScope
    /\ \A pv \in Instances : IsFiniteSet(spent[pv])
    /\ EachSpendIsFresh

\* The part of LedgerInv that a spending verification can disturb.
LEMMA VerifyPreservesLedger ==
    ASSUME LedgerInv, NEW pv \in Instances, NEW p \in PolicyIds,
           NEW proof \in Proofs, NEW inputs \in PublicInputs,
           Verify(pv, p, proof, inputs)
    PROVE  /\ spent' \in [Instances -> SUBSET Key]
           /\ accepted' \in [Instances -> Nat]
           /\ NoMixedScope'
           /\ (\A i \in Instances : IsFiniteSet(spent[i]))'
           /\ EachSpendIsFresh'
<1> DEFINE k == SpentKey(p, inputs)
<1>1. /\ k \in Key
      /\ k[2] = 0 <=> k[3] = 0
      /\ k \notin spent[pv]
  BY SpentKeyShape DEF Verify, Check, Valid
<1>2. /\ spent' = [spent EXCEPT ![pv] = @ \cup {k}]
      /\ accepted' = [accepted EXCEPT ![pv] = @ + 1]
  BY DEF Verify
<1>3. /\ spent \in [Instances -> SUBSET Key]
      /\ accepted \in [Instances -> Nat]
      /\ IsFiniteSet(spent[pv])
      /\ accepted[pv] = Cardinality(spent[pv])
  BY DEF LedgerInv, PvTypeOK, EachSpendIsFresh
<1> HIDE DEF k
<1>4. /\ IsFiniteSet(spent[pv] \cup {k})
      /\ Cardinality(spent[pv] \cup {k}) = Cardinality(spent[pv]) + 1
  BY <1>1, <1>3, FS_AddElement
<1>5. spent' \in [Instances -> SUBSET Key] /\ accepted' \in [Instances -> Nat]
  BY <1>1, <1>2, <1>3
<1>6. NoMixedScope'
  BY <1>1, <1>2, <1>3 DEF NoMixedScope, LedgerInv
<1>7. (\A i \in Instances : IsFiniteSet(spent[i]))'
  BY <1>2, <1>3, <1>4 DEF LedgerInv
<1>8. EachSpendIsFresh'
  BY <1>2, <1>3, <1>4 DEF LedgerInv, EachSpendIsFresh
<1>9. QED
  BY <1>5, <1>6, <1>7, <1>8

\* The nullifier verify_and_record publishes is the one the ledger stores.
LEMMA RecordedNullifierIsStored ==
    ASSUME NEW p, NEW inputs
    PROVE  RecordedNullifier(inputs) = SpentKey(p, inputs)[4]
BY DEF RecordedNullifier, SpentKey, Nullifier, Scoped

\* A spending verification only adds to the ledger.
LEMMA VerifyGrowsLedger ==
    ASSUME PvTypeOK, NEW pv \in Instances, NEW p, NEW proof, NEW inputs,
           Verify(pv, p, proof, inputs)
    PROVE  /\ \A i \in Instances : spent[i] \subseteq spent'[i]
           /\ SpentKey(p, inputs) \in spent'[pv]
BY DEF Verify, PvTypeOK

\* No entry point ever removes a key from the ledger.
LEMMA LedgerGrows ==
    ASSUME PvTypeOK, PvNext
    PROVE  \A i \in Instances : spent[i] \subseteq spent'[i]
<1>1. ASSUME NEW pv \in Instances, NEW p \in PolicyIds, NEW proof \in Proofs,
             NEW inputs \in PublicInputs, Verify(pv, p, proof, inputs)
      PROVE  \A i \in Instances : spent[i] \subseteq spent'[i]
  BY <1>1, VerifyGrowsLedger
<1>2. ASSUME NEW pv \in Instances, NEW h \in Subjects, NEW value \in BOOLEAN,
             SetEligible(pv, h, value)
      PROVE  spent' = spent
  BY <1>2 DEF SetEligible
<1>3. ASSUME NEW pv \in Instances, NEW p \in PolicyIds, NEW v \in UltraHonk,
             RegisterPolicy(pv, p, v)
      PROVE  spent' = spent
  BY <1>3 DEF RegisterPolicy
<1>4. QED
  BY <1>1, <1>2, <1>3 DEF PvNext, VerifyCall, VerifyAndRecord

-----------------------------------------------------------------------------
LEMMA LedgerInit == PvInit => LedgerInv /\ RecordedIsSpent
<1> SUFFICES ASSUME PvInit PROVE LedgerInv /\ RecordedIsSpent
  OBVIOUS
<1>1. PvTypeOK /\ NoMixedScope /\ RecordedIsSpent
  BY DEF PvInit, PvTypeOK, NoMixedScope, RecordedIsSpent
<1>2. (\A pv \in Instances : IsFiniteSet(spent[pv])) /\ EachSpendIsFresh
  BY FS_EmptySet DEF PvInit, EachSpendIsFresh
<1>3. QED
  BY <1>1, <1>2 DEF LedgerInv

LEMMA LedgerStep ==
    LedgerInv /\ RecordedIsSpent /\ [PvNext]_pvVars => LedgerInv' /\ RecordedIsSpent'
<1> SUFFICES ASSUME LedgerInv, RecordedIsSpent, [PvNext]_pvVars
             PROVE  LedgerInv' /\ RecordedIsSpent'
  OBVIOUS
<1>1. ASSUME NEW pv \in Instances, NEW p \in PolicyIds, NEW v \in UltraHonk,
             RegisterPolicy(pv, p, v)
      PROVE  LedgerInv' /\ RecordedIsSpent'
  <2>1. UNCHANGED <<spent, eligible, flag, recorded, accepted>>
    BY <1>1 DEF RegisterPolicy
  <2>2. verifiers' \in [Instances -> [PolicyIds -> WithKey \cup {None}]]
    BY <1>1 DEF RegisterPolicy, LedgerInv, PvTypeOK
  <2>3. QED
    BY <2>1, <2>2 DEF LedgerInv, PvTypeOK, NoMixedScope, EachSpendIsFresh,
                      RecordedIsSpent
<1>2. ASSUME NEW pv \in Instances, NEW p \in PolicyIds, NEW proof \in Proofs,
             NEW inputs \in PublicInputs, VerifyCall(pv, p, proof, inputs)
      PROVE  LedgerInv' /\ RecordedIsSpent'
  <2>1. Verify(pv, p, proof, inputs) /\ UNCHANGED <<verifiers, eligible, flag, recorded>>
    BY <1>2 DEF VerifyCall
  <2>2. LedgerInv'
    BY <2>1, VerifyPreservesLedger DEF LedgerInv, PvTypeOK
  <2>3. RecordedIsSpent'
    BY <2>1, VerifyGrowsLedger DEF LedgerInv, PvTypeOK, RecordedIsSpent
  <2>4. QED
    BY <2>2, <2>3
<1>3. ASSUME NEW pv \in Instances, NEW p \in PolicyIds, NEW proof \in Proofs,
             NEW inputs \in PublicInputs, NEW h \in Subjects,
             VerifyAndRecord(pv, h, p, proof, inputs)
      PROVE  LedgerInv' /\ RecordedIsSpent'
  <2> DEFINE e == [pv |-> pv, holder |-> h, policyId |-> p,
                   nullifier |-> RecordedNullifier(inputs)]
  <2>1. /\ Verify(pv, p, proof, inputs)
        /\ eligible' = [eligible EXCEPT ![pv] = h]
        /\ recorded' = recorded \cup {e}
        /\ UNCHANGED <<verifiers, flag>>
    BY <1>3 DEF VerifyAndRecord
  <2>2. SpentKey(p, inputs) \in Key
    BY <2>1, SpentKeyShape DEF Verify, Check, Valid
  <2>3. /\ e.pv = pv /\ e.policyId = p
        /\ e.nullifier = SpentKey(p, inputs)[4]
        /\ SpentKey(p, inputs)[1] = p
    BY RecordedNullifierIsStored DEF SpentKey
  <2>4. e \in [pv : Instances, holder : Subjects, policyId : PolicyIds, nullifier : Nat]
    BY <2>2, <2>3 DEF Key
  <2> HIDE DEF e
  <2>5. LedgerInv'
    BY <2>1, <2>4, VerifyPreservesLedger DEF LedgerInv, PvTypeOK
  <2>6. RecordedIsSpent'
    BY <2>1, <2>3, VerifyGrowsLedger DEF LedgerInv, PvTypeOK, RecordedIsSpent
  <2>7. QED
    BY <2>5, <2>6
<1>4. ASSUME NEW pv \in Instances, NEW h \in Subjects, NEW value \in BOOLEAN,
             SetEligible(pv, h, value)
      PROVE  LedgerInv' /\ RecordedIsSpent'
  <2>1. UNCHANGED <<verifiers, spent, eligible, recorded, accepted>>
    BY <1>4 DEF SetEligible
  <2>2. flag' \in [Instances -> SUBSET Subjects]
    BY <1>4 DEF SetEligible, LedgerInv, PvTypeOK
  <2>3. QED
    BY <2>1, <2>2 DEF LedgerInv, PvTypeOK, NoMixedScope, EachSpendIsFresh,
                      RecordedIsSpent
<1>5. CASE UNCHANGED pvVars
  BY <1>5 DEF pvVars, LedgerInv, PvTypeOK, NoMixedScope, EachSpendIsFresh,
              RecordedIsSpent
<1>6. QED
  BY <1>1, <1>2, <1>3, <1>4, <1>5 DEF PvNext

LEMMA LedgerAlways == PvSpec => [](LedgerInv /\ RecordedIsSpent)
BY LedgerInit, LedgerStep, PTL DEF PvSpec

\* Type correctness: every key ever stored fits the u32 arguments of
\* spent_key, whatever words are submitted, those over 2^128 included.
THEOREM PvTypeCorrect == PvSpec => []PvTypeOK
<1>1. LedgerInv => PvTypeOK
  BY DEF LedgerInv
<1>2. QED
  BY <1>1, LedgerAlways, PTL

\* Replay protection of verify_inner: the successful spending verifications
\* of an instance are as many as the distinct keys it stores.
THEOREM SpendsAreFresh == PvSpec => []EachSpendIsFresh
<1>1. LedgerInv => EachSpendIsFresh
  BY DEF LedgerInv
<1>2. QED
  BY <1>1, LedgerAlways, PTL

\* Scoped and unscoped nullifiers never share a bucket through one bad word:
\* whatever the words, one that reads as 0 has the proof refused, and any
\* other gives a scope with two parts.
THEOREM ScopesNeverMix == PvSpec => []NoMixedScope
<1>1. LedgerInv => NoMixedScope
  BY DEF LedgerInv
<1>2. QED
  BY <1>1, LedgerAlways, PTL

\* Every EligibilityVerified event names a nullifier its policy spent.
THEOREM EventsNameSpentNullifiers == PvSpec => []RecordedIsSpent
BY LedgerAlways, PTL

-----------------------------------------------------------------------------
(* The contracts on top of it.  Every step is one of three kinds as far as  *)
(* the ledger is concerned.                                                *)

Quiet == UNCHANGED <<pvVars, history>>

Ledger == PvNext /\ UNCHANGED history

\* The policies that an operation can verify these inputs under: RwaToken and
\* ComplianceSacAdmin take the one in the inputs, CompliantDex and
\* CompliantPayroll, which settle USDC, the one they store.
SettlementPolicies(inputs) ==
    {FieldU32(Word(inputs, 2))}
    \cup (IF FieldU32(Word(inputs, 3)) = ASSET_USDC THEN {DexPolicy, PayrollPolicy} ELSE {})

\* A gated operation: a spending verification and its grant, in one step.
GatedStep(pv, p, proof, inputs) ==
    /\ p \in SettlementPolicies(inputs)
    /\ Verify(pv, p, proof, inputs)
    /\ Grant(pv, p, inputs)
    /\ UNCHANGED <<verifiers, eligible, flag, recorded>>

SomeGatedStep ==
    \E pv \in Instances, p \in PolicyIds, proof \in Proofs, inputs \in PublicInputs :
        GatedStep(pv, p, proof, inputs)

\* The adapter in use always leads to a PolicyVerifier instance.
LEMMA RoutesToInstances ==
    ASSUME TypeOK
    PROVE  /\ TokenInstance \in Instances
           /\ adapterVerifier[sacAdapter] \in Instances
           /\ adapterVerifier[DexAdapter] \in Instances
           /\ adapterVerifier[PayrollAdapter] \in Instances
BY RoutingAssumption DEF TypeOK, TokenInstance

\* A SAC settlement is a gated step on the instance behind its adapter.
LEMMA SettleSacIsGated ==
    ASSUME NEW ad, adapterVerifier[ad] \in Instances, NEW asset, NEW from, NEW to,
           NEW amount, NEW p \in PolicyIds, NEW proof \in Proofs,
           NEW inputs \in PublicInputs,
           SettleSac(ad, asset, from, to, amount, p, proof, inputs),
           p \in SettlementPolicies(inputs)
    PROVE  SomeGatedStep
<1>1. GatedStep(adapterVerifier[ad], p, proof, inputs)
  BY DEF SettleSac, VerifyPassport, GatedStep
<1>2. QED
  BY <1>1 DEF SomeGatedStep

LEMMA StepKinds ==
    ASSUME TypeOK, [Next]_vars
    PROVE  Quiet \/ Ledger \/ SomeGatedStep
<1>1. CASE PolicyVerifierStep
  BY <1>1 DEF PolicyVerifierStep, Ledger
<1>2. CASE Configure
  BY <1>2 DEF Configure, AdapterSetVerifier, TokenSetVerifier, SetAdapter, Quiet
<1>3. ASSUME NEW h \in Holders, Freeze(h)
      PROVE  Quiet
  BY <1>3 DEF Freeze, Quiet
<1>4. ASSUME NEW to \in Holders, NEW amount \in Amounts, AdminMint(to, amount)
      PROVE  Quiet
  BY <1>4 DEF AdminMint, Quiet
<1>5. ASSUME NEW to \in Holders, NEW amount \in Amounts, NEW proof \in Proofs,
             NEW inputs \in PublicInputs, NEW p \in PolicyIds,
             Mint(to, amount, p, proof, inputs)
      PROVE  SomeGatedStep
  <2>1. GatedStep(TokenInstance, p, proof, inputs)
    BY <1>5 DEF Mint, VerifyEligibility, GatedStep, PolicyIdFromPublicInputs, SettlementPolicies
  <2>2. QED
    BY <2>1, RoutesToInstances DEF SomeGatedStep
<1>6. ASSUME NEW from \in Holders, NEW to \in Holders, NEW amount \in Amounts,
             NEW proof \in Proofs, NEW inputs \in PublicInputs,
             Gated(from, to, amount, proof, inputs)
      PROVE  SomeGatedStep
  <2>1. ASSUME NEW p \in PolicyIds, Transfer(from, to, amount, p, proof, inputs)
        PROVE  SomeGatedStep
    <3>1. GatedStep(TokenInstance, p, proof, inputs)
      BY <2>1 DEF Transfer, VerifyEligibility, GatedStep, PolicyIdFromPublicInputs,
                  SettlementPolicies
    <3>2. QED
      BY <3>1, RoutesToInstances DEF SomeGatedStep
  <2>2. ASSUME NEW p \in PolicyIds, TransferCompliant(from, to, amount, p, proof, inputs)
        PROVE  SomeGatedStep
    BY <2>2, RoutesToInstances, SettleSacIsGated
    DEF TransferCompliant, PolicyIdFromPublicInputs, SettlementPolicies
  <2>3. ASSUME NEW p \in PolicyIds,
               TransferCompliantEurc(from, to, amount, p, proof, inputs)
        PROVE  SomeGatedStep
    BY <2>3, RoutesToInstances, SettleSacIsGated
    DEF TransferCompliantEurc, PolicyIdFromPublicInputs, SettlementPolicies
  <2>4. CASE SwapCompliant(from, to, amount, proof, inputs)
    BY <2>4, RoutesToInstances, SettleSacIsGated, PolicyConfigAssumption
    DEF SwapCompliant, SettleSac, RequireAssetScope, SettlementPolicies
  <2>5. CASE PayCompliant(from, to, amount, proof, inputs)
    BY <2>5, RoutesToInstances, SettleSacIsGated, PolicyConfigAssumption
    DEF PayCompliant, SettleSac, RequireAssetScope, SettlementPolicies
  <2>6. QED
    BY <1>6, <2>1, <2>2, <2>3, <2>4, <2>5 DEF Gated
<1>7. CASE UNCHANGED vars
  BY <1>7 DEF vars, Quiet
<1>8. QED
  BY <1>1, <1>2, <1>3, <1>4, <1>5, <1>6, <1>7 DEF Next

-----------------------------------------------------------------------------
(* The inductive invariant.                                                *)

Used == {<<s.pv, s.key>> : s \in settled}

\* What was paid for was spent, and was counted once.
GrantInv ==
    /\ \A s \in settled : s.key \in spent[s.pv]
    /\ IsFiniteSet(Used)
    /\ SettledOncePerInstance

IInv == TypeOK /\ LedgerInv /\ RecordedIsSpent /\ GrantInv

\* One more grant is one more voucher: the key was not in the ledger, hence
\* not among those already used.
LEMMA GrantUsesFreshVoucher ==
    ASSUME IInv, NEW pv \in Instances, NEW p \in PolicyIds, NEW proof \in Proofs,
           NEW inputs \in PublicInputs, GatedStep(pv, p, proof, inputs)
    PROVE  /\ <<pv, SpentKey(p, inputs)>> \notin Used
           /\ SpentKey(p, inputs) \notin spent[pv]
           /\ Used' = Used \cup {<<pv, SpentKey(p, inputs)>>}
           /\ spent' = [spent EXCEPT ![pv] = @ \cup {SpentKey(p, inputs)}]
           /\ settlements' = settlements + 1
<1> DEFINE k == SpentKey(p, inputs)
           r == [pv |-> pv, key |-> k, inputs |-> inputs]
<1>1. k \notin spent[pv]
  BY DEF GatedStep, Verify, Check
<1>2. /\ settled' = settled \cup {r}
      /\ settlements' = settlements + 1
      /\ spent' = [spent EXCEPT ![pv] = @ \cup {k}]
  BY DEF GatedStep, Grant, Verify
<1>3. r.pv = pv /\ r.key = k
  OBVIOUS
<1> HIDE DEF k, r
<1>4. Used' = Used \cup {<<pv, k>>}
  BY <1>2, <1>3 DEF Used
<1>5. <<pv, k>> \notin Used
  BY <1>1 DEF Used, IInv, GrantInv
<1>6. QED
  BY <1>1, <1>2, <1>4, <1>5 DEF k

LEMMA GatedPreservesGrants ==
    ASSUME IInv, NEW pv \in Instances, NEW p \in PolicyIds, NEW proof \in Proofs,
           NEW inputs \in PublicInputs, GatedStep(pv, p, proof, inputs)
    PROVE  LedgerInv' /\ RecordedIsSpent' /\ GrantInv'
<1> DEFINE k == SpentKey(p, inputs)
<1>1. /\ <<pv, k>> \notin Used
      /\ Used' = Used \cup {<<pv, k>>}
      /\ spent' = [spent EXCEPT ![pv] = @ \cup {k}]
      /\ settlements' = settlements + 1
  BY GrantUsesFreshVoucher
<1>2. /\ settled' = settled \cup {[pv |-> pv, key |-> k, inputs |-> inputs]}
      /\ Verify(pv, p, proof, inputs)
      /\ UNCHANGED <<verifiers, eligible, flag, recorded>>
  BY DEF GatedStep, Grant
<1>3. LedgerInv /\ PvTypeOK /\ RecordedIsSpent /\ GrantInv /\ TypeOK
  BY DEF IInv, LedgerInv
<1>4. LedgerInv'
  BY <1>2, <1>3, VerifyPreservesLedger DEF LedgerInv, PvTypeOK
<1>5. RecordedIsSpent'
  BY <1>2, <1>3, VerifyGrowsLedger DEF PvTypeOK, RecordedIsSpent
<1>6. (\A s \in settled : s.key \in spent[s.pv])'
  <2> SUFFICES ASSUME NEW s \in settled'
               PROVE  s.key \in spent'[s.pv]
    OBVIOUS
  <2>1. CASE s \in settled
    BY <2>1, <1>2, <1>3, VerifyGrowsLedger DEF GrantInv, TypeOK
  <2>2. CASE s = [pv |-> pv, key |-> k, inputs |-> inputs]
    BY <2>2, <1>2, <1>3, VerifyGrowsLedger
  <2>3. QED
    BY <2>1, <2>2, <1>2
<1> HIDE DEF k
<1>7. IsFiniteSet(Used') /\ Cardinality(Used') = Cardinality(Used) + 1
  BY <1>1, <1>3, FS_AddElement DEF GrantInv
<1>8. SettledOncePerInstance'
  BY <1>1, <1>3, <1>7 DEF GrantInv, SettledOncePerInstance, Used
<1>9. QED
  BY <1>4, <1>5, <1>6, <1>7, <1>8 DEF GrantInv

LEMMA GrantStep ==
    IInv /\ [Next]_vars => LedgerInv' /\ RecordedIsSpent' /\ GrantInv'
<1> SUFFICES ASSUME IInv, [Next]_vars
             PROVE  LedgerInv' /\ RecordedIsSpent' /\ GrantInv'
  OBVIOUS
<1>1. TypeOK /\ PvTypeOK /\ LedgerInv /\ RecordedIsSpent /\ GrantInv
  BY DEF IInv, LedgerInv
<1>2. CASE Quiet
  <2>1. UNCHANGED pvVars /\ UNCHANGED <<settled, settlements>>
    BY <1>2 DEF Quiet, history
  <2>2. LedgerInv' /\ RecordedIsSpent'
    BY <1>1, <2>1, LedgerStep
  <2>3. QED
    BY <1>1, <2>1, <2>2 DEF pvVars, GrantInv, SettledOncePerInstance, Used
<1>3. CASE Ledger
  <2>1. UNCHANGED <<settled, settlements>>
    BY <1>3 DEF Ledger, history
  <2>2. LedgerInv' /\ RecordedIsSpent'
    BY <1>1, <1>3, LedgerStep DEF Ledger
  <2>3. \A pv \in Instances : spent[pv] \subseteq spent'[pv]
    BY <1>1, <1>3, LedgerGrows DEF Ledger
  <2>4. (\A s \in settled : s.key \in spent[s.pv])'
    BY <1>1, <2>1, <2>3 DEF GrantInv, TypeOK
  <2>5. QED
    BY <1>1, <2>1, <2>2, <2>4 DEF GrantInv, SettledOncePerInstance, Used
<1>4. CASE SomeGatedStep
  BY <1>4, GatedPreservesGrants DEF SomeGatedStep
<1>5. QED
  BY <1>1, <1>2, <1>3, <1>4, StepKinds

-----------------------------------------------------------------------------
(* Type correctness: the balances stay natural numbers.                    *)

\* The part of TypeOK that PolicyVerifier does not own.
TokenTypeOK ==
    /\ adapterVerifier \in [Adapters -> Instances]
    /\ tokenVerifier \in Adapters \cup Instances
    /\ sacAdapter \in Adapters
    /\ frozen \subseteq Holders
    /\ rwaBal \in [Holders -> Nat]
    /\ sacBal \in [Sacs -> [Holders -> Nat]]
    /\ issued \in Nat
    /\ adminMints \in 0..MaxAdminMints

HistoryTypeOK ==
    /\ settled \subseteq [pv : Instances, key : Key, inputs : PublicInputs]
    /\ settlements \in Nat

\* RwaToken.transfer keeps both balances natural, also when from = to.
LEMMA MovedType ==
    ASSUME NEW from \in Holders, NEW to \in Holders, NEW amount \in Int, amount > 0,
           rwaBal \in [Holders -> Nat], rwaBal[from] >= amount
    PROVE  Moved(from, to, amount) \in [Holders -> Nat]
BY DEF Moved

\* The asset contract's transfer keeps both balances natural.
LEMMA SacTransferType ==
    ASSUME NEW asset \in Sacs, NEW from \in Holders, NEW to \in Holders,
           NEW amount \in Int, amount > 0, sacBal \in [Sacs -> [Holders -> Nat]],
           SacTransfer(asset, from, to, amount)
    PROVE  sacBal' \in [Sacs -> [Holders -> Nat]]
<1>1. sacBal[asset] \in [Holders -> Nat] /\ sacBal[asset][from] >= amount
  BY DEF SacTransfer
<1>2. SacMoved(sacBal[asset], from, to, amount) \in [Holders -> Nat]
  BY <1>1 DEF SacMoved
<1>3. QED
  BY <1>2 DEF SacTransfer

LEMMA SettleSacType ==
    ASSUME TokenTypeOK, NEW ad, NEW asset \in Sacs, NEW from \in Holders,
           NEW to \in Holders, NEW amount \in Amounts, NEW p, NEW proof, NEW inputs,
           SettleSac(ad, asset, from, to, amount, p, proof, inputs)
    PROVE  TokenTypeOK'
<1>1. amount \in Int /\ amount > 0
  BY AmountsAssumption DEF SettleSac
<1>2. /\ SacTransfer(asset, from, to, amount)
      /\ UNCHANGED <<routing, token>>
  BY DEF SettleSac
<1>3. sacBal' \in [Sacs -> [Holders -> Nat]]
  BY <1>1, <1>2, SacTransferType DEF TokenTypeOK
<1>4. QED
  BY <1>2, <1>3 DEF routing, token, TokenTypeOK

LEMMA TokenTypeStep == TokenTypeOK /\ [Next]_vars => TokenTypeOK'
<1> SUFFICES ASSUME TokenTypeOK, [Next]_vars PROVE TokenTypeOK'
  OBVIOUS
<1>1. CASE PolicyVerifierStep
  BY <1>1 DEF PolicyVerifierStep, routing, token, TokenTypeOK
<1>2. CASE Configure
  BY <1>2 DEF Configure, AdapterSetVerifier, TokenSetVerifier, SetAdapter,
              token, TokenTypeOK
<1>3. ASSUME NEW h \in Holders, Freeze(h) PROVE TokenTypeOK'
  BY <1>3 DEF Freeze, routing, TokenTypeOK
<1>4. ASSUME NEW to \in Holders, NEW amount \in Amounts, AdminMint(to, amount)
      PROVE  TokenTypeOK'
  <2>1. amount \in Int /\ amount > 0 /\ MaxAdminMints \in Nat
    BY <1>4, AmountsAssumption DEF AdminMint
  <2>2. QED
    BY <1>4, <2>1 DEF AdminMint, routing, TokenTypeOK
<1>5. ASSUME NEW to \in Holders, NEW amount \in Amounts, NEW proof \in Proofs,
             NEW inputs \in PublicInputs, NEW p \in PolicyIds,
             Mint(to, amount, p, proof, inputs)
      PROVE  TokenTypeOK'
  <2>1. amount \in Int /\ amount > 0
    BY <1>5, AmountsAssumption DEF Mint
  <2>2. /\ rwaBal' = [rwaBal EXCEPT ![to] = @ + amount]
        /\ issued' = issued + amount
        /\ UNCHANGED <<routing, frozen, adminMints, sacBal>>
    BY <1>5 DEF Mint
  <2>3. QED
    BY <2>1, <2>2 DEF routing, TokenTypeOK
<1>6. ASSUME NEW from \in Holders, NEW to \in Holders, NEW amount \in Amounts,
             NEW proof \in Proofs, NEW inputs \in PublicInputs,
             Gated(from, to, amount, proof, inputs)
      PROVE  TokenTypeOK'
  <2>1. ASSUME NEW p \in PolicyIds, Transfer(from, to, amount, p, proof, inputs)
        PROVE  TokenTypeOK'
    <3>1. amount \in Int /\ amount > 0
      BY <2>1, AmountsAssumption DEF Transfer
    <3>2. /\ rwaBal[from] >= amount
          /\ rwaBal' = Moved(from, to, amount)
          /\ UNCHANGED <<routing, frozen, issued, adminMints, sacBal>>
      BY <2>1 DEF Transfer
    <3>3. rwaBal' \in [Holders -> Nat]
      BY <3>1, <3>2, MovedType DEF TokenTypeOK
    <3>4. QED
      BY <3>2, <3>3 DEF routing, TokenTypeOK
  <2>2. ASSUME NEW p \in PolicyIds, TransferCompliant(from, to, amount, p, proof, inputs)
        PROVE  TokenTypeOK'
    BY <2>2, SettleSacType DEF TransferCompliant, Sacs
  <2>3. ASSUME NEW p \in PolicyIds,
               TransferCompliantEurc(from, to, amount, p, proof, inputs)
        PROVE  TokenTypeOK'
    BY <2>3, SettleSacType DEF TransferCompliantEurc, Sacs
  <2>4. CASE SwapCompliant(from, to, amount, proof, inputs)
    BY <2>4, SettleSacType DEF SwapCompliant, Sacs
  <2>5. CASE PayCompliant(from, to, amount, proof, inputs)
    BY <2>5, SettleSacType DEF PayCompliant, Sacs
  <2>6. QED
    BY <1>6, <2>1, <2>2, <2>3, <2>4, <2>5 DEF Gated
<1>7. CASE UNCHANGED vars
  BY <1>7 DEF vars, routing, token, TokenTypeOK
<1>8. QED
  BY <1>1, <1>2, <1>3, <1>4, <1>5, <1>6, <1>7 DEF Next

LEMMA HistoryTypeStep ==
    ASSUME TypeOK, [Next]_vars
    PROVE  HistoryTypeOK'
<1>1. CASE UNCHANGED history
  BY <1>1 DEF history, TypeOK, HistoryTypeOK
<1>2. CASE SomeGatedStep
  <2>1. PICK pv \in Instances, p \in PolicyIds, proof \in Proofs,
             inputs \in PublicInputs : GatedStep(pv, p, proof, inputs)
    BY <1>2 DEF SomeGatedStep
  <2>2. SpentKey(p, inputs) \in Key
    BY <2>1, SpentKeyShape DEF GatedStep, Verify, Check, Valid
  <2>3. QED
    BY <2>1, <2>2 DEF GatedStep, Grant, TypeOK, HistoryTypeOK
<1>3. QED
  BY <1>1, <1>2, StepKinds DEF Quiet, Ledger, history

-----------------------------------------------------------------------------
LEMMA InitInv == Init => IInv
<1> SUFFICES ASSUME Init PROVE IInv
  OBVIOUS
<1>1. LedgerInv /\ RecordedIsSpent
  BY LedgerInit DEF Init
<1>2. TypeOK
  BY <1>1, RoutingAssumption, AmountsAssumption DEF Init, TypeOK, LedgerInv
<1>3. Used = {}
  BY DEF Init, Used
<1>4. GrantInv
  BY <1>3, FS_EmptySet DEF Init, GrantInv, SettledOncePerInstance, Used
<1>5. QED
  BY <1>1, <1>2, <1>4 DEF IInv

LEMMA StepInv == IInv /\ [Next]_vars => IInv'
<1> SUFFICES ASSUME IInv, [Next]_vars PROVE IInv'
  OBVIOUS
<1>1. LedgerInv' /\ RecordedIsSpent' /\ GrantInv'
  BY GrantStep
<1>2. TokenTypeOK'
  BY TokenTypeStep DEF IInv, TypeOK, TokenTypeOK
<1>3. HistoryTypeOK'
  BY HistoryTypeStep DEF IInv
<1>4. PvTypeOK'
  BY <1>1 DEF LedgerInv
<1>5. TypeOK'
  BY <1>2, <1>3, <1>4 DEF TypeOK, TokenTypeOK, HistoryTypeOK
<1>6. QED
  BY <1>1, <1>5 DEF IInv

LEMMA InvAlways == Spec => []IInv
BY InitInv, StepInv, PTL DEF Spec

\* Type correctness of the settlement contracts: no sequence of mints,
\* transfers and settlements, with whatever amounts, makes a balance negative.
THEOREM TypeCorrect == Spec => []TypeOK
<1>1. IInv => TypeOK
  BY DEF IInv
<1>2. QED
  BY <1>1, InvAlways, PTL

\* Every nullifier of every PolicyVerifier instance pays for one operation at
\* most, across RwaToken, ComplianceSacAdmin, CompliantDex and CompliantPayroll
\* and across any re-pointing of the adapters.
THEOREM OneOperationPerNullifier == Spec => []SettledOncePerInstance
<1>1. IInv => SettledOncePerInstance
  BY DEF IInv, GrantInv
<1>2. QED
  BY <1>1, InvAlways, PTL

-----------------------------------------------------------------------------
(* A proof settles once.  The ledger's key holds the policy of the call,    *)
(* which PolicyVerifier does not compare with the inputs; so this needs    *)
(* what the deployment scripts register: of the policies that a proof's    *)
(* inputs can be presented under, one has the proof's circuit.             *)

OnePolicyPerProof(P) ==
    \A pv \in Instances, proof \in Proofs, p \in PolicyIds :
        p \in SettlementPolicies(proof.inputs) /\ verifiers[pv][p] = proof.circuit
            => p = P[proof.inputs]

Paid == {<<s.pv, s.inputs>> : s \in settled}

\* The key that paid for a proof is the one of the proof's policy.
PaidInv(P) ==
    /\ \A s \in settled : s.key = SpentKey(P[s.inputs], s.inputs)
    /\ IsFiniteSet(Paid)
    /\ ProofSettlesOnce

LEMMA GatedPays ==
    ASSUME NEW P, IInv, PaidInv(P), OnePolicyPerProof(P),
           NEW pv \in Instances, NEW p \in PolicyIds, NEW proof \in Proofs,
           NEW inputs \in PublicInputs, GatedStep(pv, p, proof, inputs)
    PROVE  PaidInv(P)'
<1> DEFINE k == SpentKey(p, inputs)
           r == [pv |-> pv, key |-> k, inputs |-> inputs]
<1>1. proof.inputs = inputs /\ verifiers[pv][p] = proof.circuit /\ k \notin spent[pv]
  BY DEF GatedStep, Verify, Check, Valid, verify_proof
<1>2. p = P[inputs]
  BY <1>1 DEF OnePolicyPerProof, GatedStep
<1>3. settled' = settled \cup {r} /\ settlements' = settlements + 1
  BY DEF GatedStep, Grant
<1>4. k = SpentKey(P[inputs], inputs)
  BY <1>2
<1>5. r.pv = pv /\ r.key = k /\ r.inputs = inputs
  OBVIOUS
<1> HIDE DEF k, r
<1>6. <<pv, inputs>> \notin Paid
  <2> SUFFICES ASSUME NEW s \in settled, s.pv = pv, s.inputs = inputs PROVE FALSE
    BY DEF Paid
  <2>1. s.key \in spent[pv] /\ s.key = SpentKey(P[s.inputs], s.inputs)
    BY DEF IInv, GrantInv, PaidInv
  <2>2. s.key = k
    BY <1>4, <2>1
  <2>3. QED
    BY <1>1, <2>1, <2>2
<1>7. Paid' = Paid \cup {<<pv, inputs>>}
  BY <1>3, <1>5 DEF Paid
<1>8. IsFiniteSet(Paid') /\ Cardinality(Paid') = Cardinality(Paid) + 1
  BY <1>6, <1>7, FS_AddElement DEF PaidInv
<1>9. ProofSettlesOnce'
  BY <1>3, <1>8 DEF PaidInv, ProofSettlesOnce, Paid
<1>10. (\A s \in settled : s.key = SpentKey(P[s.inputs], s.inputs))'
  BY <1>3, <1>4, <1>5 DEF PaidInv
<1>11. QED
  BY <1>8, <1>9, <1>10 DEF PaidInv

LEMMA PaysOnceStep ==
    ASSUME NEW P PROVE IInv /\ PaidInv(P) /\ OnePolicyPerProof(P) /\ [Next]_vars => PaidInv(P)'
<1> SUFFICES ASSUME IInv, PaidInv(P), OnePolicyPerProof(P), [Next]_vars PROVE PaidInv(P)'
  OBVIOUS
<1>1. CASE Quiet \/ Ledger
  BY <1>1 DEF Quiet, Ledger, history, PaidInv, ProofSettlesOnce, Paid
<1>2. CASE SomeGatedStep
  BY <1>2, GatedPays DEF SomeGatedStep
<1>3. QED
  BY <1>1, <1>2, StepKinds DEF IInv

\* While no two policies that a proof can be presented under have its circuit,
\* a proof pays for one operation per instance at most, although two contracts
\* take the policy from the inputs and two from storage, and whatever is
\* registered and re-pointed (policy_verifier lines 61-79 and 183).
THEOREM ProofPaysOnce ==
    ASSUME NEW P PROVE Spec /\ []OnePolicyPerProof(P) => []ProofSettlesOnce
<1>1. Init => PaidInv(P)
  <2> SUFFICES ASSUME Init PROVE PaidInv(P)
    OBVIOUS
  <2>1. settled = {} /\ settlements = 0 /\ Paid = {}
    BY DEF Init, Paid
  <2>2. QED
    BY <2>1, FS_EmptySet DEF PaidInv, ProofSettlesOnce, Paid
<1>2. PaidInv(P) => ProofSettlesOnce
  BY DEF PaidInv
<1>3. QED
  BY <1>1, <1>2, PaysOnceStep, InvAlways, PTL DEF Spec

-----------------------------------------------------------------------------
(* The settlement contracts implement vouchers.                            *)

Gone == UNION {{pv} \X spent[pv] : pv \in Instances}

\* Spending one fresh key removes one voucher, and only that one.
LEMMA SpendIsOneVoucher ==
    ASSUME spent \in [Instances -> SUBSET Key], NEW pv \in Instances, NEW k \in Key,
           k \notin spent[pv], spent' = [spent EXCEPT ![pv] = @ \cup {k}]
    PROVE  /\ <<pv, k>> \notin Gone
           /\ Gone' = Gone \cup {<<pv, k>>}
<1>1. \A i \in Instances :
          spent'[i] = IF i = pv THEN spent[pv] \cup {k} ELSE spent[i]
  OBVIOUS
<1>2. \A i, c : <<i, c>> \in Gone <=> i \in Instances /\ c \in spent[i]
  BY DEF Gone
<1>3. \A i, c : <<i, c>> \in Gone' <=> i \in Instances /\ c \in spent'[i]
  BY DEF Gone
<1>4. \A x \in Gone \cup Gone' : x = <<x[1], x[2]>>
  BY DEF Gone
<1>5. \A x : x \in Gone' => x \in Gone \/ x = <<pv, k>>
  <2> SUFFICES ASSUME NEW x \in Gone' PROVE x \in Gone \/ x = <<pv, k>>
    OBVIOUS
  <2>1. x = <<x[1], x[2]>> /\ x[1] \in Instances /\ x[2] \in spent'[x[1]]
    BY <1>3, <1>4
  <2>2. QED
    BY <2>1, <1>1, <1>2
<1>6. \A x : x \in Gone => x \in Gone'
  <2> SUFFICES ASSUME NEW x \in Gone PROVE x \in Gone'
    OBVIOUS
  <2>1. x = <<x[1], x[2]>> /\ x[1] \in Instances /\ x[2] \in spent[x[1]]
    BY <1>2, <1>4
  <2>2. QED
    BY <2>1, <1>1, <1>3
<1>7. <<pv, k>> \in Gone' /\ <<pv, k>> \notin Gone
  BY <1>1, <1>2, <1>3
<1>8. QED
  BY <1>5, <1>6, <1>7

LEMMA VouchersStart == Init => Voucher!VouchInit
<1> SUFFICES ASSUME Init PROVE Voucher!VouchInit
  OBVIOUS
<1>1. \A pv \in Instances : spent[pv] = {}
  BY DEF Init, PvInit
<1>2. UNION {{pv} \X spent[pv] : pv \in Instances} = {}
  BY <1>1
<1>3. {<<s.pv, s.key>> : s \in settled} = {} /\ settlements = 0
  BY DEF Init
<1>4. QED
  BY <1>2, <1>3 DEF Voucher!VouchInit

\* A verification nobody settles with burns a voucher.
LEMMA LedgerBurns ==
    ASSUME IInv, Ledger
    PROVE  Voucher!Burn \/ UNCHANGED Voucher!vouchVars
<1>1. spent \in [Instances -> SUBSET Key]
  BY DEF IInv, TypeOK, PvTypeOK
<1>2. UNCHANGED <<settled, settlements>> /\ PvNext
  BY DEF Ledger, history
<1>3. CASE UNCHANGED spent
  BY <1>2, <1>3 DEF Voucher!vouchVars
<1>4. ASSUME NEW pv \in Instances, NEW p \in PolicyIds, NEW proof \in Proofs,
             NEW inputs \in PublicInputs, Verify(pv, p, proof, inputs)
      PROVE  Voucher!Burn
  <2> DEFINE k == SpentKey(p, inputs)
  <2>1. k \in Key
    BY <1>4, SpentKeyShape DEF Verify, Check, Valid
  <2>2. k \notin spent[pv] /\ spent' = [spent EXCEPT ![pv] = @ \cup {k}]
    BY <1>4 DEF Verify, Check
  <2>3. <<pv, k>> \notin Gone /\ Gone' = Gone \cup {<<pv, k>>}
    BY <1>1, <2>1, <2>2, SpendIsOneVoucher
  <2>4. QED
    BY <1>2, <2>3 DEF Voucher!Burn, Gone
<1>5. QED
  BY <1>2, <1>3, <1>4 DEF PvNext, RegisterPolicy, VerifyCall, VerifyAndRecord, SetEligible

\* A gated operation redeems one.
LEMMA GatedRedeems ==
    ASSUME IInv, NEW pv \in Instances, NEW p \in PolicyIds, NEW proof \in Proofs,
           NEW inputs \in PublicInputs, GatedStep(pv, p, proof, inputs)
    PROVE  Voucher!Redeem
<1>1. spent \in [Instances -> SUBSET Key]
  BY DEF IInv, TypeOK, PvTypeOK
<1>2. SpentKey(p, inputs) \in Key
  BY SpentKeyShape DEF GatedStep, Verify, Check, Valid
<1>3. /\ <<pv, SpentKey(p, inputs)>> \notin Used
      /\ SpentKey(p, inputs) \notin spent[pv]
      /\ Used' = Used \cup {<<pv, SpentKey(p, inputs)>>}
      /\ spent' = [spent EXCEPT ![pv] = @ \cup {SpentKey(p, inputs)}]
      /\ settlements' = settlements + 1
  BY GrantUsesFreshVoucher
<1>4. /\ <<pv, SpentKey(p, inputs)>> \notin Gone
      /\ Gone' = Gone \cup {<<pv, SpentKey(p, inputs)>>}
  BY <1>1, <1>2, <1>3, SpendIsOneVoucher
<1>5. QED
  BY <1>3, <1>4 DEF Voucher!Redeem, Gone, Used

LEMMA VouchersStep ==
    IInv /\ [Next]_vars => [Voucher!VouchNext]_(Voucher!vouchVars)
<1> SUFFICES ASSUME IInv, [Next]_vars
             PROVE  Voucher!VouchNext \/ UNCHANGED Voucher!vouchVars
  OBVIOUS
<1>1. CASE Quiet
  BY <1>1 DEF Quiet, pvVars, history, Voucher!vouchVars
<1>2. CASE Ledger
  BY <1>2, LedgerBurns DEF Voucher!VouchNext
<1>3. CASE SomeGatedStep
  BY <1>3, GatedRedeems DEF SomeGatedStep, Voucher!VouchNext
<1>4. QED
  BY <1>1, <1>2, <1>3, StepKinds DEF IInv

\* The settlement contracts implement vouchers: every gated operation of every
\* contract redeems exactly one that was never used, and none comes back.
THEOREM SettlementImplementsVouchers == Spec => ImplementsVouchers
BY VouchersStart, VouchersStep, InvAlways, PTL
   DEF Spec, ImplementsVouchers, Voucher!VouchSpec

-----------------------------------------------------------------------------
\* Freezing is final for the RWA balance of a holder: RwaToken has no unfreeze
\* and every entry point that writes a balance checks both parties.
THEOREM FreezeIsFinal == Spec => FrozenBalanceIsStill
<1>1. ASSUME IInv, [Next]_vars, NEW h \in frozen
      PROVE  h \in frozen' /\ rwaBal'[h] = rwaBal[h]
  <2> USE <1>1
  <2>1. h \in Holders /\ rwaBal \in [Holders -> Nat]
    BY DEF IInv, TypeOK
  <2>2. CASE UNCHANGED <<frozen, rwaBal>>
    BY <2>2
  <2>3. ASSUME NEW g \in Holders, Freeze(g) PROVE h \in frozen' /\ rwaBal' = rwaBal
    BY <2>3 DEF Freeze
  <2>4. ASSUME NEW to \in Holders, NEW amount \in Amounts, AdminMint(to, amount)
        PROVE  h \in frozen' /\ rwaBal'[h] = rwaBal[h]
    BY <2>1, <2>4 DEF AdminMint
  <2>5. ASSUME NEW to \in Holders, NEW amount \in Amounts, NEW p, NEW proof, NEW inputs,
               Mint(to, amount, p, proof, inputs)
        PROVE  h \in frozen' /\ rwaBal'[h] = rwaBal[h]
    BY <2>1, <2>5 DEF Mint
  <2>6. ASSUME NEW from \in Holders, NEW to \in Holders, NEW amount \in Amounts,
               NEW p, NEW proof, NEW inputs, Transfer(from, to, amount, p, proof, inputs)
        PROVE  h \in frozen' /\ rwaBal'[h] = rwaBal[h]
    BY <2>1, <2>6 DEF Transfer, Moved
  <2>7. CASE Next
    BY <2>2, <2>3, <2>4, <2>5, <2>6, <2>7
       DEF Next, PolicyVerifierStep, Configure, AdapterSetVerifier, TokenSetVerifier,
           SetAdapter, Gated, TransferCompliant, TransferCompliantEurc, SwapCompliant,
           PayCompliant, SettleSac, token
  <2>8. CASE UNCHANGED vars
    BY <2>2, <2>8 DEF vars, token
  <2>9. QED
    BY <2>7, <2>8
<1>2. IInv /\ [Next]_vars =>
          [\A h \in frozen : h \in frozen' /\ rwaBal'[h] = rwaBal[h]]_vars
  BY <1>1
<1>3. QED
  BY <1>2, InvAlways, PTL DEF Spec, FrozenBalanceIsStill

-----------------------------------------------------------------------------
\* Inputs that pass the scope test of an asset and are proved by a circuit
\* have six words, so the key they burn carries that asset's settlement scope.
LEMMA GateBurnsItsScope ==
    ASSUME IInv, NEW pv \in Instances, NEW p \in PolicyIds, NEW proof \in Proofs,
           NEW inputs \in PublicInputs, NEW asset,
           RequireAssetScope(inputs, asset), Verify(pv, p, proof, inputs)
    PROVE  FreshKey(asset)
<1>1. Len(inputs) >= 6
  <2>1. proof.inputs = inputs
    BY DEF Verify, Check, Valid, verify_proof
  <2>2. Len(inputs) = 4 \/ Len(inputs) = 6
    BY <2>1, CircuitArityAssumption
  <2>3. Len(inputs) >= 5
    BY DEF RequireAssetScope
  <2>4. \A n : n >= 5 /\ (n = 4 \/ n = 6) => n >= 6
    OBVIOUS
  <2>5. QED
    BY <2>2, <2>3, <2>4
<1>2. /\ SpentKey(p, inputs)[2] = asset
      /\ SpentKey(p, inputs)[3] = ACTION_SETTLEMENT
  BY <1>1 DEF RequireAssetScope, SpentKey, Scope, Scoped
<1>3. spent \in [Instances -> SUBSET Key]
  BY DEF IInv, TypeOK, PvTypeOK
<1>4. SpentKey(p, inputs) \in spent'[pv] \ spent[pv]
  BY <1>3 DEF Verify, Check
<1>5. QED
  BY <1>2, <1>4 DEF FreshKey

\* A SAC settlement moves the balances of its own asset, behind its own gate.
LEMMA SettleSacMovesItsAsset ==
    ASSUME IInv, NEW ad, adapterVerifier[ad] \in Instances, NEW asset \in Sacs,
           NEW from, NEW to, NEW amount, NEW p \in PolicyIds, NEW proof \in Proofs,
           NEW inputs \in PublicInputs,
           SettleSac(ad, asset, from, to, amount, p, proof, inputs)
    PROVE  /\ \A a \in Sacs : sacBal'[a] # sacBal[a] => FreshKey(a)
           /\ rwaBal' = rwaBal
<1>1. FreshKey(asset)
  BY GateBurnsItsScope DEF SettleSac, VerifyPassport
<1>2. \A a \in Sacs : a # asset => sacBal'[a] = sacBal[a]
  BY DEF SettleSac, SacTransfer, IInv, TypeOK
<1>3. rwaBal' = rwaBal
  BY DEF SettleSac, token
<1>4. QED
  BY <1>1, <1>2, <1>3

\* The property of one step.
ThroughGate ==
    /\ \A a \in Sacs : sacBal'[a] # sacBal[a] => FreshKey(a)
    /\ rwaBal' # rwaBal => adminMints' # adminMints \/ FreshKey(ASSET_RWA)

LEMMA StepThroughGate == IInv /\ [Next]_vars => ThroughGate
<1> SUFFICES ASSUME IInv, [Next]_vars PROVE ThroughGate
  OBVIOUS
<1>1. /\ TokenInstance \in Instances
      /\ adapterVerifier[sacAdapter] \in Instances
      /\ adapterVerifier[DexAdapter] \in Instances
      /\ adapterVerifier[PayrollAdapter] \in Instances
  BY RoutesToInstances DEF IInv
<1>2. ASSUME UNCHANGED <<rwaBal, sacBal>> PROVE ThroughGate
  BY <1>2 DEF ThroughGate
<1>3. ASSUME NEW h \in Holders, Freeze(h) PROVE ThroughGate
  BY <1>2, <1>3 DEF Freeze
<1>4. ASSUME NEW to \in Holders, NEW amount \in Amounts, AdminMint(to, amount)
      PROVE  ThroughGate
  <2>1. adminMints' # adminMints /\ sacBal' = sacBal
    BY <1>4 DEF AdminMint, IInv, TypeOK
  <2>2. QED
    BY <2>1 DEF ThroughGate
<1>5. ASSUME NEW p \in PolicyIds, NEW proof \in Proofs, NEW inputs \in PublicInputs,
             VerifyEligibility(p, proof, inputs), UNCHANGED sacBal
      PROVE  ThroughGate
  <2>1. FreshKey(ASSET_RWA)
    BY <1>1, <1>5, GateBurnsItsScope DEF VerifyEligibility
  <2>2. QED
    BY <1>5, <2>1 DEF ThroughGate
<1>6. ASSUME NEW from \in Holders, NEW to \in Holders, NEW amount \in Amounts,
             NEW proof \in Proofs, NEW inputs \in PublicInputs,
             Gated(from, to, amount, proof, inputs)
      PROVE  ThroughGate
  <2>1. ASSUME NEW p \in PolicyIds, Transfer(from, to, amount, p, proof, inputs)
        PROVE  ThroughGate
    BY <1>5, <2>1 DEF Transfer
  <2>2. ASSUME NEW p \in PolicyIds, TransferCompliant(from, to, amount, p, proof, inputs)
        PROVE  ThroughGate
    BY <1>1, <2>2, SettleSacMovesItsAsset DEF TransferCompliant, Sacs, ThroughGate
  <2>3. ASSUME NEW p \in PolicyIds,
               TransferCompliantEurc(from, to, amount, p, proof, inputs)
        PROVE  ThroughGate
    BY <1>1, <2>3, SettleSacMovesItsAsset DEF TransferCompliantEurc, Sacs, ThroughGate
  <2>4. CASE SwapCompliant(from, to, amount, proof, inputs)
    BY <1>1, <2>4, SettleSacMovesItsAsset, PolicyConfigAssumption
       DEF SwapCompliant, Sacs, ThroughGate
  <2>5. CASE PayCompliant(from, to, amount, proof, inputs)
    BY <1>1, <2>5, SettleSacMovesItsAsset, PolicyConfigAssumption
       DEF PayCompliant, Sacs, ThroughGate
  <2>6. QED
    BY <1>6, <2>1, <2>2, <2>3, <2>4, <2>5 DEF Gated
<1>7. ASSUME NEW to \in Holders, NEW amount \in Amounts, NEW proof \in Proofs,
             NEW inputs \in PublicInputs, NEW p \in PolicyIds,
             Mint(to, amount, p, proof, inputs)
      PROVE  ThroughGate
  BY <1>5, <1>7 DEF Mint
<1>8. CASE PolicyVerifierStep \/ Configure \/ UNCHANGED vars
  BY <1>2, <1>8 DEF PolicyVerifierStep, Configure, AdapterSetVerifier,
                    TokenSetVerifier, SetAdapter, token, vars
<1>9. QED
  BY <1>3, <1>4, <1>6, <1>7, <1>8 DEF Next

\* Value moves only through the gate of its own asset: every change of a SAC
\* balance burns a fresh key of that asset's scope in the same invocation, and
\* every change of an RWA balance does too unless the admin minted.  The scope
\* is read from words of any size as the contracts read them, modulo 2^128.
THEOREM GateOfItsAsset == Spec => MovesThroughItsGate
<1>1. IInv /\ [Next]_vars =>
        [ /\ \A a \in Sacs : sacBal'[a] # sacBal[a] => FreshKey(a)
          /\ rwaBal' # rwaBal => adminMints' # adminMints \/ FreshKey(ASSET_RWA) ]_vars
  BY StepThroughGate DEF ThroughGate
<1>2. QED
  BY <1>1, InvAlways, PTL DEF Spec, MovesThroughItsGate

(***************************************************************************)
(* Smart accounts.                                                         *)
(***************************************************************************)
-----------------------------------------------------------------------------
(* What an account does is a stutter, or a step of Settlement.             *)

AccountStep(a) ==
    \/ \E adapter \in Adapters, p \in PolicyIds :
           Deploy(a, adapter, p) \/ AddSessionRule(a, adapter, p)
    \/ \E r \in rules[a] : RemoveRule(a, r) \/ RemovePolicy(a, r)
    \/ \E proof \in Proofs : SetProof(a, proof) \/ OperatorSetProof(a, proof)

PaidStep ==
    \E from \in Holders, to \in Holders, amount \in Amounts,
       proof \in Proofs, inputs \in PublicInputs :
           PaidBy(from, to, amount, proof, inputs)

LEMMA SmartNextKinds ==
    SmartNext <=> (\E a \in Accounts : AccountStep(a)) \/ CloseLedger \/ Unpaid \/ PaidStep
BY DEF SmartNext, AccountStep, PaidStep

LEMMA AccountStepKeepsVars ==
    ASSUME NEW a, AccountStep(a) \/ CloseLedger
    PROVE  UNCHANGED vars
BY DEF AccountStep, Deploy, AddSessionRule, RemoveRule, RemovePolicy, SetProof,
       OperatorSetProof, CloseLedger

LEMMA UnpaidIsNext == Unpaid => Next
BY DEF Unpaid, Next

LEMMA PaidIsNext == PaidStep => Next
<1> SUFFICES ASSUME NEW from \in Holders, NEW to \in Holders, NEW amount \in Amounts,
                    NEW proof \in Proofs, NEW inputs \in PublicInputs,
                    PaidBy(from, to, amount, proof, inputs)
             PROVE  Next
  BY DEF PaidStep
<1>1. Gated(from, to, amount, proof, inputs)
  BY DEF PaidBy
<1>2. QED
  BY <1>1 DEF Next

LEMMA SmartStepIsNext == [SmartNext]_smartVars => [Next]_vars
<1>1. CASE \E a \in Accounts : AccountStep(a)
  BY <1>1, AccountStepKeepsVars
<1>2. CASE CloseLedger
  BY <1>2 DEF CloseLedger
<1>3. CASE UNCHANGED smartVars
  BY <1>3 DEF smartVars
<1>4. QED
  BY <1>1, <1>2, <1>3, SmartNextKinds, UnpaidIsNext, PaidIsNext

\* Smart accounts only restrict who pays: every behaviour of the composition is
\* a behaviour of the settlement contracts, so their theorems carry over.
THEOREM AccountsRefineSettlement == SmartSpec => Spec
<1>1. SmartInit => Init
  BY DEF SmartInit
<1>2. QED
  BY <1>1, SmartStepIsNext, PTL DEF SmartSpec, Spec

-----------------------------------------------------------------------------
(* Types.                                                                  *)

LEMMA SmartTypeInit == SmartInit => SmartTypeOK
BY LedgerAssumption DEF SmartInit, SmartTypeOK

\* A new rule gets an id no rule of the account has.
LEMMA AddRuleType ==
    ASSUME SmartTypeOK, NEW a \in Accounts, NEW adapter \in Adapters,
           NEW p \in PolicyIds, NEW until \in Nat \cup {Forever},
           AddRule(a, until, adapter, p), UNCHANGED <<bound, ledger>>
    PROVE  SmartTypeOK'
<1> DEFINE new == [id |-> nextId[a], until |-> until, gated |-> TRUE]
<1>1. nextId[a] \in Nat /\ nextId[a] < MaxRules /\ MaxRules \in Nat
  BY LedgerAssumption DEF AddRule, SmartTypeOK
<1>2. new \in Rule
  BY <1>1 DEF Rule
<1>3. /\ rules' = [rules EXCEPT ![a] = @ \cup {new}]
      /\ nextId' = [nextId EXCEPT ![a] = @ + 1]
      /\ cfg' = [cfg EXCEPT ![a] = [adapter |-> adapter, policyId |-> p]]
  BY DEF AddRule, Install
<1>4. /\ rules' \in [Accounts -> SUBSET Rule]
      /\ nextId' \in [Accounts -> 0..MaxRules]
      /\ cfg' \in [Accounts -> [adapter : Adapters, policyId : PolicyIds] \cup {None}]
  <2>1. rules' \in [Accounts -> SUBSET Rule]
    <3> HIDE DEF new
    <3> QED  BY <1>2, <1>3 DEF SmartTypeOK
  <2>2. nextId' \in [Accounts -> 0..MaxRules]
    BY <1>1, <1>3 DEF SmartTypeOK
  <2>3. cfg' \in [Accounts -> [adapter : Adapters, policyId : PolicyIds] \cup {None}]
    BY <1>3 DEF SmartTypeOK
  <2>4. QED
    BY <2>1, <2>2, <2>3
<1>5. \A b \in Accounts : \A r \in rules'[b] :
          r.id < nextId'[b] /\ (\A q \in rules'[b] : q.id = r.id => q = r)
  <2>1. ASSUME NEW b \in Accounts, b # a
        PROVE  rules'[b] = rules[b] /\ nextId'[b] = nextId[b]
    BY <1>3, <2>1 DEF SmartTypeOK
  <2>2. rules'[a] = rules[a] \cup {new} /\ nextId'[a] = nextId[a] + 1 /\ new.id = nextId[a]
    BY <1>3 DEF SmartTypeOK
  <2> HIDE DEF new
  <2>3. \A r \in rules[a] : r \in Rule /\ r.id < nextId[a]
    BY DEF SmartTypeOK
  <2>4. \A r \in rules[a] : r.id \in Nat
    BY <2>3 DEF Rule
  <2>5. \A r \in rules'[a] : r.id < nextId'[a]
    BY <1>1, <2>2, <2>3, <2>4
  <2>6. \A r, q \in rules'[a] : q.id = r.id => q = r
    BY <1>1, <2>2, <2>3, <2>4 DEF SmartTypeOK
  <2>7. QED
    BY <2>1, <2>5, <2>6 DEF SmartTypeOK
<1>6. QED
  BY <1>4, <1>5 DEF SmartTypeOK

LEMMA SmartTypeStep == SmartTypeOK /\ [SmartNext]_smartVars => SmartTypeOK'
<1> SUFFICES ASSUME SmartTypeOK, [SmartNext]_smartVars PROVE SmartTypeOK'
  OBVIOUS
<1>1. ASSUME NEW a \in Accounts, NEW adapter \in Adapters, NEW p \in PolicyIds,
             Deploy(a, adapter, p)
      PROVE  SmartTypeOK'
  BY <1>1, AddRuleType DEF Deploy
<1>2. ASSUME NEW a \in Accounts, NEW adapter \in Adapters, NEW p \in PolicyIds,
             AddSessionRule(a, adapter, p)
      PROVE  SmartTypeOK'
  <2>1. ledger + SessionLedgers \in Nat
    BY LedgerAssumption DEF SmartTypeOK
  <2>2. QED
    BY <1>2, <2>1, AddRuleType DEF AddSessionRule
<1>3. ASSUME NEW a \in Accounts, NEW r \in rules[a], RemoveRule(a, r)
      PROVE  SmartTypeOK'
  <2>1. /\ rules' = [rules EXCEPT ![a] = @ \ {r}]
        /\ cfg' \in [Accounts -> [adapter : Adapters, policyId : PolicyIds] \cup {None}]
        /\ UNCHANGED <<bound, nextId, ledger>>
    BY <1>3 DEF RemoveRule, Uninstall, SmartTypeOK
  <2>2. QED
    BY <2>1 DEF SmartTypeOK
<1>4. ASSUME NEW a \in Accounts, NEW r \in rules[a], RemovePolicy(a, r)
      PROVE  SmartTypeOK'
  <2> DEFINE loose == [r EXCEPT !.gated = FALSE]
  <2>1. /\ rules' = [rules EXCEPT ![a] = (@ \ {r}) \cup {loose}]
        /\ cfg' \in [Accounts -> [adapter : Adapters, policyId : PolicyIds] \cup {None}]
        /\ UNCHANGED <<bound, nextId, ledger>>
    BY <1>4 DEF RemovePolicy, Uninstall, SmartTypeOK
  <2>2. r \in Rule
    BY DEF SmartTypeOK
  <2>3. loose \in Rule /\ loose.id = r.id
    BY <2>2 DEF Rule
  <2> HIDE DEF loose
  <2>4. rules' \in [Accounts -> SUBSET Rule]
    BY <2>1, <2>3 DEF SmartTypeOK
  <2>5. rules'[a] = (rules[a] \ {r}) \cup {loose}
    BY <2>1 DEF SmartTypeOK
  <2>6. \A q \in rules'[a] :
            q.id < nextId[a] /\ (\A x \in rules'[a] : x.id = q.id => x = q)
    BY <2>3, <2>5 DEF SmartTypeOK
  <2>7. \A b \in Accounts : b # a => rules'[b] = rules[b]
    BY <2>1 DEF SmartTypeOK
  <2>8. QED
    BY <2>1, <2>4, <2>6, <2>7 DEF SmartTypeOK
<1>5. ASSUME NEW a \in Accounts, NEW proof \in Proofs,
             SetProof(a, proof) \/ OperatorSetProof(a, proof)
      PROVE  SmartTypeOK'
  BY <1>5 DEF SetProof, OperatorSetProof, SmartTypeOK
<1>6. CASE CloseLedger
  BY <1>6, LedgerAssumption DEF CloseLedger, SmartTypeOK
<1>7. CASE UNCHANGED accountVars
  BY <1>7 DEF accountVars, SmartTypeOK
<1>8. QED
  BY <1>1, <1>2, <1>3, <1>4, <1>5, <1>6, <1>7, SmartNextKinds
     DEF AccountStep, Unpaid, PaidStep, PaidBy, smartVars

-----------------------------------------------------------------------------
(* A session never precedes a bound proof.                                 *)

PastFirst(a) == \E r \in rules[a] : r.id > 0 \/ ~r.gated

\* What authorizes an account is a bound proof, or a rule that needed one.
LEMMA AuthorizedIsBound ==
    ASSUME BoundBeforeSession, NEW a \in Accounts, Authorized(a)
    PROVE  bound[a] # None
<1>1. PICK r \in rules[a] : r.gated => Enforce(a)
  BY DEF Authorized, LiveRules
<1>2. CASE r.gated
  BY <1>1, <1>2 DEF Enforce
<1>3. CASE ~r.gated
  BY <1>3 DEF BoundBeforeSession
<1>4. QED
  BY <1>2, <1>3

LEMMA BoundBeforeSessionStep ==
    SmartTypeOK /\ BoundBeforeSession /\ [SmartNext]_smartVars => BoundBeforeSession'
<1> SUFFICES ASSUME SmartTypeOK, BoundBeforeSession, [SmartNext]_smartVars,
                    NEW b \in Accounts, PastFirst(b)'
             PROVE  bound'[b] # None
  BY DEF BoundBeforeSession, PastFirst
<1> USE DEF SmartTypeOK
<1>0. PastFirst(b) => bound[b] # None
  BY DEF PastFirst, BoundBeforeSession
<1>1. ASSUME NEW a \in Accounts, NEW adapter \in Adapters, NEW p \in PolicyIds,
             Deploy(a, adapter, p)
      PROVE  bound'[b] # None
  <2>1. /\ bound' = bound
        /\ rules' = [rules EXCEPT ![a] = @ \cup {[id |-> 0,  until |-> Forever, gated |-> TRUE]}]
    BY <1>1 DEF Deploy, AddRule
  <2>2. PastFirst(b)
    BY <2>1 DEF PastFirst
  <2>3. QED
    BY <1>0, <2>1, <2>2
<1>2. ASSUME NEW a \in Accounts, NEW adapter \in Adapters, NEW p \in PolicyIds,
             AddSessionRule(a, adapter, p)
      PROVE  bound'[b] # None
  <2>1. bound' = bound /\ (b # a => rules'[b] = rules[b])
    BY <1>2 DEF AddSessionRule, AddRule
  <2>2. CASE b = a
    BY <1>2, <2>1, <2>2, AuthorizedIsBound DEF AddSessionRule
  <2>3. CASE b # a
    BY <1>0, <2>1, <2>3 DEF PastFirst
  <2>4. QED
    BY <2>2, <2>3
<1>3. ASSUME NEW a \in Accounts, NEW r \in rules[a], RemoveRule(a, r) \/ RemovePolicy(a, r)
      PROVE  bound'[b] # None
  <2>1. bound' = bound /\ (b # a => rules'[b] = rules[b])
    BY <1>3 DEF RemoveRule, RemovePolicy
  <2>2. CASE b = a
    BY <1>3, <2>1, <2>2, AuthorizedIsBound DEF RemoveRule, RemovePolicy
  <2>3. CASE b # a
    BY <1>0, <2>1, <2>3 DEF PastFirst
  <2>4. QED
    BY <2>2, <2>3
<1>4. ASSUME NEW a \in Accounts, NEW proof \in Proofs,
             SetProof(a, proof) \/ OperatorSetProof(a, proof)
      PROVE  bound'[b] # None
  <2>1. /\ bound' = [bound EXCEPT ![a] = proof] /\ rules' = rules
        /\ proof # None
    BY <1>4, AccountsAssumption DEF SetProof, OperatorSetProof
  <2>2. QED
    BY <1>0, <2>1 DEF PastFirst
<1>5. CASE CloseLedger \/ UNCHANGED accountVars
  BY <1>0, <1>5 DEF CloseLedger, accountVars, PastFirst
<1>6. QED
  BY <1>1, <1>2, <1>3, <1>4, <1>5, SmartNextKinds
     DEF AccountStep, Unpaid, PaidStep, PaidBy, smartVars

LEMMA BoundBeforeSessionInit == SmartInit => BoundBeforeSession
BY DEF SmartInit, BoundBeforeSession

\* Type correctness of the accounts; ids of context rules are never reused.
THEOREM SmartTypeCorrect == SmartSpec => []SmartTypeOK
BY SmartTypeInit, SmartTypeStep, PTL DEF SmartSpec

\* The critical order of session set-up: an account that got past its first
\* rule has a proof bound to it, whatever else was installed or removed.
THEOREM BindComesFirst == SmartSpec => []BoundBeforeSession
BY SmartTypeCorrect, BoundBeforeSessionInit, BoundBeforeSessionStep, PTL DEF SmartSpec

-----------------------------------------------------------------------------
(* Only the payer of a gated operation is debited.                         *)

LEMMA MovedDebitsPayer ==
    ASSUME NEW a \in Holders, NEW from \in Holders, NEW to \in Holders,
           NEW amount \in Int, amount > 0, rwaBal \in [Holders -> Nat],
           Moved(from, to, amount)[a] < rwaBal[a]
    PROVE  a = from
BY DEF Moved

LEMMA SacMovedDebitsPayer ==
    ASSUME NEW bal \in [Holders -> Nat], NEW a \in Holders, NEW from \in Holders,
           NEW to \in Holders, NEW amount \in Int, amount > 0,
           SacMoved(bal, from, to, amount)[a] < bal[a]
    PROVE  a = from
BY DEF SacMoved

LEMMA SettleSacDebitsPayer ==
    ASSUME TypeOK, NEW ad, NEW asset \in Sacs, NEW a \in Holders, NEW from \in Holders,
           NEW to \in Holders, NEW amount \in Amounts, NEW p, NEW proof, NEW inputs,
           SettleSac(ad, asset, from, to, amount, p, proof, inputs), Debited(a)
    PROVE  a = from
<1>1. /\ amount \in Int /\ amount > 0
      /\ sacBal' = [sacBal EXCEPT ![asset] = SacMoved(sacBal[asset], from, to, amount)]
      /\ rwaBal' = rwaBal
  BY AmountsAssumption DEF SettleSac, SacTransfer, token
<1>2. /\ rwaBal \in [Holders -> Nat]
      /\ sacBal \in [Sacs -> [Holders -> Nat]]
  BY DEF TypeOK
<1>3. PICK s \in Sacs : sacBal'[s][a] < sacBal[s][a]
  BY <1>1, <1>2 DEF Debited
<1>4. s = asset
  <2>1. SUFFICES ASSUME s # asset PROVE FALSE
    OBVIOUS
  <2>2. sacBal'[s] = sacBal[s]
    BY <1>1, <1>2, <2>1
  <2>3. sacBal[s][a] \in Nat
    BY <1>2
  <2>4. QED
    BY <1>3, <2>2, <2>3
<1>5. SacMoved(sacBal[asset], from, to, amount)[a] < sacBal[asset][a]
  BY <1>1, <1>2, <1>3, <1>4
<1>6. sacBal[asset] \in [Holders -> Nat]
  BY <1>2
<1>7. QED
  BY <1>1, <1>5, <1>6, SacMovedDebitsPayer

LEMMA GatedDebitsPayer ==
    ASSUME TypeOK, NEW a \in Holders, NEW from \in Holders, NEW to \in Holders,
           NEW amount \in Amounts, NEW proof, NEW inputs,
           Gated(from, to, amount, proof, inputs), Debited(a)
    PROVE  a = from
<1>1. ASSUME NEW p, Transfer(from, to, amount, p, proof, inputs)
      PROVE  a = from
  <2>1. /\ amount \in Int /\ amount > 0
        /\ rwaBal' = Moved(from, to, amount)
        /\ sacBal' = sacBal
    BY <1>1, AmountsAssumption DEF Transfer
  <2>2. rwaBal \in [Holders -> Nat] /\ \A s \in Sacs : sacBal[s][a] \in Nat
    BY DEF TypeOK
  <2>3. rwaBal'[a] < rwaBal[a]
    BY <2>1, <2>2 DEF Debited
  <2>4. QED
    BY <2>1, <2>2, <2>3, MovedDebitsPayer
<1>2. ASSUME NEW p, TransferCompliant(from, to, amount, p, proof, inputs)
      PROVE  a = from
  BY <1>2, SettleSacDebitsPayer DEF TransferCompliant, Sacs
<1>3. ASSUME NEW p, TransferCompliantEurc(from, to, amount, p, proof, inputs)
      PROVE  a = from
  BY <1>3, SettleSacDebitsPayer DEF TransferCompliantEurc, Sacs
<1>4. CASE SwapCompliant(from, to, amount, proof, inputs)
  BY <1>4, SettleSacDebitsPayer DEF SwapCompliant, Sacs
<1>5. CASE PayCompliant(from, to, amount, proof, inputs)
  BY <1>5, SettleSacDebitsPayer DEF PayCompliant, Sacs
<1>6. QED
  BY <1>1, <1>2, <1>3, <1>4, <1>5 DEF Gated

\* Without a payer nobody is debited.
LEMMA UnpaidDebitsNobody ==
    ASSUME TypeOK, NEW a \in Holders, Unpaid \/ UNCHANGED <<rwaBal, sacBal>>
    PROVE  ~Debited(a)
<1>1. rwaBal[a] \in Nat /\ rwaBal \in [Holders -> Nat] /\ \A s \in Sacs : sacBal[s][a] \in Nat
  BY DEF TypeOK
<1>2. ASSUME sacBal' = sacBal, rwaBal'[a] >= rwaBal[a], rwaBal'[a] \in Nat
      PROVE  ~Debited(a)
  BY <1>1, <1>2 DEF Debited
<1>3. CASE UNCHANGED <<rwaBal, sacBal>>
  BY <1>1, <1>2, <1>3
<1>4. ASSUME NEW to \in Holders, NEW amount \in Amounts, AdminMint(to, amount)
      PROVE  ~Debited(a)
  <2>1. /\ amount \in Int /\ amount > 0 /\ sacBal' = sacBal
        /\ rwaBal' = [rwaBal EXCEPT ![to] = @ + amount]
    BY <1>4, AmountsAssumption DEF AdminMint
  <2>2. QED
    BY <1>1, <1>2, <2>1
<1>5. ASSUME NEW to \in Holders, NEW amount \in Amounts, NEW p, NEW proof, NEW inputs,
             Mint(to, amount, p, proof, inputs)
      PROVE  ~Debited(a)
  <2>1. /\ amount \in Int /\ amount > 0 /\ sacBal' = sacBal
        /\ rwaBal' = [rwaBal EXCEPT ![to] = @ + amount]
    BY <1>5, AmountsAssumption DEF Mint
  <2>2. QED
    BY <1>1, <1>2, <2>1
<1>6. QED
  BY <1>3, <1>4, <1>5 DEF Unpaid, PolicyVerifierStep, Configure, AdapterSetVerifier,
                          TokenSetVerifier, SetAdapter, Freeze, token

LEMMA DebitStep ==
    ASSUME TypeOK, [SmartNext]_smartVars, NEW a \in Accounts, Debited(a),
           \A r \in rules[a] : r.gated
    PROVE  BoundUnspent(a)
<1>1. a \in Holders
  BY AccountsAssumption
<1>2. ~Unpaid /\ ~UNCHANGED <<rwaBal, sacBal>>
  BY <1>1, UnpaidDebitsNobody
<1>3. UNCHANGED vars => UNCHANGED <<rwaBal, sacBal>>
  BY DEF vars, token
<1>4. PICK from \in Holders, to \in Holders, amount \in Amounts,
           proof \in Proofs, inputs \in PublicInputs :
               PaidBy(from, to, amount, proof, inputs)
  BY <1>2, <1>3, SmartNextKinds, AccountStepKeepsVars DEF PaidStep, smartVars
<1>5. a = from
  BY <1>1, <1>4, GatedDebitsPayer DEF PaidBy
<1>6. Authorized(a)
  BY <1>4, <1>5 DEF PaidBy
<1>7. Enforce(a)
  BY <1>6 DEF Authorized, LiveRules
<1>8. QED
  BY <1>7 DEF Enforce, CheckPassport, Check, BoundUnspent

\* An account whose rules all carry the policy is debited only from a state in
\* which its bound proof is unspent: spending it locks the account.
THEOREM SpentBoundProofLocksAccount == SmartSpec => DebitsNeedUnspentBound
<1>1. TypeOK /\ [SmartNext]_smartVars =>
        [ \A a \in Accounts :
              Debited(a) /\ (\A r \in rules[a] : r.gated) => BoundUnspent(a) ]_smartVars
  BY DebitStep
<1>2. QED
  BY <1>1, AccountsRefineSettlement, TypeCorrect, PTL DEF SmartSpec, DebitsNeedUnspentBound

=============================================================================
