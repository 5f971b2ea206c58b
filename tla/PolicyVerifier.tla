--------------------------- MODULE PolicyVerifier ---------------------------
(***************************************************************************)
(* contracts/policy_verifier: routes a proof to the UltraHonk verifier     *)
(* contract registered for its policy, and keeps the ledger of scoped      *)
(* nullifiers that were spent.                                             *)
(*                                                                         *)
(* A Soroban invocation is atomic: an error or a trap rolls every write    *)
(* back, so an error path is a guard that does not hold and each action    *)
(* below is one successful invocation of an entry point.  Public inputs    *)
(* are sequences of 32-byte words, and a word is the number it encodes.    *)
(* Several deployed instances are modelled at once, because the scripts    *)
(* redeploy the contract and re-point its callers.                         *)
(***************************************************************************)
EXTENDS Naturals, Sequences, FiniteSets

CONSTANTS
    Instances,      \* deployed PolicyVerifier contracts
    PolicyIds,      \* policy ids passed as arguments (u32)
    Subjects,       \* addresses verify_and_record and set_eligible name
    UltraHonk,      \* addresses a policy may be routed to
    WithKey,        \* those that answer vk_bytes
    PublicInputs,   \* the public-input strings submitted, as sequences of words
    Proofs,         \* the proofs submitted
    U32_MAX,        \* u32::MAX
    U128_VALUES,    \* 2^128, the number of values of a u128
    PROOF_BYTES,    \* length of an UltraHonk proof
    None            \* absent Option

ASSUME PolicyIdsAssumption  == PolicyIds \subseteq 0..U32_MAX
ASSUME U32Assumption        == U32_MAX \in Nat
ASSUME U128Assumption       == U128_VALUES \in Nat /\ U128_VALUES > U32_MAX
ASSUME WithKeyAssumption    == WithKey \subseteq UltraHonk /\ None \notin UltraHonk
ASSUME InputsAssumption     == PublicInputs \subseteq Seq(Nat)
ASSUME ProofsAssumption     ==
    Proofs \subseteq [circuit : UltraHonk, inputs : PublicInputs, bytes : Nat]
ASSUME SubjectsAssumption    == None \notin Subjects

VARIABLES
    verifiers,      \* instance -> the map policy id -> verifier contract
    spent,          \* instance -> the set of keys stored as spent
    eligible,       \* instance -> last holder stored under "eligible" and "elig"
    flag,           \* instance -> addresses whose "flag" entry is true
    recorded,       \* the EligibilityVerified events published
    accepted        \* instance -> number of successful spending verifications

pvVars == <<verifiers, spent, eligible, flag, recorded, accepted>>

-----------------------------------------------------------------------------
(* Decoding of the public inputs.                                          *)

\* Word i of the inputs, counted from 0 as in the source.
Word(inputs, i) == inputs[i + 1]

\* The 32 bytes are shifted into a u128, which keeps the low sixteen.
Folded(w) == w % U128_VALUES

\* Fault: the folded word is not compared with u32::MAX.
FieldUnbounded(w) == Folded(w)

\* A folded word that does not fit in a u32 reads as 0.  So a word of 2^128
\* or more may read as any u32: it is an alias of its low half.
FieldU32(w) == IF Folded(w) > U32_MAX THEN 0 ELSE Folded(w)

\* Six words or more: root, rev_root, policy, asset, action, nullifier.
\* Fewer: root, rev_root, policy, nullifier.
Scoped(inputs) == Len(inputs) >= 6

\* Fault: one readable word is enough.
OneWordReadable(inputs) ==
    Scoped(inputs) => \/ FieldU32(Word(inputs, 3)) # 0
                      \/ FieldU32(Word(inputs, 4)) # 0

\* Both scope words of scoped inputs must decode to something other than 0.
ScopeReadable(inputs) ==
    Scoped(inputs) => /\ FieldU32(Word(inputs, 3)) # 0
                      /\ FieldU32(Word(inputs, 4)) # 0

Scope(inputs) ==
    IF Scoped(inputs) THEN <<FieldU32(Word(inputs, 3)), FieldU32(Word(inputs, 4))>>
                      ELSE <<0, 0>>

NullifierReadable(inputs) == Len(inputs) >= 4

Nullifier(inputs) == IF Scoped(inputs) THEN Word(inputs, 5) ELSE Word(inputs, 3)

\* The storage key: the policy is the one in the ARGUMENT of the call, which
\* nothing compares with word 2 of the inputs.
SpentKey(policyId, inputs) ==
    <<policyId, Scope(inputs)[1], Scope(inputs)[2], Nullifier(inputs)>>

Key == (0..U32_MAX) \X (0..U32_MAX) \X (0..U32_MAX) \X Nat

-----------------------------------------------------------------------------
(* The UltraHonk verifier contract (not in this repository): a proof is    *)
(* accepted by the circuit it was made for, on the inputs it was made for. *)
verify_proof(verifier, inputs, proof) ==
    /\ verifier \in WithKey
    /\ proof.circuit = verifier
    /\ proof.inputs = inputs

\* What every mode of verify_inner requires; validate asks for no more.
Valid(pv, policyId, proof, inputs) ==
    /\ proof.bytes = PROOF_BYTES
    /\ Len(inputs) # 0
    /\ verifiers[pv][policyId] # None
    /\ ScopeReadable(inputs)
    /\ NullifierReadable(inputs)
    /\ verify_proof(verifiers[pv][policyId], inputs, proof)

\* Fault: the spent ledger is not read before it is written.
CheckWithoutLedger(pv, policyId, proof, inputs) == Valid(pv, policyId, proof, inputs)

\* check: Valid, and the nullifier is not spent.
Check(pv, policyId, proof, inputs) ==
    /\ Valid(pv, policyId, proof, inputs)
    /\ SpentKey(policyId, inputs) \notin spent[pv]

\* validate ignores the spent ledger.
Validate(pv, policyId, proof, inputs) == Valid(pv, policyId, proof, inputs)

\* verify: Check, and the key is stored as spent in the same invocation.
Verify(pv, policyId, proof, inputs) ==
    /\ Check(pv, policyId, proof, inputs)
    /\ spent' = [spent EXCEPT ![pv] = @ \cup {SpentKey(policyId, inputs)}]
    /\ accepted' = [accepted EXCEPT ![pv] = @ + 1]

\* The two read-only views of the ledger.
IsScopedNullifierSpent(pv, policyId, asset, action, nullifier) ==
    <<policyId, asset, action, nullifier>> \in spent[pv]

IsNullifierSpent(pv, policyId, nullifier) ==
    \/ <<policyId, 1, 1, nullifier>> \in spent[pv]
    \/ <<policyId, 0, 0, nullifier>> \in spent[pv]

-----------------------------------------------------------------------------
PvInit ==
    /\ verifiers = [pv \in Instances |-> [p \in PolicyIds |-> None]]
    /\ spent = [pv \in Instances |-> {}]
    /\ eligible = [pv \in Instances |-> None]
    /\ flag = [pv \in Instances |-> {}]
    /\ recorded = {}
    /\ accepted = [pv \in Instances |-> 0]

\* register_policy, by a holder of the policy_admin role.
RegisterPolicy(pv, policyId, verifier) ==
    /\ verifier \in WithKey
    /\ verifiers' = [verifiers EXCEPT ![pv][policyId] = verifier]
    /\ UNCHANGED <<spent, eligible, flag, recorded, accepted>>

\* verify called directly, by anyone; verify_vec is the same call with the
\* words passed as a vector.
VerifyCall(pv, policyId, proof, inputs) ==
    /\ Verify(pv, policyId, proof, inputs)
    /\ UNCHANGED <<verifiers, eligible, flag, recorded>>

\* Fault: off by one on the number of words.
RecordedNullifierMoreThanSix(inputs) ==
    IF Len(inputs) > 6 THEN Word(inputs, 5) ELSE Word(inputs, 3)

\* The nullifier verify_and_record publishes is read from the vector again.
RecordedNullifier(inputs) ==
    IF Len(inputs) >= 6 THEN Word(inputs, 5) ELSE Word(inputs, 3)

VerifyAndRecord(pv, holder, policyId, proof, inputs) ==
    /\ Verify(pv, policyId, proof, inputs)
    /\ eligible' = [eligible EXCEPT ![pv] = holder]
    /\ recorded' = recorded \cup
           {[pv |-> pv, holder |-> holder, policyId |-> policyId,
             nullifier |-> RecordedNullifier(inputs)]}
    /\ UNCHANGED <<verifiers, flag>>

\* set_eligible; is_eligible reads this flag and nothing else.
SetEligible(pv, holder, value) ==
    /\ flag' = [flag EXCEPT ![pv] = IF value THEN @ \cup {holder} ELSE @ \ {holder}]
    /\ UNCHANGED <<verifiers, spent, eligible, recorded, accepted>>

PvNext ==
    \E pv \in Instances :
        \/ \E p \in PolicyIds, v \in UltraHonk : RegisterPolicy(pv, p, v)
        \/ \E p \in PolicyIds, proof \in Proofs, inputs \in PublicInputs :
               \/ VerifyCall(pv, p, proof, inputs)
               \/ \E h \in Subjects : VerifyAndRecord(pv, h, p, proof, inputs)
        \/ \E h \in Subjects, value \in BOOLEAN : SetEligible(pv, h, value)

PvSpec == PvInit /\ [][PvNext]_pvVars

-----------------------------------------------------------------------------
\* TypeOK: whatever the words of the inputs, every key stored as spent is made
\* of values that fit the u32 arguments of spent_key (policy_verifier lines
\* 61-79).
PvTypeOK ==
    /\ verifiers \in [Instances -> [PolicyIds -> WithKey \cup {None}]]
    /\ spent \in [Instances -> SUBSET Key]
    /\ eligible \in [Instances -> Subjects \cup {None}]
    /\ flag \in [Instances -> SUBSET Subjects]
    /\ recorded \subseteq [pv : Instances, holder : Subjects,
                           policyId : PolicyIds, nullifier : Nat]
    /\ accepted \in [Instances -> Nat]

\* However many callers race with the same proof, each spending verification
\* that returned Ok burned a key nobody had burned before (verify_inner reads
\* the key at line 183 and writes it at line 202).
EachSpendIsFresh ==
    \A pv \in Instances : accepted[pv] = Cardinality(spent[pv])

\* A scoped proof never lands in a bucket with half a scope through one word
\* that reads as 0, because it is zero, a multiple of 2^128, or over u32::MAX
\* once folded: the scope of a spent key is either both parts zero (the
\* bucket of legacy proofs) or none (public_input_u32, line 91).
NoMixedScope ==
    \A pv \in Instances : \A k \in spent[pv] : k[2] = 0 <=> k[3] = 0

\* The nullifier an EligibilityVerified event names is one that this policy
\* really spent: the event's own indexing (lines 269-273) and the ledger's
\* byte offsets (line 98) agree on every input length.
RecordedIsSpent ==
    \A e \in recorded : \E k \in spent[e.pv] :
        k[1] = e.policyId /\ k[4] = e.nullifier

\* What the application's settlement diagram says of is_nullifier_spent: it
\* answers for every (policy_id, asset_id, action_id, nullifier) spent.
LegacyViewSeesEverySpend ==
    \A pv \in Instances : \A k \in spent[pv] : IsNullifierSpent(pv, k[1], k[4])
=============================================================================
