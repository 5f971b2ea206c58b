---------------------------- MODULE SmartAccount ----------------------------
(***************************************************************************)
(* Smart accounts as payers of the settlement contracts:                   *)
(* lumengate_smart_account (its context rules, kept by the OpenZeppelin    *)
(* library), compliance_policy (what a rule that carries it enforces) and  *)
(* session_store (the proof bound to the account).  The authorization of a *)
(* call runs before the call's own body and in the same invocation, so it  *)
(* reads the state the action starts from.                                 *)
(***************************************************************************)
EXTENDS Settlement

CONSTANTS
    Accounts,       \* the holders that are smart accounts
    Forever,        \* valid_until of a rule that never expires
    SessionLedgers, \* LUMENGATE_SESSION_LEDGERS
    MaxRules,       \* bound on the context rules an account ever gets
    MaxLedger       \* bound on the ledger sequence explored

ASSUME AccountsAssumption == Accounts \subseteq Holders /\ None \notin Proofs
ASSUME LedgerAssumption ==
    SessionLedgers \in Nat /\ MaxRules \in Nat /\ MaxLedger \in Nat /\ Forever \notin Nat

VARIABLES
    bound,          \* SessionStore: account -> the proof bound to it, or None
    cfg,            \* CompliancePolicy "cfg": account -> install parameters, or None
    rules,          \* account -> its context rules
    nextId,         \* account -> NextId of its rules; 0 before the constructor
    ledger          \* ledger sequence

accountVars == <<bound, cfg, rules, nextId, ledger>>
smartVars   == <<vars, accountVars>>

-----------------------------------------------------------------------------
(* Authorization.                                                          *)

\* Fault: the mode that ignores the spent ledger is called.
EnforceValid(a) ==
    /\ cfg[a] # None
    /\ bound[a] # None
    /\ ValidatePassport(cfg[a].adapter, cfg[a].policyId, bound[a], bound[a].inputs)

\* Fault: an account without a bound proof is let through.
EnforceIfBound(a) ==
    /\ cfg[a] # None
    /\ bound[a] # None =>
           CheckPassport(cfg[a].adapter, cfg[a].policyId, bound[a], bound[a].inputs)

\* enforce, of any context but set_proof.
Enforce(a) ==
    /\ cfg[a] # None
    /\ bound[a] # None
    /\ CheckPassport(cfg[a].adapter, cfg[a].policyId, bound[a], bound[a].inputs)

\* enforce of set_proof: the configuration is read before the bypass.
EnforceBind(a) == cfg[a] # None

\* do_check_auth, of the OpenZeppelin library: a signer of a rule that has not
\* expired signs, and the policy the rule carries must agree.
LiveRules(a) == {r \in rules[a] : r.until = Forever \/ r.until >= ledger}
Authorized(a)     == \E r \in LiveRules(a) : r.gated => Enforce(a)
AuthorizedBind(a) == \E r \in LiveRules(a) : r.gated => EnforceBind(a)

-----------------------------------------------------------------------------
Install(a, adapter, policyId) ==
    cfg' = [cfg EXCEPT ![a] = [adapter |-> adapter, policyId |-> policyId]]

Uninstall(a) == cfg' = [cfg EXCEPT ![a] = None]

\* Fault: NextId is not advanced.
AddRuleSameId(a, until, adapter, policyId) ==
    /\ nextId[a] < MaxRules
    /\ rules' = [rules EXCEPT ![a] = @ \cup {[id |-> nextId[a], until |-> until, gated |-> TRUE]}]
    /\ nextId' = [nextId EXCEPT ![a] = 1]
    /\ Install(a, adapter, policyId)

\* add_context_rule, of the library: a new rule with the policy attached.
AddRule(a, until, adapter, policyId) ==
    /\ nextId[a] < MaxRules
    /\ rules' = [rules EXCEPT ![a] = @ \cup {[id |-> nextId[a], until |-> until, gated |-> TRUE]}]
    /\ nextId' = [nextId EXCEPT ![a] = @ + 1]
    /\ Install(a, adapter, policyId)

\* The constructor adds rule 0.
Deploy(a, adapter, policyId) ==
    /\ nextId[a] = 0
    /\ AddRule(a, Forever, adapter, policyId)
    /\ UNCHANGED <<vars, bound, ledger>>

\* The application adds the session rule, with the adapter and the policy id
\* of the deployment configuration it was built with.
AddSessionRule(a, adapter, policyId) ==
    /\ Authorized(a)
    /\ AddRule(a, ledger + SessionLedgers, adapter, policyId)
    /\ UNCHANGED <<vars, bound, ledger>>

\* remove_context_rule and remove_policy, of the library: both call uninstall.
RemoveRule(a, r) ==
    /\ Authorized(a)
    /\ rules' = [rules EXCEPT ![a] = @ \ {r}]
    /\ IF r.gated THEN Uninstall(a) ELSE UNCHANGED cfg
    /\ UNCHANGED <<vars, bound, nextId, ledger>>

RemovePolicy(a, r) ==
    /\ Authorized(a)
    /\ r.gated
    /\ rules' = [rules EXCEPT ![a] = (@ \ {r}) \cup {[r EXCEPT !.gated = FALSE]}]
    /\ Uninstall(a)
    /\ UNCHANGED <<vars, bound, nextId, ledger>>

\* set_proof, authorized by the account.
SetProof(a, proof) ==
    /\ AuthorizedBind(a)
    /\ bound' = [bound EXCEPT ![a] = proof]
    /\ UNCHANGED <<vars, cfg, rules, nextId, ledger>>

\* operator_set_proof, and bind_session_proof that calls it: the operator
\* signs, the account does not.
OperatorSetProof(a, proof) ==
    /\ bound' = [bound EXCEPT ![a] = proof]
    /\ UNCHANGED <<vars, cfg, rules, nextId, ledger>>

CloseLedger ==
    /\ ledger < MaxLedger
    /\ ledger' = ledger + 1
    /\ UNCHANGED <<vars, bound, cfg, rules, nextId>>

\* A gated operation is authorized by its payer.
PaidBy(from, to, amount, proof, inputs) ==
    /\ from \in Accounts => Authorized(from)
    /\ Gated(from, to, amount, proof, inputs)
    /\ UNCHANGED accountVars

\* What the settlement contracts do without a payer.
Unpaid ==
    /\ \/ PolicyVerifierStep
       \/ Configure
       \/ \E h \in Holders : Freeze(h)
       \/ \E to \in Holders, amount \in Amounts :
              \/ AdminMint(to, amount)
              \/ \E proof \in Proofs, inputs \in PublicInputs, p \in PolicyIds :
                     Mint(to, amount, p, proof, inputs)
    /\ UNCHANGED accountVars

SmartInit ==
    /\ Init
    /\ bound = [a \in Accounts |-> None]
    /\ cfg = [a \in Accounts |-> None]
    /\ rules = [a \in Accounts |-> {}]
    /\ nextId = [a \in Accounts |-> 0]
    /\ ledger = 0

SmartNext ==
    \/ \E a \in Accounts :
           \/ \E adapter \in Adapters, p \in PolicyIds :
                  Deploy(a, adapter, p) \/ AddSessionRule(a, adapter, p)
           \/ \E r \in rules[a] : RemoveRule(a, r) \/ RemovePolicy(a, r)
           \/ \E proof \in Proofs : SetProof(a, proof) \/ OperatorSetProof(a, proof)
    \/ CloseLedger
    \/ Unpaid
    \/ \E from \in Holders, to \in Holders, amount \in Amounts,
          proof \in Proofs, inputs \in PublicInputs :
              PaidBy(from, to, amount, proof, inputs)

SmartSpec == SmartInit /\ [][SmartNext]_smartVars

-----------------------------------------------------------------------------
Rule == [id : Nat, until : Nat \cup {Forever}, gated : BOOLEAN]

\* SmartTypeOK: rule ids are never reused (NextId only grows).
SmartTypeOK ==
    /\ bound \in [Accounts -> Proofs \cup {None}]
    /\ cfg \in [Accounts -> [adapter : Adapters, policyId : PolicyIds] \cup {None}]
    /\ rules \in [Accounts -> SUBSET Rule]
    /\ nextId \in [Accounts -> 0..MaxRules]
    /\ ledger \in 0..MaxLedger
    /\ \A a \in Accounts : \A r \in rules[a] :
           r.id < nextId[a] /\ (\A q \in rules[a] : q.id = r.id => q = r)

\* The order the README calls critical: an account that got past its first
\* rule, by adding one or by loosening one, has a proof bound to it
\* (CompliancePolicy.enforce lines 75-81).
BoundBeforeSession ==
    \A a \in Accounts :
        (\E r \in rules[a] : r.id > 0 \/ ~r.gated) => bound[a] # None

\* While every rule of an account carries the policy, each debit of the
\* account, through any settlement contract, starts from a state in which its
\* bound proof is still unspent at the verifier the policy is configured for:
\* a settlement that spends the bound proof locks the account until a rebind.
BoundUnspent(a) ==
    /\ cfg[a] # None
    /\ bound[a] # None
    /\ SpentKey(cfg[a].policyId, bound[a].inputs)
           \notin spent[adapterVerifier[cfg[a].adapter]]

Debited(a) ==
    \/ rwaBal'[a] < rwaBal[a]
    \/ \E s \in Sacs : sacBal'[s][a] < sacBal[s][a]

DebitsNeedUnspentBound ==
    [][ \A a \in Accounts :
            Debited(a) /\ (\A r \in rules[a] : r.gated) => BoundUnspent(a) ]_smartVars

\* What the README says of set_proof: it is exempt from the policy, so an
\* account that has a rule can always bind a new proof.
AlwaysRebindable ==
    \A a \in Accounts : LiveRules(a) # {} => AuthorizedBind(a)

\* What the README says of the proof an account signs with: it matches the
\* scope of the asset that leaves the account.
BoundMatchesScope ==
    [][ \A a \in Accounts, s \in Sacs :
            /\ sacBal'[s][a] < sacBal[s][a]
            /\ \A r \in rules[a] : r.gated
            => RequireAssetScope(bound[a].inputs, s) ]_smartVars
=============================================================================
