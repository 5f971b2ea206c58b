# Lumengate, specified

TLA+ specifications of Lumengate: Soroban contracts that let value move only
after a zero-knowledge passport proof, the Node issuer service that writes their
registries, and the browser application that drives both. The reference is the
code in `src/`; paths below are relative to it.

## 1. Inventory

### Contracts (`contracts/*/src/lib.rs`)

| Component | State | Operations | What makes it correct |
|---|---|---|---|
| `policy_verifier` | policy id → UltraHonk verifier; ledger of spent nullifiers keyed by (policy, asset, action, nullifier); eligibility flags | `register_policy`, `verify`/`verify_vec`, `check`, `validate`, `verify_and_record`, `set_eligible`, two views of the ledger | a nullifier is spent at most once per scope; scopes never mix; three decoders of one byte string agree |
| `rwa_adapter` | address of the verifier | `verify_passport`, `check_passport`, `validate_passport`, `set_verifier` | spending and read-only modes are not confused |
| `rwa_token` | balances, frozen holders, verifier | `mint`, `admin_mint`, `transfer`, `freeze`, `set_verifier` | supply, freeze, one proof per operation |
| `compliance_sac_admin`, `compliant_dex`, `compliant_payroll` | adapter, asset contracts, policy id | `transfer_compliant(_eurc)`, `swap_compliant`, `pay_compliant` | a proof of one asset does not pay for another |
| `session_store` | smart account → bound proof | `set_proof`, `operator_set_proof` | |
| `compliance_policy` | smart account → configuration | `install`, `uninstall`, `enforce` | no debit without an unspent bound proof; bind comes first; rebind always possible |
| `lumengate_smart_account` | context rules (OpenZeppelin library) | constructor, rule management, `__check_auth` | |
| `credential_registry` | credential, revocation and note roots | `set_root`, `set_revocation_root`, `set_note_root` | the roots follow the issuer's files |
| `issuer_registry`, `auditor_registry` | small maps | register, revoke, record | no re-registration; disclosures match |
| `governance_timelock` | operations and their ready ledgers | schedule, execute, cancel, update delay | nothing runs before its delay or twice |
| `lumengate_confidential_policy`, `_token`, `confidential_*`, `session_key_policy`, `webauthn_verifier` | thin wrappers of OpenZeppelin crates | hooks | |

### Issuer service (`issuer-service/`)

One Node process: handlers interleave at every `await`. It keeps JSON files
(notes, revoked commitments, faucet claims, disclosures, indexed events), and one
Stellar **admin account** through which every handler writes to the chain
(`lib/sorobanAdmin.js`). Hard: transactions of concurrent handlers compete for
one sequence number; a reply may be lost, late, or come after the handler gave
up; the process may crash between a file write and a chain write; the
credential root is ONE register all wallets write in turn.

The **faucet** (`lib/faucet.js`, `lib/sacLiquidity.js`) pays one claim per asset
and day. It looks the claim up in a file before it awaits the payment and writes
it after; before it pays it may have to top an account up in several awaited
steps. Hard: claims at once on the same treasury, payments that land after their
wait, a restart in between.

### Application (`app/src/`)

React. Its own logic is in `lib/` and `context/AppContext.tsx`.

| Part | State | Operations | What makes it correct |
|---|---|---|---|
| Proof life cycle and settlement | credential, proof, `proofLifecycle`, archive of the settled proof, bind cache, receipt | request, confirm, send, invest, enable, authorize; recovery; reload | a credential settles an asset once; a receipt names an applied transfer; bind comes first; no handler waits for ever |
| Stored sessions | one session per wallet, one per device, the last wallet | connect, disconnect, sign in, create or replace an account, reload | what the device remembers is what the app shows; what was dropped does not come back |
| Device session | a key in `localStorage`, rules of the account on the chain | create, enable, operate, settle, revoke | no needless rule; what it signs is accepted; a superseded account is stopped |
| Confidential token client | cached openings and an event cursor | register, shield, settle, merge, unshield, balance reads | a spend opens the commitment on the chain; the cache catches up; a read heals it |

Hard: a handler keeps the values of the render it was started in across every
`await`; several handlers and pages run at once; answers are lost and retried;
RPC servers lag, forget old events, and answer an error like an absence; passkey
prompts queue behind one another.

### Interaction

The application asks the issuer for a credential; the issuer writes the root to
`credential_registry`; the application proves, binds the proof to its smart
account in `session_store`, and submits a settlement. The account's
authorization (`compliance_policy` through `rwa_adapter` to `policy_verifier`,
mode *check*) precedes the settlement contract's own call (mode *verify*).

## 2. Modules

| Module | Models |
|---|---|
| `PolicyVerifier` | `policy_verifier`: every entry point, several deployed instances |
| `Vouchers` | abstract: a nullifier is a voucher that is redeemed once or burned |
| `Settlement` | `rwa_adapter`, `rwa_token`, `compliance_sac_admin`, `compliant_dex`, `compliant_payroll`; `EXTENDS PolicyVerifier`; refines `Vouchers` |
| `SmartAccount` | `session_store`, `compliance_policy`, `lumengate_smart_account` and the application's session rule, as payers; `EXTENDS Settlement` |
| `AdminTx` | `issuer-service/lib/sorobanAdmin.js`: calls competing for one account's sequence numbers; refines `AdminWrites` |
| `AdminWrites` | abstract: what a handler may rely on when it writes through the admin account |
| `Issuer` | `/credential`, `/registry/sync-root`, `/revoke`, their files and the roots of `credential_registry`; `EXTENDS AdminWrites` |
| `Faucet` | `faucet.js`, `sacLiquidity.js`: claims, funders, top-ups, the claims file |
| `Passport` | the handlers of `AppContext.tsx` and of the Verify, Transfer and Marketplace pages, with the chain as far as they see it |
| `AppSession` | `session.ts`, `passkeySession.ts` and the handlers of `AppContext.tsx` that read or write stored sessions |
| `DeviceSession` | `smartAccount.ts`, `onChainContextRules.ts`: the session key, the listing of rules, the gate before a settlement |
| `CtAccount` | `lib/confidentialToken/`, `confidentialFlow.ts`, `confidentialBalance.ts`: cached openings against the chain |
| `AdminTxProofs`, `IssuerProofs`, `FaucetProofs`, `PassportProofs`, `AppSessionProofs`, `DeviceSessionProofs`, `CtAccountProofs` | theorems about the module of the name |
| `ContractProofs` | theorems about `PolicyVerifier`, `Settlement` and `SmartAccount`, which extend one another |
| `MCPolicyVerifier`, `MCSettlement`, `MCSmartAccount`, `MCIssuer`, `MCFaucet`, `MCPassport`, `MCAppSession`, `MCDeviceSession`, `MCCtAccount` | instances for TLC; `AdminTx` needs none |

Definitions headed *Fault:* are plausible mistakes in the code next to them. No
specification uses them; each, put in the place of the definition it follows,
makes TLC refute a property, which shows what the property depends on.

## 3. How state and actions correspond to the code

### Contracts

- One action is one successful top-level invocation with every cross-contract
  call it makes. A Soroban invocation that panics or returns an error leaves no
  trace, so each early return and each `panic_with_error!` is a guard. Where a
  caller distinguishes an error from an answer (`validate_passport` returns
  `false`), an operator gives the answer.
- `spent[pv]` is the ledger under the storage keys of `policy_verifier`; a key is
  (policy, asset, action, nullifier). Public inputs are sequences of naturals,
  one per 32-byte word. The decoders (the scope by
  word position, a `u32` read, the nullifier's position by length) are modelled word by
  word, since the hazards are in their disagreements. The `u32` read folds a word
  into a `u128`, so its high half is lost, and maps what is then above `u32::MAX`
  to zero: `Folded` is the remainder by `U128_VALUES`, `FieldU32` the limit. A word
  is therefore never the scope itself but decodes to it, and words that differ in
  the high half are aliases to every reader. `U32_MAX` and `U128_VALUES` are
  constants; TLC uses small ones, with inputs on both sides of each, the proofs any.
- The UltraHonk verifier is external: it accepts a proof exactly for the circuit
  and the inputs it was made for. A proof is a record of circuit, inputs, length.
- `require_auth` of an ordinary holder is met by whoever submits. For a smart
  account it is `Authorized`: some live rule signs, and the policy attached to it
  agrees. Authorization runs before the body and in the same invocation, so it
  reads the state the action starts from.
- The OpenZeppelin account library is external. Of it the model keeps the rules
  (id, expiry, whether the compliance policy is attached) and the calls of
  `install` and `uninstall` it makes.
- `settled`, `settlements`, `issued`, `adminMints` and `accepted` are history:
  no guard but a named exploration bound reads them.

### Issuer service

- An action runs from one `await` to the next. `/revoke` runs the Stellar command
  with `execFileSync`, which blocks the process: while `revoking` is set no
  handler steps, and the network still does.
- `AdminTx`: `reading` is `getAccount`, `built` is after the transaction's
  construction, `waiting` is the polling of Horizon. A transaction is its
  operation, sequence number and the moment it was built at: two calls that build
  the same operation in the same second on the same sequence number build the same
  hash, and share its fate. `rpcSeq` is the number an RPC server that lags answers.
- `/credential` goes on without a note when `appendNoteCommitment` throws (its
  `try` holds the save too): `IssueWithNote` and `IssueWithoutNote`. A credential
  that was issued so names no note.
- `Issuer` writes through `AdminWrites` and not through `AdminTx`: the refinement
  is what justifies it. `held` is the write on its way with the calls it is made
  for. `Store` is `set_root`, `set_revocation_root` or `set_note_root`, which only
  assign.
- Poseidon roots are abstracted to the list of leaves they take in, at most
  `LEAVES` (8 in the code); the tree of one commitment is that commitment, and a
  wallet has one commitment, so a wallet stands for its credential root. This is
  exact for equality of roots as long as hashes do not collide.
- `loadRevoked` merges the fixture's row into the file's; `LoadRevoked` does that,
  with the one row `Baseline`.
- `Crash` is a restart between two steps: files and the chain keep what they have,
  what the network holds may still land, and a request that was running has been
  answered or dropped for good.

### Faucet

- A request is a run of `claimTestnetFunds`, one action per `await`. An amount of
  2 is one claim of any asset and 1 the dollar that stays on a classic account, so
  the comparisons between a balance, a shortfall and the reserve keep their cases.
- `pool` is the payment the network holds of an account. It may land as long as its
  time bounds allow, 60 seconds longer than the handler waits; `GiveUp` is the end
  of the wait.
- Two transactions of one account that ask for the same payment on the same
  sequence number are one transaction: `by` is the set of claims it pays.
- `Crash` restarts the service; the file keeps what was written.

### Application

- `Passport`: `flow[f]` is one handler, from the click to its return, with the
  credential and the proof of the render it was started in. `Commit` is appended to
  every action that changes a hook: React runs the effects on credential and proof
  then. `syncs` are calls of `syncProofLifecycle` whose reads have not answered.
  `line` is the queue of passkey prompts (`runPasskeyCeremony`). A proof is
  (credential, asset, number); its nullifier is of the credential and the asset.
- A transaction of `Passport` is applied only if the contracts accept it:
  `Accepts` is `compliance_policy.enforce` and the verifier's spent check, in the
  terms of these proofs. `SmartAccount` and `Settlement` have them in full.
- `AppSession`: `app` are the hooks, `wallets` and `device` the two stores, `Store`
  and `SaveWallet` the effect that writes them after every change, with its
  field-by-field merges. `calls` are the handlers that have read the hooks or a
  stored session and await an answer: createSmartAccount (and the second half of
  replaceSmartAccount), requestCredential, signInWithPasskey, the load of a page
  that asks the extension for its wallet, recordTransferTx, syncProofLifecycle. Each
  ends under the wallet, account, proof or session it was started with. `connect`
  reads what is stored after its awaits, so it is one step. The effect that fills in
  passkey metadata awaits too, but is cancelled by any change of the account, wallet
  or field and writes the account that is there: it changes nothing kept here.
  `settled` is history: the proofs recorded as settled and not shown since.
- `DeviceSession`: `run[p]` is the handler of one page. A listing is one action per
  id, and each read may be answered, go unanswered, or be answered with an older
  state (`rpc`); an unanswered read is an absent rule to the code. Listing, gate and
  choice are the same operators for every handler that makes them; `stage` says what
  for. Ledgers stand for time: a key and a rule made at once expire at once.
  `clean` and `blind` are history: whether the listing behind a transaction saw
  everything, and how many reads of rule 0 in a row failed in its gate.
- `CtAccount`: an opening is an amount and the set of ledgers whose blindings add up
  in it, so equality of openings is equality of commitments. An event's ledger is
  its index in `log`; `seen` and `floor` bound what the RPC server serves, and the
  issuer's index has the rest. `store` is written by whoever saves last; `run[p].st`
  is the copy a flow holds across its awaits: `Load` reads what is stored, `Sync` or
  `Rebuild` is the answer of the event sources, `Save` stores it. The window's floor,
  the issuer's events and the RPC server's are read in three awaits of one fetch
  (`event-source.ts:80-137`), which `Fetch` takes for one moment; the margin at the
  seam is the code's own allowance for the time between them. `Replay` is the recursive function of
  the openings after each ledger of a log. `calm` and `alone` are history: nothing
  happened since a balance read began while everything was served; no spend or merge
  has landed since the flow last verified the spendable opening it holds.

## 4. What is checked

`violation` runs check one statement of the repository's documentation each; TLC
finds it false of what the code does (section 7).

| Run | Instance and bounds | Shows |
|---|---|---|
| `verifier` | 1 instance, 2 policies, 3 verifiers (one without a key), `U32_MAX` 5, `U128_VALUES` 16, 10 inputs: scoped, overflowing, zero action, aliases of a scope and of zero, 4, 5 and 3 words; a short proof | types and the width of stored keys; every successful spend burns a fresh key; no scope with one half zero from a scoped proof; an event names a nullifier that was spent |
| `settlement` | 2 instances, 1 adapter, 2 policies, 2 symmetric holders, one proof per asset, amount 1, 1 unit of each SAC, `I128_MAX` 1, 1 `admin_mint`; a migration is explored with one policy (`MCBound`) | no negative balance; per instance a nullifier and a proof pay for one operation; value leaves through the gate of the asset its proof decodes to (one proof is of USDC by an alias); a freeze is final; implements `Vouchers` |
| `rwa_supply` (violation) | 1 instance, 2 holders | a self-transfer creates RWA |
| `smart_account` | 1 account paying bob, 2 proofs (RWA, EURC), amount 1, at most 2 rules, sessions of 1 ledger, 2 ledgers | rule ids are not reused; binding comes first; a debit needs an unspent bound proof |
| `admin_tx` | 2 callers, 2 operations, 1 second per ledger, 2 attempts, 2 sequence numbers | at most one application per call; success is the call's own and fresh application; every call ends; implements `AdminWrites` |
| `issuer` | 2 requests, 2 wallets, the revocation command, 1 restart, 2 revoked rows, 2 leaves; symmetric in requests and in wallets | a credential carries its own root and, if it names a note, one that was saved; note root, revocation rows and registry stay in step; the revocation root never loses a row |
| `revoked_still_proves` (violation) | 1 request, 2 wallets, no restart | a revoked wallet is issued inputs that prove |
| `passport` | 2 handlers of any kind, 1 asset, 2 credentials, 2 proofs, 2 session keys, 2 clicks, 2 attempts, 1 retry in all | types; a credential settles an asset once; a receipt names an applied transfer; bind comes first; every handler ends |
| `app_session` | 2 symmetric wallets, 2 accounts, 2 credentials, 1 proof each, not both the second account and the second credential; 2 awaiting calls, one of them recordTransferTx, or any beside the load of a page without a device session (`MCBound`) | the device remembers the account, credential and proof the app shows, whichever handler finished last; a settled proof comes back only with a wallet's own session or by a sign-in begun before the settlement was recorded |
| `device_session` | 2 symmetric pages, 4 pasts (no account; session on; superseded account; own rule behind removed and foreign ones), 2 handlers and 2 unanswered reads at most, keys of 3 ledgers, margin 1, ids to 4, 2 misses, 3 ledgers | no session rule is installed while one the listing can get to is usable; what a session signs stays authorized for the margin; a superseded account signs only after two failed reads in a row |
| `faucet` | 2 requests, 1 account, 4 assets, 2 funders, cooldown 1, 1 tick, 2 claims, 1 restart, balances to 4, starts 0 and 1, 2 top-ups | no negative balance; what is recorded was paid; no payment within a cooldown of a recorded claim the handler could see; every claim ends |
| `ct` | 2 actors (one runs the user's flows, one reads and merges), amount 1, margin, polls and reads 1, 3 pasts, floor 2 | no cursor ahead of what was served; stored openings are one sync from the truth; a spend opens the commitment unless another moved it, or its settlement deposited first and found the spendable opening wrong; a read heals |

Why the bounds are enough for the interesting cases:

- `U32_MAX` 5 with the word 6 has every relation of a word to the limit the
  decoders distinguish (zero, in range, above), and with `U128_VALUES` 16 the words
  16, 17 and 22 each of them once more by an alias. Two policies separate *the same
  nullifier under another policy* from *again*.
- One proof per asset and two holders give every payer/payee pair, the
  self-transfer included (`rwa_supply` adds an amount of -1). With amount 1 and
  `I128_MAX` 1 the second unit at one holder overflows. Each re-pointing is
  idempotent, so two instances give every wiring of one adapter, and the second
  policy separates a key under the caller's policy from one under the inputs'.
- Two rules are the constructor's and a session's; 2 ledgers let a session of one
  ledger be in its last ledger and expired.
- In `app_session` the call that waits beside another is the one that settles a proof,
  which is what the others must not undo; two calls of which none records (a creation
  and a request, say) change `DeviceIsApp` only by their ends, which the theorem takes
  in any number and order.
- Two callers are enough to take each other's sequence number, two attempts to
  retry once and to run out. The proofs lift the safety part to any number.
- Two handlers on one asset meet in every await of one another; a second credential,
  proof and key is what replaces the first under a handler. Handlers tell assets
  apart only by the nullifier.
- In `device_session` an id that answers after two that do not is out of reach, and
  with two removed rules that are not adjacent one misses just short of that. Two
  unanswered reads are what the gate tolerates, one is what it must not.
- In `faucet` two claims are the ones that meet, or that follow one another; a start
  of 1 is a funder with less than a claim and one of 0 an empty one, and 4 is two claims.
- In `ct` a floor of 2 leaves older events to the index alone, and a margin of 1 is the
  smallest that can be too short or long enough.
- `MaxRows` = `LEAVES`: see the limit in section 6. One restart falls between any
  two steps of any handler.

Deadlock is checked except in `passport`, `device_session`, `faucet` and `ct`,
where clicks, claims or events are bounded and the system rests once they are used
up; that no handler is stuck before is what `FlowsEnd` and `ClaimsEnd` say of the
first and the third.

Constants that bound exploration only, and correspond to nothing in the code:
`MaxAdminMints`, `MaxRules`, `MaxLedger`, `MaxSeq`, `MaxCrashes`, `MaxRows`,
`MaxAccts`, `MaxCreds`, `MaxProofs`, `MaxKeys`, `MaxClicks`, `MaxRetries`,
`MaxCalls`, `MaxStarts`, `MaxFails`, `MaxTime`, `MaxClaims`, `MaxBalance`,
`Starts`, `Floors`, the room in `CtAccount`'s `Pasts` and the remainders in
`DeviceSession`'s. The definitions `MCBound` are constraints of `settlement` and `app_session`.

### Fairness

Three modules state fairness, each of a handler's own steps and none of the
network or the user:

- `AdminTx`: `WF(CallStep(c))`. An HTTP request to the RPC server or to Horizon is
  answered or fails, the retry loop is counted, and `waitForTransactionSuccess` stops
  after 120 seconds. A transaction need not land, expire, or be found, and the RPC
  server need not catch up: `CallsEnd` rests on the attempt count and the time limit.
- `Passport`: `WF(Step(f))`. The reads and the prover answer or throw, `withRetry`
  and every polling loop are counted, and a prompt that is shown is approved or
  dismissed (the browser ends it otherwise). `FlowsEnd` is about the queue of prompts:
  a prompt that waits for one that waits for it would never be shown.
- `Faucet`: `WF(Step(r))`. Waits have a time limit, the loop of top-ups is counted.
  `ClaimsEnd` says that no asset's top-up waits for a balance that never comes.

The contracts have no scheduling of their own; the other modules state no liveness.

## 5. What is proved

For every value of the constants that meets the assumptions below. Each theorem's
module is checked by `tlapm`. Where a theorem states a property of a run, it is the same
formula that TLC checks there.

| Module | Theorem | Establishes |
|---|---|---|
| `ContractProofs` | `PvTypeCorrect`, `SpendsAreFresh`, `ScopesNeverMix`, `EventsNameSpentNullifiers` | all four properties of run `verifier` |
| | `TypeCorrect`, `OneOperationPerNullifier`, `ProofPaysOnce`, `SettlementImplementsVouchers`, `FreezeIsFinal`, `GateOfItsAsset` | the properties of run `settlement`, with re-pointing; `ProofPaysOnce` under a hypothesis (below) |
| | `AccountsRefineSettlement`, `SmartTypeCorrect`, `BindComesFirst`, `SpentBoundProofLocksAccount` | all properties of run `smart_account`, and that accounts as payers only restrict `Settlement` |
| `AdminTxProofs` | `TxTypeCorrect`, `WritesAtMostOnce`, `ReturnedIsApplied`, `AdminTxImplementsWrites` | the invariants of run `admin_tx`, and the safety refinement `TxSpec => ImplementsWrites` |
| | `CallsAreShort` | the safety half of `CallsEnd` |
| `IssuerProofs` | `IssuerInvariant`, `IssuedIsOwnHolds`, `NoteRootIsOfFileHolds`, `RevRootGrowsHolds`, `OnChainRowsAreInRootHolds` | all properties of run `issuer`; the last one for `MaxRows <= LEAVES` |
| `FaucetProofs` | `FaucetInvariant`, `FaucetTypeCorrect`, `RecordedIsPaidHolds`, `OncePerCooldownHolds` | the invariants of run `faucet` |
| | `ClaimsAreShort` | the safety half of `ClaimsEnd` |
| `PassportProofs` | `PassportTypeCorrect`, `PassportSettlesOnce`, `PassportBindsFirst`, `PassportRecordsLanded` | the invariants of run `passport`, for any number of handlers, clicks, retries, assets and credentials |
| | `FlowsAreShort`, `PromptsMove` | the safety half of `FlowsEnd` |
| `AppSessionProofs` | `AppInvariant`, `DeviceIsAppHolds`, `SettledStaysDroppedHolds` | both properties of run `app_session` |
| `DeviceSessionProofs` | `DeviceInvariant`, `NoSpareRuleHolds`, `SessionSignsHolds`, `LegacyIsBlockedHolds` | all properties of run `device_session` |
| `CtAccountProofs` | `CtInvariant`, `CtTypeCorrect`, `StoreCatchesUp`, `LoneSpendMatches`, `CalmReadHeals` | all properties of run `ct`, for any history of the account, number of flows, polls and margin |

**The verifier.** The inductive invariant `LedgerInv` adds to the types what the
counter of spends counts: each key of the ledger was burned by one event. The
argument turns on the key the *check* looks up being the key the *spend* stores;
both come from one decoding of one input.

**Settlement.** `IInv` conjoins the types (no negative balance), the verifier's
`LedgerInv`, `RecordedIsSpent`, and `GrantInv`: every grant in the history stands
for a key that is spent at that instance, and grants are as many as operations.
`GrantInv` is what makes *once per instance* inductive: the next operation's key is
fresh, hence not among the granted. The refinement maps (instance, key) to a
voucher, redeemed when granted and burned when spent without a grant (somebody
calls the verifier's or an adapter's spending entry points directly). Freeze and gate
are action properties proved from `IInv`, one case per action.

`ProofPaysOnce` is `Spec /\ []OnePolicyPerProof(P) => []ProofSettlesOnce`. The key
holds the policy of the *call*, which the verifier does not compare with the inputs;
two contracts take it from the inputs and two from storage. So a proof has one key
only if, of the policies it can be presented under (`SettlementPolicies`), one has
its circuit. The deployment scripts register a circuit of its own for each policy
(`scripts/deploy_hardened_external.sh:54-56`), and then the hypothesis holds; it
holds in run `settlement`, whose proofs carry the policy the contracts are configured
with. Without it the property is false: with one circuit registered for policies 1
and 2 and inputs that carry 2, a transfer spends the key under 2 and a swap the one
under 1. Given it, `PaidInv` says that every operation was paid with the key of its
proof's one policy, so a second one would need a key that is spent.

**Smart accounts.** Every `SmartNext` step is a `Next` step or leaves the
settlement variables alone, so `SmartSpec => Spec` and the settlement theorems
carry over. `BoundBeforeSession` is inductive with the types: the first rule is
gated, a gated rule needs a bound proof to authorize anything but `set_proof`, and
a bound proof is never unbound.

**Admin transactions.** `AtMostOnce` is not inductive: a call whose earlier
transaction might still land must not build another. `TxInv` adds that the network
took of a call at most the transaction the call carries, and none at all while the
call can still rebuild (`HandedIsCarried`); that this transaction is of the call's
own operation and was built after the call began (`CarriedIsOwn`); and that what
the network took was built under an earlier sequence number (`TakenWasBuilt`), so
what it lands as lies after the call's start.

In the refinement a transaction of the pool is the write on its way, by the calls
that handed it over; a call has *seen* its write when its operation was applied with a
sequence number later than the call's start, and it was *mine* when what was applied
is a transaction the call handed over. The proof goes action by action: building,
waiting and retrying stutter; `Accepted` is `Take`, `AnswerLost` is `TakeAndFail`,
`Confirmed` is `Succeed`, `Land` is `Applied`, and a transaction that is reverted or
expires is `Dropped`. Two facts carry it: the pool holds one transaction at most, so
a call either starts the write on its way or joins it; and what was applied used a
sequence number of the past (`LandedIsPast`), so a transaction taken now is not one
that was applied already.

**Issuer.** `IssuerInv` is about three lists that grow into each other: the
revocations in the registry, in the write on its way, and in the file. `ListsOK` says
each is a prefix of the next, which needs that the command writes the file's *current*
list (`CommandOK`) although the process may stop and start while the write is on its
way; a write that lands late is then never shorter than what is there, which is
`RevRootGrows`. For the notes `PastNote` says the same of every note write: its value
is the root of the file at some earlier length, also when the call was given up.
`IssuedIsOwn` needs `OwnRequest`: a handler that is past the comparison of roots holds
its own wallet's root, whichever wallet's root was written since. For the marks,
`MarkedInv` adds that the list fits into the tree. Beyond `LEAVES` rows the code
marks a row no root holds (section 6), so `OnChainRowsAreInRootHolds` needs its
hypothesis.

**Faucet.** `FaucetInv` follows a claim from the look-up to the file. `SawOK` says of
every handler, and of every payment the network holds or has applied, that each
claim of its kind that the file held when it began was a cooldown old; `FileOK` is
why the look-up of one time is enough, as the file's time is never earlier than any
claim of that kind it has not lost. `ClaimsOK` gives each running claim a number of
its own, and makes a payment under that number one for the same holder and asset,
which is what may go wrong when two claims share a transaction; `RecordedIsPaid` is
then inductive. `ShapeOK` keeps the loops of the top-up within the candidates, so
every balance that is read or changed is an account's.

**Passport.** `PassportInv` says of every handler what it must hold at its program
counter (`HandlersOK`), and types the hooks, the chain and the stores. The three
properties need different strengthenings. `SpentOnce`: an applied settlement's
nullifier is spent, and only `Land` changes what is applied, so a second settlement of
the scope is not accepted. `HonestInv`: what is bound on the chain, *and what the bind
cache holds*, was bound by an applied transaction; and each handler that is past its
bind check carries a proof that was, each that is past its wait a transaction that was
applied. The cache's part is what the property is about: it is written by one handler,
outlives it, and spares another the read of the chain.

**Stored sessions.** `AppInv` says of the hooks and of whatever is stored that an
account never goes without a field, so the effect that writes the device's session is
never skipped while an account is at hand, and that every proof stored anywhere is one
of those made so far. The first makes `DeviceIsApp` inductive, with the merges of
`SaveWallet` and `connect` done field by field; the second makes a proof that
comes back one that was remembered and never a new one. `SettledStaysDropped` needs
besides that a proof counted as settled is neither on the page nor on the device
(`DroppedOK`), and that what a sign-in holds was not settled when it read it
(`CallOK`; `old` is what was settled by then). The wallets' sessions may still hold it,
and so may such a call: these are the exceptions of the property. A sign-in begun before
the settlement was recorded does show the proof again; the chain refuses it, and
syncProofLifecycle, which runs after every change, drops it when the chain answers. The
pages offer the sign-in only while no account is at hand.

**Device session.** `DeviceInv` keeps three things. The account's rules are numbered
without gaps, and a late RPC server may miss a rule but never shows another (`ChainOK`).
A listing without unanswered reads has missed no rule below its index (`Swept`),
and it stops past the last id it asks for or after `MaxMisses` absent ids in a row;
`NoSpareRule` follows from its end. A rule chosen to sign outlives, by the margin, the ledger it was judged by
(`Chosen`), and stays so since rules are never changed. `Blind` counts along the gate
the readings of a superseded rule 0 that failed, for `LegacyIsBlocked`.

**Confidential token client.** `CtInv` is about what every copy of the cached openings
would become, not what it is: the stored one, the one a flow holds, and the one a wait
would put back. A copy is `Good` when its receiving opening is the chain's at its cursor,
and its spendable one is too, *or* a spend comes after the cursor, which sets that opening
whatever it was. `setSpendable` is the reason for the second disjunct: it stores the
opening of its own spend over a copy whose cursor may lie before it. Good copies catch
up; replaying the events from a cursor on keeps a copy good if no event that matters is
missing (`~lost`); and an opening stored late breaks it, which `late` records. Since any
good copy may be saved over any other, nothing more is needed for whatever order saves
come in. `SpendsOK` follows a verified opening through the steps after it (`submit`, the
second look, the network) as long as no spend or merge lands. `CalmOK` says that a flow
that reads while nothing happens has, after its rebuild, the chain's openings.

`Replay` is a recursive function of the ledger. What is proved of it (a replay from one
cursor goes on where another ended; a spend forgets what the opening was; an event
appended to the log leaves the past alone) is by induction over an interval,
`IntervalInduction`, which takes a *set* of numbers and uses that `<` on the naturals
has minimal elements.

**Measures.** Each of the three liveness properties of handlers has a half that needs no
fairness: a measure that every step of a call, claim or handler lowers, that no step of
another or of the network raises, and that has a bound fixed by the constants. For a
call (`CallsAreShort`) it is the attempts left, three steps each; for a claim
(`ClaimsAreShort`) the candidates and top-ups left, so that a turn of the loop that
deposits nothing counts as well; for a handler of the passport (`FlowsAreShort`) the legs
left, then the attempts and steps of the transaction it is sending. The last one needs
that no handler behind the gate goes on to open a session (`Placed`), or a second bind
could follow the first without end. What is left to fairness is that the step a handler
waits for is taken. For prompts `PromptsMove` says that it can be: who waits for a prompt
stands in the queue exactly once, nobody else does, and so the first in it is answerable.

Assumptions cited. Of the contracts: `PolicyIdsAssumption` (policy ids are u32),
`U32Assumption`, `U128Assumption` (a `u128` holds
any `u32`), `WithKeyAssumption`, `InputsAssumption` (words are naturals),
`ProofsAssumption`, `RoutingAssumption` (the contracts are constructed with deployed
addresses), `PolicyConfigAssumption`, `AmountsAssumption`, `CircuitArityAssumption`
(the two circuits have six and four public inputs), `AccountsAssumption`,
`LedgerAssumption`. Of the issuer: `AttemptsAssumption`, `NoTxAssumption`,
`WritersAssumption` (the command line is not a request), `IssuerBounds` (a tree has a
leaf), `BaselineAssumption` (the fixture's commitment is no wallet's),
`FaucetAssumption`. Of the application: `PassportAssumption`, `AppAssumption`,
`SessionAssumption`, `CtAssumption` (there is a poll, amounts are not zero), and `PastsAssumption`, in
`DeviceSession` (an account's earlier rules are numbered from 0, and a session key's rules
expire) and in `CtAccount` (an account's first event is its registration). `NoneAssumption` says in each module that has it that *nothing* is not one of
the values it stands beside. TLC evaluates each on the runs' instances.

**Model-checked only.** `CallsEnd`, `FlowsEnd` and `ClaimsEnd` as they stand, which are
liveness under fairness and out of the prover's reach; their safety halves are above. The
two violations, which are counterexamples.

## 6. Not modelled

- Direct transfers of the Stellar assets outside the compliant contracts,
  trustlines and SAC authorization flags; they are the asset's, not this code's.
- Role membership and its administration (callers of restricted entry points are
  taken to hold the role), contract upgrade, storage TTL and archival.
- The OpenZeppelin authenticator (signers, thresholds, WebAuthn) and the
  confidential-token crates: their code is not in the repository.
- Public-input words 0 and 1 (the two roots): no modelled contract reads them.
- In `Issuer`, a file cut short by a crash or an error inside `writeFileSync`: a save
  is whole or it does not happen, and a file that is there can be read. `loadRevoked`
  would fall back to the fixture (the planned `TornSave` action breaks `RevRootGrows`),
  `loadNotes` to no notes. `Faucet` has torn files.
- More than 8 revocations: `computeRevocationRoot` takes the first eight rows, so
  `OnChainRowsAreInRoot` holds only while `MaxRows` is at most `LEAVES`.
- `adminSacTransfer`, which submits without the retry loop, and the attribute
  predicates of the circuits.
- Application: proof of funds and the balance check before a gated offering,
  `passportActivated`, the disclosure package, the retrying refresh of receipts, the
  repair of stored passkey metadata, key encodings, the session rules per contract
  that earlier versions installed, the kit's own choice of a rule for a passkey,
  keys and provers of the confidential token, and what is only shown.
- Faucet: Horizon and Friendbot beyond *answers or fails*.
- The components `PROJECT.json` lists as `not_modelled`, with reasons: the registries,
  the timelock and the wrappers of OpenZeppelin crates keep little state of their own
  or have their code elsewhere; the relayer proxy, the rate limit, the disclosure
  store and the indexer are small and sequential; pages, scripts, vendored code.

## 7. Disagreements

Runs with a finding:

| Run | Code | Statement |
|---|---|---|
| `rwa_supply` | `transfer` writes the recipient from a balance read before the debit (`rwa_token/src/lib.rs:229`) | README 689: mint and transfer |
| `revoked_still_proves` | the commitment does not enter the non-membership step (`circuits/lumengate/src/main.nr:128`), and the issuer does not look for it | the circuit's header, README 1027 |

Further configurations, which are not among the runs; each gives TLC's
counterexample to one statement (`tlc -config X.cfg M`):

| Configuration, module | Property | Code | Statement |
|---|---|---|---|
| `CtRebuild`, `MCCtAccount` | `CacheIsKept` | `rebuildFromEvents` saves what it replayed before it is compared with the chain, and `reconcileForRead` does not put the prior state back when it does not verify (`engine.ts:187`, `324`) | `store.ts:3-6`: once an event ages out the cached openings are the only way to keep the balance spendable |
| `StaleArchive`, `MCPassport` | `ArchiveIsSettled` | `recordTransferTx` archives the proof of the render its handler was started in (`AppContext.tsx:1836`) | `passkeySession.ts:30`: preserved after settlement so receipts can refresh |
| `LegacyView`, `MCPolicyVerifier` | `LegacyViewSeesEverySpend` | `is_nullifier_spent` (`policy_verifier/src/lib.rs:293`) looks up two scopes | the settlement diagram says it persists per full scope |
| `MigrationReplay`, `MCSettlement` | `ProofSettlesOnceEver` | `set_verifier` re-points to an empty ledger (`rwa_adapter/src/lib.rs:43`) | README 1014, 1029: replay is prevented by spent nullifiers |
| `Rebind`, `MCSmartAccount` | `AlwaysRebindable` | `uninstall` removes configuration all rules share, and `enforce` reads it before the bypass (`compliance_policy/src/lib.rs:53`) | README 745, 750: `set_proof` is exempt |
| `Scope`, `MCSmartAccount` | `BoundMatchesScope` | `enforce` does not compare scopes (`compliance_policy/src/lib.rs:87`) | README 67: scope-matched proof |

Noticed while modelling, and left in the models as the code has them:

- `waitUntilSmartAccountPolicyReady` (`smartAccount.ts:799`) returns at once when
  rule 0 cannot be read, since *unknown* is not *stale*; its comment says it probes
  until the rule matches.
- `readContextRule0` falls back to rule 1 when the read of rule 0 fails
  (`smartAccount.ts:591`), which is why two failed reads in a row let a superseded
  account through, and `LegacyIsBlocked` says no more.
- A renewal within the margin installs a rule that outlives the stored key; revoking
  the key leaves its rules.
- `disconnect` never clears the funding wallet of the device's session and leaves the
  receipt; the merge in `connect` may bring a settled proof back from a wallet's
  session, and a sign-in from the device's session it read before its prompt, two of
  the exceptions `SettledStaysDropped` names. The third is a page that was loaded
  without a device session and hears of its wallet later.
- When `buildProofReceipt` throws after an applied transfer, `recordTransferTx`
  records nothing: no receipt, and the settled proof stays until the chain is asked.
- `requestCredential` started under one wallet and answered under another writes the
  first one's credential into the second one's session.
- `executeConfidentialSettlement` waits after a deposit for the receiving opening only
  (`confidentialFlow.ts:362`) and may then spend a spendable opening it did not verify
  again; the chain refuses such a spend.
- Two faucet claims at once are both paid; a payment that lands after the wait is
  never recorded. `OncePerCooldown` speaks of recorded claims for this reason.
- `ensureNativeSacLiquidity` compares the funders' sum with what one of them must
  have (`sacLiquidity.js:355`).

## 8. Plan

Done: sections 2 to 5. Next, in this order:

1. **GovernanceTimelock** (nothing before its delay, nothing twice), then the
   registries, with an abstract specification of a one-shot operation.
2. **ConfidentialIndexer** (cursor against events under concurrent syncs), composed
   with `CtAccount`, which takes its index as complete.
3. `registrySync.ts` on `Issuer`: the client adopts whatever root the issuer re-read
   (line 121), which another wallet may have written.
4. In `Issuer`: torn files, the ninth revocation, and a request's eventual answer.
5. **RelayerRateLimit** and the disclosure store.
