------------------------------ MODULE Passport ------------------------------
(***************************************************************************)
(* The browser application's passport (app/src/context/AppContext.tsx and  *)
(* the pages that call it): one passkey account, its credential and its    *)
(* proof, and the handlers a user may start while others are still         *)
(* awaiting an answer.  A handler keeps the credential and the proof of    *)
(* the render it was started in.  React's effects run at the end of every  *)
(* step that changes state (Commit).  Nothing here survives on the chain   *)
(* but the transactions the handlers send.                                 *)
(***************************************************************************)
EXTENDS Naturals, Sequences, FiniteSets

CONSTANTS
    Flows,          \* handlers that may run at once
    Kinds,          \* what the user may start: request, confirm, send, invest, enable, authorize
    Assets,         \* ASSET_SCOPES
    Rwa,            \* the asset VerifyPage confirms eligibility for
    None,
    MaxCreds, MaxProofs, MaxKeys,   \* bounds on what is ever made
    MaxClicks,                      \* bound on what the user ever starts
    MaxTries, MaxRetries            \* attempts of withRetry, and a bound on all of them

ASSUME PassportAssumption ==
    /\ Rwa \in Assets
    /\ Kinds \subseteq {"request", "confirm", "send", "invest", "enable", "authorize"}
    /\ {MaxClicks, MaxRetries} \subseteq Nat
    /\ {MaxCreds, MaxProofs, MaxKeys, MaxTries} \subseteq Nat \ {0}

VARIABLES
    spent, bound, rules,    \* the chain: nullifiers, the bound proof, session rules
    net, landed,            \* transactions on their way, and applied ones
    cred, proof, life,      \* hooks: credential, proof, proofLifecycle
    syncs,                  \* calls of syncProofLifecycle awaiting their read
    archive, receipt,       \* settlementProofArchive, receiptTransactions.transfer
    cache, key,             \* lastBoundDigest, the stored session key
    line,                   \* passkey prompts, in the order they were asked for
    flow, clicks, made

chainVars == <<spent, bound, rules, net, landed>>
hookVars  == <<cred, proof, life, syncs>>
doneVars  == <<archive, receipt>>
runVars   == <<line, flow, clicks, made>>
passportVars == <<chainVars, hookVars, doneVars, cache, key, runVars>>

-----------------------------------------------------------------------------
(* Proofs and the chain.                                                   *)

Proofs == [cred : 1..MaxCreds, asset : Assets, no : 1..MaxProofs]
Jobs == {"bind", "install", "settle"}

ASSUME NoneAssumption == None \notin Proofs /\ None \notin Jobs

\* Fault: the nullifier is of the proof, not of the credential and the scope.
NullifierOfProof(p) == <<p.cred, p.asset, p.no>>

\* scopedNullifierDecimal
Nullifier(p) == <<p.cred, p.asset>>

\* proofMatchesCredential
Matches(p, c) == p # None /\ c # 0 /\ p.cred = c

IsSpent(p) == Nullifier(p) \in spent

\* What __check_auth and the called contract ask of a transaction:
\* CompliancePolicy wants a bound and unspent proof of all but set_proof.
Accepts(t) ==
    /\ t.job # "bind" => bound # None /\ ~IsSpent(bound)
    /\ t.job = "settle" => ~IsSpent(t.use)

\* A transaction is applied, if it is still accepted, at any time or never.
Land(t) ==
    /\ Accepts(t)
    /\ net' = net \ {t}
    /\ landed' = landed \cup {t}
    /\ bound' = IF t.job = "bind" THEN t.use ELSE bound
    /\ rules' = IF t.job = "install" THEN rules \cup {t.key} ELSE rules
    /\ spent' = IF t.job = "settle" THEN spent \cup {Nullifier(t.use)} ELSE spent
    /\ UNCHANGED <<hookVars, doneVars, cache, key, runVars>>

-----------------------------------------------------------------------------
(* Hooks and effects.                                                      *)

\* syncProofLifecycleOnChain: a read that fails finds nothing spent.
Synced(s, isSpent) ==
    IF s.cred = 0 \/ s.proof = None THEN "none"
    ELSE IF ~Matches(s.proof, s.cred) THEN "invalid"
    ELSE IF isSpent THEN "consumed" ELSE "ready"

\* The render of new values and the effects that follow it: a change starts a
\* read of the lifecycle, which answers at once if there is no proof to read
\* about, and a proof of another credential is dropped.
Commit(c, p, l, waiting) ==
    LET changed == <<c, p>> # <<cred, proof>>
        kept    == IF p # None /\ c # 0 /\ ~Matches(p, c) THEN None ELSE p
    IN  /\ cred' = c
        /\ proof' = kept
        /\ life' = IF changed /\ kept = None THEN "none" ELSE l
        /\ syncs' = IF changed /\ p # None /\ c # 0
                    THEN waiting \cup {[cred |-> c, proof |-> p]} ELSE waiting

\* syncProofLifecycle after its await: when the proof it was called with is
\* spent it clears the proof there is now.
SyncAnswer(s) ==
    /\ \E seen \in {FALSE, s.proof # None /\ IsSpent(s.proof)} :
           LET a == Synced(s, seen)
           IN  Commit(cred, IF a = "consumed" THEN None ELSE proof, a, syncs \ {s})
    /\ UNCHANGED <<chainVars, doneVars, cache, key, runVars>>

\* beginProofRecovery: every hook of the passport.
Forget == Commit(0, None, "none", syncs) /\ cache' = None

BeginRecovery ==
    /\ cred # 0 /\ clicks < MaxClicks
    /\ clicks' = clicks + 1
    /\ Forget
    /\ UNCHANGED <<chainVars, doneVars, key, line, flow, made>>

\* revokeLumengateSession: the rule stays on the chain.
RevokeSession ==
    /\ key # None /\ clicks < MaxClicks
    /\ clicks' = clicks + 1
    /\ key' = None
    /\ UNCHANGED <<chainVars, hookVars, doneVars, cache, line, flow, made>>

\* A handler that does not run.
Idle == [pc |-> "idle", kind |-> None, asset |-> Rwa, cred |-> 0, proof |-> None,
         use |-> None, job |-> None, key |-> None, tries |-> 1, gated |-> FALSE, click |-> 0]

\* The page is left and loaded again, whatever handlers were doing:
\* applyPasskeySession brings back the hooks as they were last persisted.
Reload ==
    /\ clicks < MaxClicks
    /\ clicks' = clicks + 1
    /\ flow' = [f \in Flows |-> Idle]
    /\ line' = <<>>
    /\ cache' = None
    /\ syncs' = IF proof # None /\ cred # 0 THEN {[cred |-> cred, proof |-> proof]} ELSE {}
    /\ UNCHANGED <<chainVars, cred, proof, life, doneVars, key, made>>

\* loadLumengateSession and sessionIsEnabled.
SessionEnabled == key # None /\ key \in rules

-----------------------------------------------------------------------------
(* The start of a handler.                                                 *)

At(f, pc) == flow[f].pc = pc
Stop(f)   == flow' = [flow EXCEPT ![f] = Idle]
Go(f, pc) == flow' = [flow EXCEPT ![f].pc = pc]

Settling(kind) == kind \in {"send", "invest"}

\* The page settles with the proof it shows.
Shown(kind, a) ==
    /\ Settling(kind)
    /\ life = "ready"
    /\ Matches(proof, cred)
    /\ proof.asset = a

\* handleTransfer goes by the lifecycle it shows.
MaySend == cred # 0 /\ life \notin {"invalid", "consumed"}

\* canSettle goes by the scope rows: read of the chain some time ago, and
\* ready when that read failed, they may be so whatever was spent.
MayInvest == cred # 0

\* What pages and handlers refuse before their first await.
MayStart(kind, a) ==
    /\ kind = "send" => MaySend
    /\ kind = "invest" => MayInvest
    /\ ~Settling(kind) => a = Rwa
    /\ kind = "confirm" => cred # 0
    /\ kind \in {"enable", "authorize"} => Matches(proof, cred)

FirstStep(kind, a) ==
    CASE kind = "request" -> "ask"
      [] kind \in {"enable", "authorize"} -> "bindcheck"
      [] Shown(kind, a) -> "fresh"
      [] OTHER -> "check"

Click(f, kind, a) ==
    /\ At(f, "idle")
    /\ clicks < MaxClicks
    /\ MayStart(kind, a)
    /\ clicks' = clicks + 1
    /\ flow' = [flow EXCEPT ![f] =
           [Idle EXCEPT !.pc = FirstStep(kind, a), !.kind = kind, !.asset = a,
                        !.cred = cred, !.proof = proof,
                        !.use = IF FirstStep(kind, a) \in {"fresh", "bindcheck"}
                                THEN proof ELSE None,
                        !.click = clicks + 1]]
    /\ UNCHANGED <<chainVars, hookVars, doneVars, cache, key, line, made>>

\* An await that ends in an error, or a check the handler does not pass.
Throw(f) == Stop(f) /\ UNCHANGED <<chainVars, hookVars, doneVars, cache, key, line, clicks, made>>

\* requestCredential
Issue(f) ==
    /\ At(f, "ask")
    /\ made.creds < MaxCreds
    /\ Commit(made.creds + 1, None, "none", syncs)
    /\ made' = [made EXCEPT !.creds = @ + 1]
    /\ Stop(f)
    /\ UNCHANGED <<chainVars, doneVars, cache, key, line, clicks>>

-----------------------------------------------------------------------------
(* confirmPassportEligibility and ensureProofForAsset, of the credential the *)
(* handler was started with.                                               *)

\* assertScopeNullifierAvailable, of the credential the handler was started with.
ScopeSpent(f) == <<flow[f].cred, flow[f].asset>> \in spent

\* ensureProofForAsset keeps the proof it was started with if it is of the asset.
KeepsProof(f) ==
    /\ Settling(flow[f].kind)
    /\ Matches(flow[f].proof, flow[f].cred)
    /\ flow[f].proof.asset = flow[f].asset

Check(f) ==
    /\ At(f, "check")
    /\ ~ScopeSpent(f)
    /\ Go(f, IF KeepsProof(f) THEN "recheck" ELSE "roots")
    /\ UNCHANGED <<chainVars, hookVars, doneVars, cache, key, line, clicks, made>>

\* The scope is read again for a proof that is kept, and the one there is is
\* dropped if it was spent meanwhile.
Recheck(f) ==
    /\ At(f, "recheck")
    /\ IF ScopeSpent(f)
       THEN Commit(cred, None, life, syncs) /\ cache' = None /\ Stop(f)
       ELSE Go(f, "roots") /\ UNCHANGED <<hookVars, cache>>
    /\ UNCHANGED <<chainVars, doneVars, key, line, clicks, made>>

\* ensureCredentialRootsReady ends ready, or not; a kept proof needs a new
\* credential only if its root had to be read again.
Roots(f) ==
    /\ At(f, "roots")
    /\ \/ Commit(flow[f].cred, proof, life, syncs) /\ (Stop(f) \/ Go(f, "prove"))
       \/ /\ KeepsProof(f)
          /\ Commit(flow[f].cred, proof, life, syncs) \/ UNCHANGED hookVars
          /\ flow' = [flow EXCEPT ![f].pc = "fresh", ![f].use = flow[f].proof]
    /\ UNCHANGED <<chainVars, doneVars, cache, key, line, clicks, made>>

\* generateProof and setProof with the credential it was made of.  setProof
\* clears the transfer on the receipt, and the effect on the activity log puts
\* the last one back.
Prove(f) ==
    /\ At(f, "prove")
    /\ made.proofs < MaxProofs
    /\ LET p == [cred |-> flow[f].cred, asset |-> flow[f].asset, no |-> made.proofs + 1]
       IN  /\ Commit(flow[f].cred, p, "ready", syncs)
           /\ IF Settling(flow[f].kind)
              THEN flow' = [flow EXCEPT ![f].pc = "fresh", ![f].use = p]
              ELSE Stop(f)
    /\ made' = [made EXCEPT !.proofs = @ + 1]
    /\ cache' = None
    /\ UNCHANGED <<chainVars, doneVars, key, line, clicks>>

-----------------------------------------------------------------------------
(* handleTransfer and handleSettle, up to the settlement.                  *)

\* The handler's own syncProofLifecycle, of the render it was started in.
Resync(f) ==
    /\ Stop(f)
    /\ syncs' = syncs \cup {[cred |-> flow[f].cred, proof |-> flow[f].proof]}
    /\ UNCHANGED <<chainVars, cred, proof, life, doneVars, cache, key, line, clicks, made>>

\* The lifecycle of the proof to use; a read that fails leaves it ready.
Fresh(f) ==
    /\ At(f, "fresh")
    /\ \/ IsSpent(flow[f].use) /\ Resync(f)
       \/ /\ Go(f, IF flow[f].kind = "invest" THEN "bindcheck" ELSE "gate")
          /\ UNCHANGED <<chainVars, hookVars, doneVars, cache, key, line, clicks, made>>

\* handleSettle's second look, once the proof is bound.
SpentCheck(f) ==
    /\ At(f, "spentcheck")
    /\ IF IsSpent(flow[f].use)
       THEN Forget /\ Stop(f)
       ELSE Go(f, "gate") /\ UNCHANGED <<hookVars, cache>>
    /\ UNCHANGED <<chainVars, doneVars, key, line, clicks, made>>

\* signAndSubmitSettlement: no settlement without an enabled session.
Gate(f) ==
    /\ At(f, "gate")
    /\ SessionEnabled
    /\ flow' = [flow EXCEPT ![f].pc = "bindcheck", ![f].gated = TRUE]
    /\ UNCHANGED <<chainVars, hookVars, doneVars, cache, key, line, clicks, made>>

-----------------------------------------------------------------------------
(* bindSessionProofIfNeeded and enableLumengateSession.                    *)

\* Where a handler goes on once its proof is bound.
AfterBind(f) ==
    IF flow[f].kind = "authorize" THEN Stop(f)
    ELSE IF flow[f].kind = "enable" THEN Go(f, "open")
    ELSE IF flow[f].gated
    THEN flow' = [flow EXCEPT ![f].pc = "submit", ![f].job = "settle", ![f].tries = 1]
    ELSE Go(f, "spentcheck")

ToBind(f) == flow' = [flow EXCEPT ![f].pc = "submit", ![f].job = "bind", ![f].tries = 1]

\* Fault: any bound proof will do.
BindCheckOfAny(f) ==
    /\ At(f, "bindcheck")
    /\ \/ /\ cache = flow[f].use \/ key # None
          /\ cache' = cache
          /\ AfterBind(f)
       \/ /\ cache # flow[f].use
          /\ ToBind(f)
          /\ UNCHANGED cache
    /\ UNCHANGED <<chainVars, hookVars, doneVars, key, line, clicks, made>>

\* isProofBoundLocally, then the chain; a read that fails says no.
BindCheck(f) ==
    /\ At(f, "bindcheck")
    /\ \/ /\ flow[f].use \in {cache, bound}
          /\ cache' = IF flow[f].kind = "enable" THEN cache ELSE flow[f].use
          /\ AfterBind(f)
       \/ /\ cache # flow[f].use
          /\ ToBind(f)
          /\ UNCHANGED cache
    /\ UNCHANGED <<chainVars, hookVars, doneVars, key, line, clicks, made>>

\* enableLumengateSession, of smartAccount: the key is stored before its rule
\* is looked for and installed.
OpenSession(f) ==
    /\ At(f, "open")
    /\ IF key = None
       THEN made.keys < MaxKeys /\ key' = made.keys + 1 /\ made' = [made EXCEPT !.keys = @ + 1]
       ELSE UNCHANGED <<key, made>>
    /\ IF SessionEnabled THEN Stop(f)
       ELSE flow' = [flow EXCEPT ![f].pc = "submit", ![f].job = "install",
                                 ![f].key = key', ![f].tries = MaxTries]
    /\ UNCHANGED <<chainVars, hookVars, doneVars, cache, line, clicks>>

-----------------------------------------------------------------------------
(* Submission: by the session key, or by the passkey, one prompt at a time. *)

Tx(f) == [click |-> flow[f].click, try |-> flow[f].tries, job |-> flow[f].job,
          use |-> flow[f].use, key |-> flow[f].key]

\* Fault: the submission is itself run as a ceremony around the prompt.
AskNested(f) == line' = line \o <<None, f>>

\* runPasskeyCeremony: a prompt waits for those asked for before it.
Ask(f) == line' = Append(line, f)

Submit(f) ==
    /\ At(f, "submit")
    /\ IF SessionEnabled /\ flow[f].job # "install"
       THEN Go(f, "send") /\ UNCHANGED line
       ELSE flow[f].job # "settle" /\ Go(f, "prompt") /\ Ask(f)
    /\ UNCHANGED <<chainVars, hookVars, doneVars, cache, key, clicks, made>>

\* The user approves the prompt, or dismisses it.
Answer(f) ==
    /\ At(f, "prompt")
    /\ line # <<>>
    /\ Head(line) = f
    /\ line' = Tail(line)
    /\ Go(f, "send") \/ Stop(f)
    /\ UNCHANGED <<chainVars, hookVars, doneVars, cache, key, clicks, made>>

\* withRetry, after an error of the network.
Again(f) ==
    IF flow[f].tries < MaxTries /\ made.retries < MaxRetries
    THEN /\ flow' = [flow EXCEPT ![f].pc = "submit", ![f].tries = @ + 1]
         /\ made' = [made EXCEPT !.retries = @ + 1]
    ELSE Stop(f) /\ UNCHANGED made

\* The transaction is taken, its answer received or lost; or the network
\* fails before the simulation could refuse it.
Send(f) ==
    /\ At(f, "send")
    /\ \/ /\ Accepts(Tx(f))
          /\ net' = net \cup {Tx(f)}
          /\ (Go(f, "wait") /\ UNCHANGED made) \/ Again(f)
       \/ ~Accepts(Tx(f)) /\ net' = net /\ Again(f)
    /\ UNCHANGED <<spent, bound, rules, landed, hookVars, doneVars, cache, key, line, clicks>>

\* The simulation refuses it; a spent nullifier is looked into.
Refuse(f) ==
    /\ At(f, "send")
    /\ ~Accepts(Tx(f))
    /\ IF flow[f].job = "settle" /\ IsSpent(flow[f].use) THEN Resync(f) ELSE Throw(f)

Succeed(f) ==
    /\ cache' = IF flow[f].job = "bind" THEN flow[f].use ELSE cache
    /\ CASE flow[f].job = "bind"    -> AfterBind(f)
         [] flow[f].job = "install" -> Stop(f)
         [] flow[f].job = "settle"  -> Go(f, "record")
    /\ UNCHANGED <<chainVars, hookVars, doneVars, key, line, clicks, made>>

\* Fault: a transaction that was taken is taken to have succeeded.
AwaitNothing(f) ==
    /\ At(f, "wait")
    /\ Succeed(f) \/ Throw(f)

\* waitForTransactionStatus: applied, or failed, or still unknown after 90 s.
Await(f) ==
    /\ At(f, "wait")
    /\ \/ Tx(f) \in landed /\ Succeed(f)
       \/ Tx(f) \notin landed /\ Throw(f)

\* recordTransferTx, of the render the handler was started in, once the receipt
\* is built.  (If that throws, nothing is recorded and the proof stays: MayThrow.)
Record(f) ==
    /\ At(f, "record")
    /\ Commit(cred, None, "none", syncs)
    /\ receipt' = Tx(f)
    /\ archive' = IF Matches(flow[f].proof, flow[f].cred) THEN flow[f].proof ELSE None
    /\ Stop(f)
    /\ UNCHANGED <<chainVars, cache, key, line, clicks, made>>

-----------------------------------------------------------------------------
\* An await of a handler that may end in an error.
MayThrow(f) ==
    /\ flow[f].pc \in {"ask", "check", "recheck", "roots", "prove", "fresh", "spentcheck",
                       "gate", "open", "submit", "record"}
    /\ Throw(f)

Step(f) ==
    \/ Issue(f) \/ Check(f) \/ Recheck(f) \/ Roots(f) \/ Prove(f) \/ Fresh(f)
    \/ SpentCheck(f) \/ Gate(f) \/ BindCheck(f) \/ OpenSession(f) \/ Submit(f)
    \/ Answer(f) \/ Send(f) \/ Refuse(f) \/ Await(f) \/ Record(f) \/ MayThrow(f)

New == [creds |-> 0, proofs |-> 0, keys |-> 0, retries |-> 0]

\* An account that was confirmed and enabled on this device before.
StoredProof == [cred |-> 1, asset |-> Rwa, no |-> 1]
StoredTx(job, k) == [click |-> 0, try |-> 1, job |-> job, use |-> StoredProof, key |-> k]

\* A new account, or one applyPasskeySession restored: its proof confirmed
\* and perhaps dropped since, its session perhaps enabled.  The lifecycle that
\* is shown may be of a proof there was before, whose read answered last.
PassportInit ==
    /\ \/ /\ cred = 0 /\ proof = None
          /\ made = New
       \/ /\ cred = 1 /\ proof \in {StoredProof, None}
          /\ made = [New EXCEPT !.creds = 1, !.proofs = 1]
       \/ /\ cred = 1 /\ proof \in {StoredProof, None}
          /\ made = [New EXCEPT !.creds = 1, !.proofs = 1, !.keys = 1]
    /\ \/ life = IF proof = None THEN "none" ELSE "ready"
       \/ proof # None /\ made.keys = 1 /\ life = "invalid"
    /\ IF made.keys = 0
       THEN bound = None /\ rules = {} /\ key = None /\ landed = {}
       ELSE /\ bound = StoredProof /\ rules = {1} /\ key = 1
            /\ landed = {StoredTx("bind", None), StoredTx("install", 1)}
    /\ spent = {} /\ net = {} /\ syncs = {}
    /\ archive = None /\ receipt = None /\ cache = None
    /\ line = <<>> /\ flow = [f \in Flows |-> Idle] /\ clicks = 0

PassportNext ==
    \/ \E f \in Flows : Step(f) \/ (\E k \in Kinds, a \in Assets : Click(f, k, a))
    \/ \E s \in syncs : SyncAnswer(s)
    \/ \E t \in net : Land(t)
    \/ BeginRecovery \/ RevokeSession \/ Reload

\* Every await of a handler ends: requests answer or fail, loops are counted,
\* and a prompt that is shown is approved or dismissed.
PassportSpec ==
    /\ PassportInit
    /\ [][PassportNext]_passportVars
    /\ \A f \in Flows : WF_passportVars(Step(f))

-----------------------------------------------------------------------------
(* Properties.                                                             *)

Txs == [click : 0..MaxClicks, try : 1..MaxTries, job : Jobs,
        use : Proofs, key : (1..MaxKeys) \cup {None}]
ProofOrNone == Proofs \cup {None}

Pcs == {"idle", "ask", "check", "recheck", "roots", "prove", "fresh", "spentcheck", "gate",
        "bindcheck", "open", "submit", "prompt", "send", "wait", "record"}

\* The values the hooks, the stores and the chain may take.
PassportTypeOK ==
    /\ spent \subseteq (1..MaxCreds) \X Assets
    /\ bound \in ProofOrNone
    /\ rules \subseteq 1..MaxKeys
    /\ net \subseteq Txs /\ landed \subseteq Txs
    /\ cred \in 0..MaxCreds /\ proof \in ProofOrNone
    /\ life \in {"none", "ready", "consumed", "invalid"}
    /\ archive \in ProofOrNone /\ receipt \in Txs \cup {None}
    /\ cache \in ProofOrNone /\ key \in (1..MaxKeys) \cup {None}
    /\ line \in Seq(Flows)
    /\ clicks \in 0..MaxClicks
    /\ \A f \in Flows :
           /\ flow[f].pc \in Pcs /\ flow[f].cred \in 0..MaxCreds
           /\ {flow[f].proof, flow[f].use} \subseteq ProofOrNone

\* One settlement of an asset per credential, whatever handlers run at once,
\* are retried after a lost answer, or prove anew.
OncePerPassport ==
    \A s, t \in landed :
        s.job = "settle" /\ t.job = "settle" /\ s.use.cred = t.use.cred
            /\ s.use.asset = t.use.asset
        => s = t

\* A transfer on the receipt was applied to the ledger (waitForTransactionStatus).
RecordedLanded == receipt # None => receipt \in landed

WasBound(p) == \E t \in landed : t.job = "bind" /\ t.use = p

\* "bind first, then install the session rule": neither a session rule nor a
\* settlement is submitted before the handler's own proof was bound on the
\* chain, though the local cache of bound proofs outlives the handler.
BoundFirst == \A f \in Flows : flow[f].job \in {"install", "settle"} => WasBound(flow[f].use)

\* The archive a receipt is refreshed from after a settlement is the proof
\* that was settled with ("Preserved after settlement so receipts can refresh").
ArchiveIsSettled == receipt # None => archive = receipt.use

\* No handler waits for ever: passkey prompts never wait on one another.
FlowsEnd == \A f \in Flows : ~At(f, "idle") ~> At(f, "idle")

=============================================================================
