--------------------------- MODULE PassportProofs ---------------------------
(* Theorems about the browser's passport, for any number of handlers and    *)
(* assets: types, one settlement of an asset per credential, receipts that  *)
(* name applied transactions, the bind before anything it authorizes, and   *)
(* the safety half of FlowsEnd: handlers are short, and prompts queue once. *)
EXTENDS Passport, TLAPS

-----------------------------------------------------------------------------
(* Types: the invariant also says what a handler holds at each of its steps. *)

CredOrNone == 0..MaxCreds
KeyOrNone  == (1..MaxKeys) \cup {None}

Handler ==
    [pc : Pcs, kind : Kinds \cup {None}, asset : Assets, cred : CredOrNone,
     proof : ProofOrNone, use : ProofOrNone, job : Jobs \cup {None}, key : KeyOrNone,
     tries : 1..MaxTries, gated : BOOLEAN, click : 0..MaxClicks]

Proving    == {"check", "recheck", "roots", "prove"}
Submitting == {"submit", "prompt", "send", "wait", "record"}
Using      == {"fresh", "spentcheck", "gate", "bindcheck", "open"} \cup Submitting

\* What a handler needs at a step, it has.
Ready(r) ==
    /\ r.pc \in Proving => r.cred # 0 /\ r.job = None
    /\ r.pc \in Using => r.use \in Proofs
    /\ r.pc \in Submitting => r.job \in Jobs
    /\ r.job = "install" => r.key \in 1..MaxKeys

HandlersOK == flow \in [Flows -> Handler] /\ \A f \in Flows : Ready(flow[f])

HooksOK ==
    /\ cred \in CredOrNone /\ proof \in ProofOrNone
    /\ life \in {"none", "ready", "consumed", "invalid"}
    /\ syncs \subseteq [cred : CredOrNone, proof : ProofOrNone]

ChainOK ==
    /\ spent \subseteq (1..MaxCreds) \X Assets
    /\ bound \in ProofOrNone
    /\ rules \subseteq 1..MaxKeys
    /\ net \subseteq Txs /\ landed \subseteq Txs
    /\ \A t \in net : t.job = "install" => t.key \in 1..MaxKeys

StoresOK ==
    /\ archive \in ProofOrNone /\ receipt \in Txs \cup {None}
    /\ cache \in ProofOrNone /\ key \in KeyOrNone
    /\ line \in Seq(Flows)
    /\ clicks \in 0..MaxClicks
    /\ made \in [creds : 0..MaxCreds, proofs : 0..MaxProofs, keys : 0..MaxKeys, retries : Nat]

PassportInv == HandlersOK /\ HooksOK /\ ChainOK /\ StoresOK

LEMMA PassportInvTypes == PassportInv => PassportTypeOK
BY DEF PassportInv, HandlersOK, HooksOK, ChainOK, StoresOK, PassportTypeOK, Handler,
       CredOrNone, KeyOrNone

LEMMA IdleIsHandler == Idle \in Handler /\ Ready(Idle)
BY PassportAssumption, NoneAssumption
DEF Idle, Handler, Ready, Pcs, CredOrNone, ProofOrNone, KeyOrNone, Jobs, Proving, Using,
    Submitting

LEMMA Tries == 1 \in 1..MaxTries /\ MaxTries \in 1..MaxTries
BY PassportAssumption

LEMMA StoredIsProof == StoredProof \in Proofs
BY PassportAssumption DEF StoredProof, Proofs

LEMMA PassportInvInit == PassportInit => PassportInv
<1> SUFFICES ASSUME PassportInit PROVE PassportInv
  OBVIOUS
<1>1. HandlersOK
  BY IdleIsHandler DEF PassportInit, HandlersOK
<1>2. HooksOK
  BY StoredIsProof, PassportAssumption DEF PassportInit, HooksOK, CredOrNone, ProofOrNone
<1>3. landed \subseteq Txs /\ rules \subseteq 1..MaxKeys
  BY StoredIsProof, PassportAssumption DEF PassportInit, Txs, StoredTx, Jobs, KeyOrNone, New
<1>4. ChainOK
  BY <1>3, StoredIsProof DEF PassportInit, ChainOK, ProofOrNone
<1>5. MaxCreds >= 1 /\ MaxProofs >= 1 /\ MaxKeys >= 1 /\ MaxClicks \in Nat
      /\ {MaxCreds, MaxProofs, MaxKeys} \subseteq Nat
  BY PassportAssumption
<1>6. made \in [creds : 0..MaxCreds, proofs : 0..MaxProofs, keys : 0..MaxKeys, retries : Nat]
  <2>1. 0 \in 0..MaxCreds /\ 1 \in 0..MaxCreds /\ 0 \in 0..MaxProofs /\ 1 \in 0..MaxProofs
        /\ 0 \in 0..MaxKeys /\ 1 \in 0..MaxKeys
    BY <1>5
  <2>2. \/ made = [creds |-> 0, proofs |-> 0, keys |-> 0, retries |-> 0]
        \/ made = [creds |-> 1, proofs |-> 1, keys |-> 0, retries |-> 0]
        \/ made = [creds |-> 1, proofs |-> 1, keys |-> 1, retries |-> 0]
    BY DEF PassportInit, New
  <2>3. QED
    BY <2>1, <2>2
<1>7. key \in KeyOrNone /\ clicks \in 0..MaxClicks
  BY <1>5 DEF PassportInit, KeyOrNone
<1>8. StoresOK
  BY <1>6, <1>7 DEF PassportInit, StoresOK, ProofOrNone
<1>9. QED
  BY <1>1, <1>2, <1>4, <1>8 DEF PassportInv

\* A render keeps the hooks' types.
LEMMA CommitKeepsHooks ==
    ASSUME HooksOK, NEW c \in CredOrNone, NEW p \in ProofOrNone,
           NEW l \in {"none", "ready", "consumed", "invalid"}, NEW w \in SUBSET syncs,
           Commit(c, p, l, w)
    PROVE  HooksOK'
BY DEF HooksOK, Commit, ProofOrNone

\* A step that changes one handler to one that is ready.
LEMMA OneHandler ==
    ASSUME HandlersOK, NEW f \in Flows, NEW r \in Handler, Ready(r),
           flow' = [flow EXCEPT ![f] = r]
    PROVE  HandlersOK'
BY DEF HandlersOK

LEMMA StopOK == ASSUME HandlersOK, NEW f \in Flows, Stop(f) PROVE HandlersOK'
BY IdleIsHandler, OneHandler DEF Stop

\* A handler that goes on to a step it is ready for.
LEMMA GoOK ==
    ASSUME HandlersOK, NEW f \in Flows, NEW pc \in Pcs, Go(f, pc),
           Ready([flow[f] EXCEPT !.pc = pc])
    PROVE  HandlersOK'
<1>1. [flow[f] EXCEPT !.pc = pc] \in Handler
  BY DEF HandlersOK, Handler
<1>2. QED
  BY <1>1, OneHandler DEF Go

\* The handler whose step it is.
LEMMA HandlerFields ==
    ASSUME HandlersOK, NEW f \in Flows
    PROVE  /\ flow[f] \in Handler /\ Ready(flow[f])
           /\ flow[f].pc \in Pcs /\ flow[f].cred \in CredOrNone
           /\ flow[f].asset \in Assets /\ flow[f].tries \in 1..MaxTries
           /\ flow[f].proof \in ProofOrNone /\ flow[f].use \in ProofOrNone
           /\ flow[f].click \in 0..MaxClicks /\ flow[f].key \in KeyOrNone
BY DEF HandlersOK, Handler

LEMMA TxIsTx ==
    ASSUME HandlersOK, NEW f \in Flows, flow[f].pc \in Submitting
    PROVE  /\ Tx(f) \in Txs /\ Tx(f).use = flow[f].use /\ Tx(f).job = flow[f].job
           /\ Tx(f).job = "install" => Tx(f).key \in 1..MaxKeys
<1>1. flow[f].use \in Proofs /\ flow[f].job \in Jobs
      /\ (flow[f].job = "install" => flow[f].key \in 1..MaxKeys)
  BY DEF HandlersOK, Ready, Submitting, Using
<1>2. QED
  BY <1>1, HandlerFields DEF Tx, Txs, KeyOrNone

LEMMA MatchedIsProof ==
    ASSUME NEW p \in ProofOrNone, NEW c, Matches(p, c)
    PROVE  p \in Proofs /\ c # 0
BY DEF Matches, ProofOrNone

\* The steps of the network, the user and React that no handler makes.
LEMMA SyncAnswerKeepsInv ==
    ASSUME PassportInv, NEW s \in syncs, SyncAnswer(s)
    PROVE  PassportInv'
<1>1. PICK seen \in {FALSE, s.proof # None /\ IsSpent(s.proof)} :
          LET a == Synced(s, seen)
          IN  Commit(cred, IF a = "consumed" THEN None ELSE proof, a, syncs \ {s})
  BY DEF SyncAnswer
<1>2. Synced(s, seen) \in {"none", "ready", "consumed", "invalid"}
  BY DEF Synced
<1>3. HooksOK'
  <2> DEFINE l == Synced(s, seen)
             p == IF l = "consumed" THEN None ELSE proof
             w == syncs \ {s}
  <2>1. /\ HooksOK /\ cred \in CredOrNone /\ p \in ProofOrNone /\ w \in SUBSET syncs
        /\ l \in {"none", "ready", "consumed", "invalid"}
    BY <1>2 DEF PassportInv, HooksOK, ProofOrNone
  <2>2. Commit(cred, p, l, w)
    BY <1>1
  <2> HIDE DEF p, l, w
  <2>3. QED
    BY <2>1, <2>2, CommitKeepsHooks
<1>4. HandlersOK' /\ ChainOK' /\ StoresOK'
  BY DEF SyncAnswer, PassportInv, HandlersOK, ChainOK, StoresOK, chainVars, doneVars, runVars
<1>5. QED
  BY <1>3, <1>4 DEF PassportInv

LEMMA LandKeepsInv ==
    ASSUME PassportInv, NEW t \in net, Land(t)
    PROVE  PassportInv'
<1>1. t \in Txs /\ (t.job = "install" => t.key \in 1..MaxKeys)
  BY DEF PassportInv, ChainOK
<1>2. t.use \in Proofs /\ Nullifier(t.use) \in (1..MaxCreds) \X Assets
  BY <1>1 DEF Txs, Nullifier, Proofs
<1>3. ChainOK'
  BY <1>1, <1>2 DEF Land, PassportInv, ChainOK, ProofOrNone
<1>4. HandlersOK' /\ HooksOK' /\ StoresOK'
  BY DEF Land, PassportInv, HandlersOK, HooksOK, StoresOK, hookVars, doneVars, runVars
<1>5. QED
  BY <1>3, <1>4 DEF PassportInv

LEMMA ForgetKeepsHooks ==
    ASSUME HooksOK, Forget
    PROVE  HooksOK' /\ cache' = None
<1>1. 0 \in CredOrNone /\ None \in ProofOrNone
  BY PassportAssumption DEF CredOrNone, ProofOrNone
<1>2. QED
  BY <1>1, CommitKeepsHooks DEF Forget

LEMMA UserKeepsInv ==
    ASSUME PassportInv, BeginRecovery \/ RevokeSession \/ Reload
    PROVE  PassportInv'
<1>1. clicks < MaxClicks => clicks + 1 \in 0..MaxClicks
  BY PassportAssumption DEF PassportInv, StoresOK
<1>2. CASE BeginRecovery
  <2>1. HooksOK' /\ cache' = None
    BY <1>2, ForgetKeepsHooks DEF BeginRecovery, PassportInv
  <2>2. HandlersOK' /\ ChainOK' /\ StoresOK'
    BY <1>1, <1>2, <2>1 DEF BeginRecovery, PassportInv, HandlersOK, ChainOK, StoresOK,
       chainVars, doneVars, ProofOrNone
  <2>3. QED
    BY <2>1, <2>2 DEF PassportInv
<1>3. CASE RevokeSession
  BY <1>1, <1>3 DEF RevokeSession, PassportInv, HandlersOK, HooksOK, ChainOK, StoresOK,
     chainVars, hookVars, doneVars, KeyOrNone
<1>4. CASE Reload
  <2>1. HandlersOK'
    BY <1>4, IdleIsHandler DEF Reload, HandlersOK
  <2>2. HooksOK'
    BY <1>4 DEF Reload, PassportInv, HooksOK
  <2>3. ChainOK' /\ StoresOK'
    BY <1>1, <1>4 DEF Reload, PassportInv, ChainOK, StoresOK, chainVars, doneVars, ProofOrNone
  <2>4. QED
    BY <2>1, <2>2, <2>3 DEF PassportInv
<1>5. QED
  BY <1>2, <1>3, <1>4

LEMMA ClickKeepsInv ==
    ASSUME PassportInv, NEW f \in Flows, NEW k \in Kinds, NEW a \in Assets, Click(f, k, a)
    PROVE  PassportInv'
<1> DEFINE step == FirstStep(k, a)
           uses == step \in {"fresh", "bindcheck"}
           new  == [Idle EXCEPT !.pc = step, !.kind = k, !.asset = a, !.cred = cred,
                                !.proof = proof, !.use = IF uses THEN proof ELSE None,
                                !.click = clicks + 1]
<1>1. flow' = [flow EXCEPT ![f] = new] /\ MayStart(k, a)
  BY DEF Click
<1>2. clicks + 1 \in 0..MaxClicks
  BY PassportAssumption DEF Click, PassportInv, StoresOK
<1>3. step \in {"ask", "bindcheck", "fresh", "check"}
  BY DEF FirstStep
<1>4. uses => Matches(proof, cred)
  BY <1>1 DEF FirstStep, MayStart, Shown
<1>5. step = "check" => cred # 0
  BY <1>1, PassportAssumption DEF FirstStep, MayStart, MaySend, MayInvest, Settling
<1>6. cred \in CredOrNone /\ proof \in ProofOrNone
  BY DEF PassportInv, HooksOK
<1>7. uses => proof \in Proofs
  BY <1>4, <1>6, MatchedIsProof
<1>8. new \in Handler
  <2> DEFINE use   == IF uses THEN proof ELSE None
             click == clicks + 1
  <2>1. step \in Pcs /\ use \in ProofOrNone /\ click \in 0..MaxClicks /\ k \in Kinds \cup {None}
    BY <1>2, <1>3, <1>6 DEF Pcs, ProofOrNone
  <2> HIDE DEF step, use, click
  <2>2. [Idle EXCEPT !.pc = step, !.kind = k, !.asset = a, !.cred = cred, !.proof = proof,
                     !.use = use, !.click = click] \in Handler
    BY <1>6, <2>1, IdleIsHandler DEF Handler
  <2>3. QED
    BY <2>2 DEF use, click
<1>9. Ready(new)
  BY <1>3, <1>5, <1>7, NoneAssumption DEF Ready, Idle, Proving, Using, Submitting, Jobs
<1>10. HandlersOK'
  BY <1>1, <1>8, <1>9, OneHandler DEF PassportInv
<1>11. HooksOK' /\ ChainOK' /\ StoresOK'
  BY <1>2 DEF Click, PassportInv, HooksOK, ChainOK, StoresOK, chainVars, hookVars, doneVars
<1>12. QED
  BY <1>10, <1>11 DEF PassportInv

-----------------------------------------------------------------------------
(* The steps of a handler.                                                 *)

\* A handler that stops, having changed nothing else.
LEMMA ThrowKeepsInv ==
    ASSUME PassportInv, NEW f \in Flows, Throw(f)
    PROVE  PassportInv'
BY StopOK DEF Throw, PassportInv, HooksOK, ChainOK, StoresOK, chainVars, hookVars, doneVars

LEMMA ResyncKeepsInv ==
    ASSUME PassportInv, NEW f \in Flows, Resync(f)
    PROVE  PassportInv'
<1>1. HandlersOK'
  BY StopOK DEF Resync, PassportInv
<1>2. HooksOK'
  BY HandlerFields DEF Resync, PassportInv, HooksOK
<1>3. ChainOK' /\ StoresOK'
  BY DEF Resync, PassportInv, ChainOK, StoresOK, chainVars, doneVars
<1>4. QED
  BY <1>1, <1>2, <1>3 DEF PassportInv

LEMMA IssueKeepsInv ==
    ASSUME PassportInv, NEW f \in Flows, Issue(f)
    PROVE  PassportInv'
<1>1. made.creds + 1 \in 0..MaxCreds /\ made' = [made EXCEPT !.creds = made.creds + 1]
  BY PassportAssumption DEF Issue, PassportInv, StoresOK
<1>2. HooksOK'
  BY <1>1, CommitKeepsHooks DEF Issue, PassportInv, CredOrNone, ProofOrNone
<1>3. made' \in [creds : 0..MaxCreds, proofs : 0..MaxProofs, keys : 0..MaxKeys, retries : Nat]
  BY <1>1 DEF PassportInv, StoresOK
<1>4. HandlersOK'
  BY StopOK DEF Issue, PassportInv
<1>5. ChainOK' /\ StoresOK'
  BY <1>3 DEF Issue, PassportInv, ChainOK, StoresOK, chainVars, doneVars
<1>6. QED
  BY <1>2, <1>4, <1>5 DEF PassportInv

\* A handler that goes on, having changed nothing else.
LEMMA GoKeepsInv ==
    ASSUME PassportInv, NEW f \in Flows, NEW pc \in Pcs, Go(f, pc),
           Ready([flow[f] EXCEPT !.pc = pc]),
           UNCHANGED <<chainVars, hookVars, doneVars, cache, key, line, clicks, made>>
    PROVE  PassportInv'
<1>1. HandlersOK'
  BY GoOK DEF PassportInv
<1>2. QED
  BY <1>1 DEF PassportInv, HooksOK, ChainOK, StoresOK, chainVars, hookVars, doneVars

LEMMA CheckKeepsInv ==
    ASSUME PassportInv, NEW f \in Flows, Check(f)
    PROVE  PassportInv'
<1>1. flow[f] \in Handler /\ Ready(flow[f]) /\ flow[f].pc = "check"
  BY HandlerFields DEF Check, At, PassportInv
<1>2. PICK pc \in {"recheck", "roots"} : Go(f, pc)
  BY DEF Check
<1>3. Ready([flow[f] EXCEPT !.pc = pc]) /\ pc \in Pcs
  BY <1>1, <1>2 DEF Ready, Handler, Proving, Using, Submitting, Pcs
<1>4. QED
  BY <1>2, <1>3, GoKeepsInv DEF Check

LEMMA RecheckKeepsInv ==
    ASSUME PassportInv, NEW f \in Flows, Recheck(f)
    PROVE  PassportInv'
<1>1. CASE ScopeSpent(f)
  <2>1. HooksOK'
    BY <1>1, CommitKeepsHooks DEF Recheck, PassportInv, HooksOK, ProofOrNone
  <2>2. HandlersOK'
    BY <1>1, StopOK DEF Recheck, PassportInv
  <2>3. ChainOK' /\ StoresOK'
    BY <1>1 DEF Recheck, PassportInv, ChainOK, StoresOK, chainVars, doneVars, ProofOrNone
  <2>4. QED
    BY <2>1, <2>2, <2>3 DEF PassportInv
<1>2. CASE ~ScopeSpent(f)
  <2>1. flow[f] \in Handler /\ Ready(flow[f]) /\ flow[f].pc = "recheck"
    BY HandlerFields DEF Recheck, At, PassportInv
  <2>2. Ready([flow[f] EXCEPT !.pc = "roots"]) /\ "roots" \in Pcs
    BY <2>1 DEF Ready, Handler, Proving, Using, Submitting, Pcs
  <2>3. QED
    BY <1>2, <2>2, GoKeepsInv DEF Recheck
<1>3. QED
  BY <1>1, <1>2

LEMMA RootsKeepsInv ==
    ASSUME PassportInv, NEW f \in Flows, Roots(f)
    PROVE  PassportInv'
<1>1. flow[f] \in Handler /\ Ready(flow[f]) /\ flow[f].pc = "roots" /\ HandlersOK
  BY HandlerFields DEF Roots, At, PassportInv
<1>2. HooksOK'
  <2>1. CASE Commit(flow[f].cred, proof, life, syncs)
    BY <2>1, <1>1, CommitKeepsHooks DEF PassportInv, HooksOK, Handler
  <2>2. CASE UNCHANGED hookVars
    BY <2>2 DEF PassportInv, HooksOK, hookVars
  <2>3. QED
    BY <2>1, <2>2 DEF Roots
<1>3. HandlersOK'
  <2>1. CASE Stop(f)
    BY <2>1, <1>1, StopOK
  <2>2. CASE Go(f, "prove")
    <3>1. Ready([flow[f] EXCEPT !.pc = "prove"]) /\ "prove" \in Pcs
      BY <1>1 DEF Ready, Handler, Proving, Using, Submitting, Pcs
    <3>2. QED
      BY <2>2, <3>1, <1>1, GoOK
  <2>3. CASE KeepsProof(f)
             /\ flow' = [flow EXCEPT ![f].pc = "fresh", ![f].use = flow[f].proof]
    <3> DEFINE new == [flow[f] EXCEPT !.pc = "fresh", !.use = flow[f].proof]
    <3>1. flow[f].proof \in Proofs
      BY <2>3, <1>1, MatchedIsProof DEF KeepsProof, Handler
    <3>2. new \in Handler
      BY <3>1, <1>1 DEF Handler, Pcs, ProofOrNone
    <3>3. Ready(new)
      BY <3>1, <1>1, NoneAssumption DEF Ready, Handler, Proving, Using, Submitting, Jobs
    <3>4. flow' = [flow EXCEPT ![f] = new]
      BY <2>3, <1>1 DEF HandlersOK
    <3>5. QED
      BY <3>2, <3>3, <3>4, <1>1, OneHandler
  <2>4. QED
    BY <2>1, <2>2, <2>3 DEF Roots
<1>4. ChainOK' /\ StoresOK'
  BY DEF Roots, PassportInv, ChainOK, StoresOK, chainVars, doneVars
<1>5. QED
  BY <1>2, <1>3, <1>4 DEF PassportInv

LEMMA ProveKeepsInv ==
    ASSUME PassportInv, NEW f \in Flows, Prove(f)
    PROVE  PassportInv'
<1> DEFINE p == [cred |-> flow[f].cred, asset |-> flow[f].asset, no |-> made.proofs + 1]
           new == [flow[f] EXCEPT !.pc = "fresh", !.use = p]
<1>1. flow[f] \in Handler /\ Ready(flow[f]) /\ flow[f].pc = "prove" /\ HandlersOK
  BY HandlerFields DEF Prove, At, PassportInv
<1>2. /\ Commit(flow[f].cred, p, "ready", syncs)
      /\ \/ flow' = [flow EXCEPT ![f].pc = "fresh", ![f].use = p]
         \/ Stop(f)
      /\ made' = [made EXCEPT !.proofs = made.proofs + 1] /\ cache' = None
  BY DEF Prove
<1>3. made.proofs + 1 \in 1..MaxProofs
  BY PassportAssumption DEF Prove, PassportInv, StoresOK
<1>4. flow[f].cred \in 1..MaxCreds /\ flow[f].cred \in CredOrNone
      /\ flow[f].asset \in Assets /\ flow[f].job = None
  BY <1>1, PassportAssumption DEF Ready, Proving, Handler, CredOrNone
<1>5. p \in Proofs
  BY <1>3, <1>4 DEF Proofs
<1>6. HooksOK'
  BY <1>2, <1>4, <1>5, CommitKeepsHooks DEF PassportInv, ProofOrNone
<1>7. HandlersOK'
  <2>1. CASE flow' = [flow EXCEPT ![f].pc = "fresh", ![f].use = p]
    <3>1. new \in Handler
      BY <1>1, <1>5 DEF Handler, Pcs, ProofOrNone
    <3>2. Ready(new)
      BY <1>1, <1>4, <1>5, NoneAssumption DEF Ready, Handler, Proving, Using, Submitting, Jobs
    <3>3. flow' = [flow EXCEPT ![f] = new]
      BY <2>1
    <3>4. QED
      BY <1>1, <3>1, <3>2, <3>3, OneHandler
  <2>2. QED
    BY <2>1, <1>1, <1>2, StopOK
<1>8. made' \in [creds : 0..MaxCreds, proofs : 0..MaxProofs, keys : 0..MaxKeys, retries : Nat]
  BY <1>2, <1>3 DEF PassportInv, StoresOK
<1>9. ChainOK' /\ StoresOK'
  BY <1>2, <1>8 DEF Prove, PassportInv, ChainOK, StoresOK, chainVars, doneVars, ProofOrNone
<1>10. QED
  BY <1>6, <1>7, <1>9 DEF PassportInv

LEMMA FreshKeepsInv ==
    ASSUME PassportInv, NEW f \in Flows, Fresh(f)
    PROVE  PassportInv'
<1>1. flow[f] \in Handler /\ Ready(flow[f]) /\ flow[f].pc = "fresh"
  BY HandlerFields DEF Fresh, At, PassportInv
<1>2. CASE Resync(f)
  BY <1>2, ResyncKeepsInv
<1>3. ASSUME NEW pc \in {"bindcheck", "gate"}, Go(f, pc),
             UNCHANGED <<chainVars, hookVars, doneVars, cache, key, line, clicks, made>>
      PROVE  PassportInv'
  <2>1. Ready([flow[f] EXCEPT !.pc = pc]) /\ pc \in Pcs
    BY <1>1 DEF Ready, Handler, Proving, Using, Submitting, Pcs
  <2>2. QED
    BY <1>3, <2>1, GoKeepsInv
<1>4. QED
  BY <1>2, <1>3 DEF Fresh

LEMMA SpentCheckKeepsInv ==
    ASSUME PassportInv, NEW f \in Flows, SpentCheck(f)
    PROVE  PassportInv'
<1>1. flow[f] \in Handler /\ Ready(flow[f]) /\ flow[f].pc = "spentcheck"
  BY HandlerFields DEF SpentCheck, At, PassportInv
<1>2. CASE IsSpent(flow[f].use)
  <2>1. HooksOK' /\ cache' = None
    BY <1>2, ForgetKeepsHooks DEF SpentCheck, PassportInv
  <2>2. HandlersOK'
    BY <1>2, StopOK DEF SpentCheck, PassportInv
  <2>3. ChainOK' /\ StoresOK'
    BY <2>1 DEF SpentCheck, PassportInv, ChainOK, StoresOK, chainVars, doneVars, ProofOrNone
  <2>4. QED
    BY <2>1, <2>2, <2>3 DEF PassportInv
<1>3. CASE ~IsSpent(flow[f].use)
  <2>1. Ready([flow[f] EXCEPT !.pc = "gate"]) /\ "gate" \in Pcs
    BY <1>1 DEF Ready, Handler, Proving, Using, Submitting, Pcs
  <2>2. QED
    BY <1>3, <2>1, GoKeepsInv DEF SpentCheck
<1>4. QED
  BY <1>2, <1>3

LEMMA GateKeepsInv ==
    ASSUME PassportInv, NEW f \in Flows, Gate(f)
    PROVE  PassportInv'
<1> DEFINE new == [flow[f] EXCEPT !.pc = "bindcheck", !.gated = TRUE]
<1>1. flow[f] \in Handler /\ Ready(flow[f]) /\ flow[f].pc = "gate" /\ HandlersOK
  BY HandlerFields DEF Gate, At, PassportInv
<1>2. new \in Handler
  BY <1>1 DEF Handler, Pcs
<1>3. Ready(new)
  BY <1>1 DEF Ready, Handler, Proving, Using, Submitting
<1>4. HandlersOK'
  BY <1>1, <1>2, <1>3, OneHandler DEF Gate
<1>5. HooksOK' /\ ChainOK' /\ StoresOK'
  BY DEF Gate, PassportInv, HooksOK, ChainOK, StoresOK, chainVars, hookVars, doneVars
<1>6. QED
  BY <1>4, <1>5 DEF PassportInv

\* A handler whose proof is bound goes on, and so does one that must bind it.
LEMMA AfterBindOK ==
    ASSUME HandlersOK, NEW f \in Flows, flow[f].pc \in {"bindcheck", "wait"}, AfterBind(f)
    PROVE  HandlersOK'
<1>1. flow[f] \in Handler /\ Ready(flow[f]) /\ flow[f].use \in Proofs
  BY HandlerFields DEF Ready, Using, Submitting
<1>2. CASE Stop(f)
  BY <1>2, StopOK
<1>3. ASSUME NEW pc \in {"open", "spentcheck"}, Go(f, pc) PROVE HandlersOK'
  <2>1. Ready([flow[f] EXCEPT !.pc = pc]) /\ pc \in Pcs
    BY <1>1 DEF Ready, Handler, Proving, Using, Submitting, Pcs
  <2>2. QED
    BY <1>3, <2>1, GoOK
<1>4. CASE flow' = [flow EXCEPT ![f].pc = "submit", ![f].job = "settle", ![f].tries = 1]
  <2> DEFINE new == [flow[f] EXCEPT !.pc = "submit", !.job = "settle", !.tries = 1]
  <2>1. new \in Handler
    BY <1>1, Tries DEF Handler, Pcs, Jobs
  <2>2. new.pc = "submit" /\ new.use = flow[f].use /\ new.job = "settle"
    BY <1>1 DEF Handler
  <2>3. Ready(new)
    BY <1>1, <2>2 DEF Ready, Proving, Using, Submitting, Jobs
  <2>4. QED
    BY <1>4, <2>1, <2>3, OneHandler
<1>5. QED
  BY <1>2, <1>3, <1>4 DEF AfterBind

LEMMA ToBindOK ==
    ASSUME HandlersOK, NEW f \in Flows, flow[f].pc = "bindcheck", ToBind(f)
    PROVE  HandlersOK'
<1> DEFINE new == [flow[f] EXCEPT !.pc = "submit", !.job = "bind", !.tries = 1]
<1>1. flow[f] \in Handler /\ Ready(flow[f]) /\ flow[f].use \in Proofs
  BY HandlerFields DEF Ready, Using
<1>2. new \in Handler
  BY <1>1, Tries DEF Handler, Pcs, Jobs
<1>3. new.pc = "submit" /\ new.use = flow[f].use /\ new.job = "bind"
  BY <1>1 DEF Handler
<1>4. Ready(new)
  BY <1>1, <1>3 DEF Ready, Proving, Using, Submitting, Jobs
<1>5. QED
  BY <1>2, <1>4, OneHandler DEF ToBind

LEMMA BindCheckKeepsInv ==
    ASSUME PassportInv, NEW f \in Flows, BindCheck(f)
    PROVE  PassportInv'
<1>1. flow[f] \in Handler /\ Ready(flow[f]) /\ flow[f].pc = "bindcheck" /\ HandlersOK
  BY HandlerFields DEF BindCheck, At, PassportInv
<1>2. HandlersOK'
  BY <1>1, AfterBindOK, ToBindOK DEF BindCheck
<1>3. flow[f].use \in ProofOrNone
  BY <1>1 DEF Handler
<1>4. cache' \in ProofOrNone
  BY <1>3 DEF BindCheck, PassportInv, StoresOK
<1>5. HooksOK' /\ ChainOK' /\ StoresOK'
  BY <1>4 DEF BindCheck, PassportInv, HooksOK, ChainOK, StoresOK, chainVars, hookVars, doneVars
<1>6. QED
  BY <1>2, <1>5 DEF PassportInv

LEMMA OpenSessionKeepsInv ==
    ASSUME PassportInv, NEW f \in Flows, OpenSession(f)
    PROVE  PassportInv'
<1> DEFINE new == [flow[f] EXCEPT !.pc = "submit", !.job = "install", !.key = key',
                                  !.tries = MaxTries]
<1>1. flow[f] \in Handler /\ Ready(flow[f]) /\ flow[f].pc = "open" /\ HandlersOK
      /\ flow[f].use \in Proofs
  BY HandlerFields DEF OpenSession, At, PassportInv, Ready, Using
<1>2. key' \in 1..MaxKeys
      /\ made' \in [creds : 0..MaxCreds, proofs : 0..MaxProofs, keys : 0..MaxKeys, retries : Nat]
  <2>1. CASE key = None
    <3>1. made.keys + 1 \in 1..MaxKeys /\ made' = [made EXCEPT !.keys = made.keys + 1]
          /\ key' = made.keys + 1
      BY <2>1, PassportAssumption DEF OpenSession, PassportInv, StoresOK
    <3>2. QED
      BY <3>1 DEF PassportInv, StoresOK
  <2>2. CASE key # None
    BY <2>2 DEF OpenSession, PassportInv, StoresOK, KeyOrNone
  <2>3. QED
    BY <2>1, <2>2
<1>3. HandlersOK'
  <2>1. CASE Stop(f)
    BY <2>1, <1>1, StopOK
  <2>2. CASE flow' = [flow EXCEPT ![f].pc = "submit", ![f].job = "install",
                                  ![f].key = key', ![f].tries = MaxTries]
    <3>1. new \in Handler
      BY <1>1, <1>2, Tries DEF Handler, Pcs, Jobs, KeyOrNone
    <3>2. new.pc = "submit" /\ new.use = flow[f].use /\ new.job = "install" /\ new.key = key'
      BY <1>1 DEF Handler
    <3>3. Ready(new)
      BY <1>1, <1>2, <3>2 DEF Ready, Proving, Using, Submitting, Jobs
    <3>4. flow' = [flow EXCEPT ![f] = new]
      BY <2>2
    <3>5. QED
      BY <1>1, <3>1, <3>3, <3>4, OneHandler
  <2>3. QED
    BY <2>1, <2>2 DEF OpenSession
<1>4. HooksOK' /\ ChainOK' /\ StoresOK'
  BY <1>2 DEF OpenSession, PassportInv, HooksOK, ChainOK, StoresOK, chainVars, hookVars, doneVars,
     KeyOrNone
<1>5. QED
  BY <1>3, <1>4 DEF PassportInv

\* A handler that goes on from one step of its submission to another.
LEMMA SubmissionGoOK ==
    ASSUME HandlersOK, NEW f \in Flows, flow[f].pc \in Submitting,
           NEW pc \in Submitting, Go(f, pc)
    PROVE  HandlersOK'
<1>1. flow[f] \in Handler /\ Ready(flow[f])
  BY HandlerFields
<1>2. Ready([flow[f] EXCEPT !.pc = pc]) /\ pc \in Pcs
  BY <1>1 DEF Ready, Handler, Proving, Using, Submitting, Pcs
<1>3. QED
  BY <1>2, GoOK

LEMMA SubmitKeepsInv ==
    ASSUME PassportInv, NEW f \in Flows, Submit(f)
    PROVE  PassportInv'
<1>1. HandlersOK'
  BY SubmissionGoOK DEF Submit, At, PassportInv, Submitting
<1>2. line' \in Seq(Flows)
  <2>1. line \in Seq(Flows) /\ (line' = line \/ line' = Append(line, f))
    BY DEF Submit, Ask, PassportInv, StoresOK
  <2>2. QED
    BY <2>1
<1>3. HooksOK' /\ ChainOK' /\ StoresOK'
  BY <1>2 DEF Submit, PassportInv, HooksOK, ChainOK, StoresOK, chainVars, hookVars, doneVars
<1>4. QED
  BY <1>1, <1>3 DEF PassportInv

LEMMA AnswerKeepsInv ==
    ASSUME PassportInv, NEW f \in Flows, Answer(f)
    PROVE  PassportInv'
<1>1. HandlersOK'
  BY SubmissionGoOK, StopOK DEF Answer, At, PassportInv, Submitting
<1>2. line' \in Seq(Flows)
  BY DEF Answer, PassportInv, StoresOK
<1>3. HooksOK' /\ ChainOK' /\ StoresOK'
  BY <1>2 DEF Answer, PassportInv, HooksOK, ChainOK, StoresOK, chainVars, hookVars, doneVars
<1>4. QED
  BY <1>1, <1>3 DEF PassportInv

LEMMA AgainOK ==
    ASSUME HandlersOK, StoresOK, NEW f \in Flows, flow[f].pc = "send", Again(f)
    PROVE  /\ HandlersOK'
           /\ made' \in [creds : 0..MaxCreds, proofs : 0..MaxProofs, keys : 0..MaxKeys,
                         retries : Nat]
<1>1. flow[f] \in Handler /\ Ready(flow[f])
  BY HandlerFields
<1>2. CASE flow[f].tries < MaxTries /\ made.retries < MaxRetries
  <2> DEFINE new == [flow[f] EXCEPT !.pc = "submit", !.tries = flow[f].tries + 1]
  <2>1. flow' = [flow EXCEPT ![f] = new] /\ made' = [made EXCEPT !.retries = made.retries + 1]
    BY <1>2 DEF Again
  <2>2. flow[f].tries + 1 \in 1..MaxTries
    BY <1>1, <1>2, PassportAssumption DEF Handler
  <2>3. new \in Handler
    BY <1>1, <2>2 DEF Handler, Pcs
  <2>4. Ready(new)
    BY <1>1 DEF Handler, Ready, Proving, Using, Submitting
  <2>5. HandlersOK'
    BY <2>1, <2>3, <2>4, OneHandler
  <2>6. QED
    BY <2>1, <2>5 DEF StoresOK
<1>3. CASE ~(flow[f].tries < MaxTries /\ made.retries < MaxRetries)
  BY <1>3, StopOK DEF Again, StoresOK
<1>4. QED
  BY <1>2, <1>3

LEMMA SendKeepsInv ==
    ASSUME PassportInv, NEW f \in Flows, Send(f)
    PROVE  PassportInv'
<1>1. flow[f].pc = "send" /\ flow[f].pc \in Submitting /\ HandlersOK /\ StoresOK
  BY DEF Send, At, PassportInv, Submitting
<1>2. HandlersOK' /\ made' \in [creds : 0..MaxCreds, proofs : 0..MaxProofs, keys : 0..MaxKeys,
                               retries : Nat]
  <2>1. CASE Go(f, "wait") /\ UNCHANGED made
    BY <2>1, <1>1, SubmissionGoOK DEF Submitting, StoresOK
  <2>2. CASE Again(f)
    BY <2>2, <1>1, AgainOK
  <2>3. QED
    BY <2>1, <2>2 DEF Send
<1>3. net' \subseteq net \cup {Tx(f)}
  BY DEF Send
<1>4. ChainOK'
  BY <1>1, <1>3, TxIsTx DEF Send, PassportInv, ChainOK
<1>5. HooksOK' /\ StoresOK'
  BY <1>2 DEF Send, PassportInv, HooksOK, StoresOK, hookVars, doneVars
<1>6. QED
  BY <1>2, <1>4, <1>5 DEF PassportInv

LEMMA SucceedKeepsInv ==
    ASSUME PassportInv, NEW f \in Flows, flow[f].pc = "wait", Succeed(f)
    PROVE  PassportInv'
<1>1. flow[f] \in Handler /\ flow[f].use \in ProofOrNone /\ flow[f].job \in Jobs /\ HandlersOK
  BY HandlerFields DEF PassportInv, Ready, Submitting
<1>2. AfterBind(f) \/ Stop(f) \/ Go(f, "record")
  BY <1>1 DEF Succeed, Jobs
<1>3. HandlersOK'
  BY <1>1, <1>2, AfterBindOK, StopOK, SubmissionGoOK DEF Submitting
<1>4. cache' \in ProofOrNone
  BY <1>1 DEF Succeed, PassportInv, StoresOK
<1>5. HooksOK' /\ ChainOK' /\ StoresOK'
  BY <1>4 DEF Succeed, PassportInv, HooksOK, ChainOK, StoresOK, chainVars, hookVars, doneVars
<1>6. QED
  BY <1>3, <1>5 DEF PassportInv

LEMMA RecordKeepsInv ==
    ASSUME PassportInv, NEW f \in Flows, Record(f)
    PROVE  PassportInv'
<1>1. flow[f].pc = "record" /\ HandlersOK
  BY DEF Record, At, PassportInv
<1>2. HooksOK'
  BY CommitKeepsHooks DEF Record, PassportInv, HooksOK, ProofOrNone
<1>3. HandlersOK'
  BY <1>1, StopOK DEF Record
<1>4. Tx(f) \in Txs /\ flow[f].proof \in ProofOrNone
  BY <1>1, TxIsTx, HandlerFields DEF Submitting
<1>5. ChainOK' /\ StoresOK'
  BY <1>4 DEF Record, PassportInv, ChainOK, StoresOK, chainVars, ProofOrNone
<1>6. QED
  BY <1>2, <1>3, <1>5 DEF PassportInv

LEMMA StepKeepsInv ==
    ASSUME PassportInv, NEW f \in Flows, Step(f)
    PROVE  PassportInv'
<1>1. CASE Refuse(f) \/ MayThrow(f)
  BY <1>1, ResyncKeepsInv, ThrowKeepsInv DEF Refuse, MayThrow
<1>2. CASE Await(f)
  BY <1>2, SucceedKeepsInv, ThrowKeepsInv DEF Await, At
<1>3. QED
  BY <1>1, <1>2, IssueKeepsInv, CheckKeepsInv, RecheckKeepsInv, RootsKeepsInv, ProveKeepsInv,
     FreshKeepsInv, SpentCheckKeepsInv, GateKeepsInv, BindCheckKeepsInv, OpenSessionKeepsInv,
     SubmitKeepsInv, AnswerKeepsInv, SendKeepsInv, RecordKeepsInv
  DEF Step

LEMMA PassportInvNext == PassportInv /\ [PassportNext]_passportVars => PassportInv'
<1> SUFFICES ASSUME PassportInv, [PassportNext]_passportVars PROVE PassportInv'
  OBVIOUS
<1>1. CASE UNCHANGED passportVars
  BY <1>1 DEF passportVars, PassportInv, HandlersOK, HooksOK, ChainOK, StoresOK,
     chainVars, hookVars, doneVars, runVars
<1>2. QED
  BY <1>1, StepKeepsInv, ClickKeepsInv, SyncAnswerKeepsInv, LandKeepsInv, UserKeepsInv
  DEF PassportNext

\* A handler of a passport only ever acts on what it has: a proof once it is past
\* proving, a credential before, and a key once it installs the session's rule.
THEOREM PassportInvariant == PassportSpec => []PassportInv
BY PassportInvInit, PassportInvNext, PTL DEF PassportSpec

\* The hooks, the stores, the chain and every handler keep their types.
THEOREM PassportTypeCorrect == PassportSpec => []PassportTypeOK
BY PassportInvariant, PassportInvTypes, PTL

-----------------------------------------------------------------------------
(* One settlement of an asset per credential: what was settled is spent.   *)

SpentOnce ==
    /\ \A t \in landed : t.job = "settle" => Nullifier(t.use) \in spent
    /\ OncePerPassport

LEMMA SpentOnceInit == PassportInit => SpentOnce
BY DEF PassportInit, SpentOnce, OncePerPassport, StoredTx

LEMMA OnlyLandLands ==
    ASSUME PassportNext \/ UNCHANGED passportVars
    PROVE  \/ \E t \in net : Land(t)
           \/ landed' = landed /\ spent' = spent /\ bound' = bound
<1>1. ASSUME NEW f \in Flows, Step(f) PROVE landed' = landed /\ spent' = spent /\ bound' = bound
  BY <1>1 DEF Step, Issue, Check, Recheck, Roots, Prove, Fresh, SpentCheck, Gate, BindCheck,
     OpenSession, Submit, Answer, Send, Refuse, Await, AwaitNothing, Succeed, Record, MayThrow,
     Throw, Resync, chainVars
<1>2. QED
  BY <1>1 DEF PassportNext, Click, SyncAnswer, BeginRecovery, RevokeSession, Reload, passportVars,
     chainVars

LEMMA SpentOnceNext ==
    ASSUME PassportInv, SpentOnce, [PassportNext]_passportVars
    PROVE  SpentOnce'
<1>1. CASE landed' = landed /\ spent' = spent
  BY <1>1 DEF SpentOnce, OncePerPassport, Nullifier
<1>2. ASSUME NEW t \in net, Land(t) PROVE SpentOnce'
  <2>1. /\ landed' = landed \cup {t}
        /\ spent' = IF t.job = "settle" THEN spent \cup {Nullifier(t.use)} ELSE spent
        /\ t.job = "settle" => Nullifier(t.use) \notin spent
    BY <1>2 DEF Land, Accepts, IsSpent
  <2>2. QED
    BY <2>1 DEF SpentOnce, OncePerPassport, Nullifier
<1>3. QED
  BY <1>1, <1>2, OnlyLandLands

\* One settlement of an asset per credential: however many handlers run, however
\* often a settlement is signed anew after a lost answer, and however many proofs
\* are made of the credential (handleTransfer, handleSettle, withRetry).
THEOREM PassportSettlesOnce == PassportSpec => []OncePerPassport
<1>1. PassportInit => SpentOnce
  BY SpentOnceInit
<1>2. PassportInv /\ SpentOnce /\ [PassportNext]_passportVars => SpentOnce'
  BY SpentOnceNext
<1>3. SpentOnce => OncePerPassport
  BY DEF SpentOnce
<1>4. QED
  BY <1>1, <1>2, <1>3, PassportInvariant, PTL DEF PassportSpec

-----------------------------------------------------------------------------
(* The bind comes first, and a receipt names a transaction that was applied: *)
(* what a handler goes on with once it was answered is on the ledger.        *)

\* What a handler holds that only a bound proof lets it hold.
BoundHandler(r) == r.job \in {"install", "settle"} \/ r.pc = "open" => WasBound(r.use)

TxOf(r) == [click |-> r.click, try |-> r.tries, job |-> r.job, use |-> r.use, key |-> r.key]
AppliedHandler(r) == r.pc = "record" => TxOf(r) \in landed

Honest(r) == BoundHandler(r) /\ AppliedHandler(r)

HonestInv ==
    /\ bound # None => WasBound(bound)
    /\ cache # None => WasBound(cache)
    /\ RecordedLanded
    /\ \A f \in Flows : Honest(flow[f])

LEMMA HonestImplies == HonestInv => BoundFirst
BY DEF HonestInv, Honest, BoundHandler, BoundFirst

LEMMA HonestInit == PassportInit => HonestInv
<1> SUFFICES ASSUME PassportInit PROVE HonestInv
  OBVIOUS
<1>1. \A f \in Flows : flow[f].job = None /\ flow[f].pc = "idle"
  BY DEF PassportInit, Idle
<1>2. \A f \in Flows : Honest(flow[f])
  BY <1>1, NoneAssumption DEF Honest, BoundHandler, AppliedHandler, Jobs
<1>3. bound # None => StoredTx("bind", None) \in landed /\ bound = StoredProof
  BY DEF PassportInit
<1>4. bound # None => WasBound(bound)
  BY <1>3 DEF WasBound, StoredTx
<1>5. QED
  BY <1>2, <1>4 DEF PassportInit, HonestInv, RecordedLanded

\* A transaction that lands binds its proof, and leaves what was bound bound.
LEMMA LandKeepsHonest ==
    ASSUME PassportInv, HonestInv, NEW t \in net, Land(t)
    PROVE  HonestInv'
<1>1. /\ landed' = landed \cup {t} /\ bound' = IF t.job = "bind" THEN t.use ELSE bound
      /\ cache' = cache /\ flow' = flow /\ receipt' = receipt
  BY DEF Land, doneVars, runVars
<1>2. QED
  BY <1>1 DEF HonestInv, Honest, BoundHandler, AppliedHandler, TxOf, RecordedLanded, WasBound

\* A step of one handler that leaves the ledger alone.
LEMMA OneHonest ==
    ASSUME HandlersOK, HonestInv, NEW f \in Flows, NEW r, flow' = [flow EXCEPT ![f] = r],
           Honest(r), landed' = landed, bound' = bound, RecordedLanded',
           cache' # None => cache' = cache \/ WasBound(cache')
    PROVE  HonestInv'
BY DEF HandlersOK, HonestInv, Honest, BoundHandler, AppliedHandler, TxOf, WasBound

LEMMA IdleIsHonest == Honest(Idle)
BY NoneAssumption DEF Idle, Honest, BoundHandler, AppliedHandler, Jobs

LEMMA StopKeepsHonest ==
    ASSUME HandlersOK, HonestInv, NEW f \in Flows, Stop(f), landed' = landed, bound' = bound,
           receipt' = receipt, cache' = cache \/ cache' = None
    PROVE  HonestInv'
<1>1. RecordedLanded'
  BY DEF HonestInv, RecordedLanded
<1>2. QED
  BY <1>1, IdleIsHonest, OneHonest DEF Stop

\* A handler that goes on: to a new step with what it held.
LEMMA GoKeepsHonest ==
    ASSUME HandlersOK, HonestInv, NEW f \in Flows, NEW pc \in Pcs \ {"record", "open"},
           Go(f, pc), landed' = landed, bound' = bound, receipt' = receipt,
           cache' # None => cache' = cache \/ WasBound(cache')
    PROVE  HonestInv'
<1> DEFINE r == [flow[f] EXCEPT !.pc = pc]
<1>1. r.pc = pc /\ r.job = flow[f].job /\ r.use = flow[f].use
  BY DEF HandlersOK, Handler
<1>2. Honest(r)
  BY <1>1 DEF HonestInv, Honest, BoundHandler, AppliedHandler
<1>3. RecordedLanded'
  BY DEF HonestInv, RecordedLanded
<1>4. QED
  BY <1>2, <1>3, OneHonest DEF Go

\* A handler that is given a proof before it was asked to bind anything.
LEMMA GivenKeepsHonest ==
    ASSUME HandlersOK, HonestInv, NEW f \in Flows, flow[f].job = None, NEW p,
           flow' = [flow EXCEPT ![f].pc = "fresh", ![f].use = p],
           landed' = landed, bound' = bound, receipt' = receipt, cache' = cache \/ cache' = None
    PROVE  HonestInv'
<1> DEFINE r == [flow[f] EXCEPT !.pc = "fresh", !.use = p]
<1>1. r.pc = "fresh" /\ r.job = None
  BY DEF HandlersOK, Handler
<1>2. Honest(r)
  BY <1>1, NoneAssumption DEF Honest, BoundHandler, AppliedHandler, Jobs
<1>3. RecordedLanded'
  BY DEF HonestInv, RecordedLanded
<1>4. QED
  BY <1>2, <1>3, OneHonest

LEMMA ClickKeepsHonest ==
    ASSUME PassportInv, HonestInv, NEW f \in Flows, NEW k \in Kinds, NEW a \in Assets,
           Click(f, k, a)
    PROVE  HonestInv'
<1> DEFINE r == [Idle EXCEPT !.pc = FirstStep(k, a), !.kind = k, !.asset = a, !.cred = cred,
                          !.proof = proof, !.use = IF FirstStep(k, a) \in {"fresh", "bindcheck"}
                                                   THEN proof ELSE None,
                          !.click = clicks + 1]
<1>1. flow' = [flow EXCEPT ![f] = r] /\ r.job = None /\ r.pc = FirstStep(k, a)
  BY DEF Click, Idle
<1>2. FirstStep(k, a) \in {"ask", "bindcheck", "fresh", "check"}
  BY DEF FirstStep
<1>3. Honest(r)
  BY <1>1, <1>2, NoneAssumption DEF Honest, BoundHandler, AppliedHandler, Jobs
<1>4. landed' = landed /\ bound' = bound /\ cache' = cache /\ receipt' = receipt
  BY DEF Click, chainVars, doneVars
<1>5. RecordedLanded' /\ HandlersOK
  BY <1>4 DEF HonestInv, RecordedLanded, PassportInv
<1>6. QED
  BY <1>1, <1>3, <1>4, <1>5, OneHonest

LEMMA ReloadKeepsHonest ==
    ASSUME HonestInv, Reload
    PROVE  HonestInv'
<1>1. /\ landed' = landed /\ bound' = bound /\ cache' = None /\ receipt' = receipt
      /\ \A f \in Flows : flow'[f] = Idle
  BY DEF Reload, chainVars, doneVars
<1>2. \A f \in Flows : Honest(flow[f])'
  BY <1>1, NoneAssumption DEF Honest, BoundHandler, AppliedHandler, Idle, Jobs
<1>3. QED
  BY <1>1, <1>2 DEF HonestInv, RecordedLanded, WasBound

\* A handler whose proof is bound goes on.
LEMMA AfterBindKeepsHonest ==
    ASSUME HandlersOK, HonestInv, NEW f \in Flows, AfterBind(f), WasBound(flow[f].use),
           landed' = landed, bound' = bound, receipt' = receipt,
           cache' = cache \/ cache' = flow[f].use
    PROVE  HonestInv'
<1>1. RecordedLanded' /\ (cache' # None => cache' = cache \/ WasBound(cache'))
  BY DEF HonestInv, RecordedLanded, WasBound
<1>2. CASE Stop(f)
  BY <1>1, <1>2, IdleIsHonest, OneHonest DEF Stop
<1>3. ASSUME NEW pc \in {"open", "spentcheck"}, Go(f, pc) PROVE HonestInv'
  <2> DEFINE r == [flow[f] EXCEPT !.pc = pc]
  <2>1. r.pc = pc /\ r.use = flow[f].use
    BY DEF HandlersOK, Handler
  <2>2. Honest(r)
    BY <2>1 DEF Honest, BoundHandler, AppliedHandler
  <2>3. QED
    BY <1>1, <1>3, <2>2, OneHonest DEF Go
<1>4. CASE flow' = [flow EXCEPT ![f].pc = "submit", ![f].job = "settle", ![f].tries = 1]
  <2> DEFINE r == [flow[f] EXCEPT !.pc = "submit", !.job = "settle", !.tries = 1]
  <2>1. r.pc = "submit" /\ r.use = flow[f].use
    BY DEF HandlersOK, Handler
  <2>2. Honest(r)
    BY <2>1 DEF Honest, BoundHandler, AppliedHandler
  <2>3. QED
    BY <1>1, <1>4, <2>2, OneHonest
<1>5. QED
  BY <1>2, <1>3, <1>4 DEF AfterBind

LEMMA BindCheckKeepsHonest ==
    ASSUME PassportInv, HonestInv, NEW f \in Flows, BindCheck(f)
    PROVE  HonestInv'
<1>1. /\ HandlersOK /\ flow[f].pc = "bindcheck" /\ flow[f].use # None
      /\ landed' = landed /\ bound' = bound /\ receipt' = receipt
  BY NoneAssumption DEF BindCheck, At, PassportInv, HandlersOK, Ready, Using, chainVars, doneVars
<1>2. CASE flow[f].use \in {cache, bound} /\ AfterBind(f)
           /\ cache' = IF flow[f].kind = "enable" THEN cache ELSE flow[f].use
  <2>1. WasBound(flow[f].use)
    BY <1>1, <1>2 DEF HonestInv
  <2>2. QED
    BY <1>1, <1>2, <2>1, AfterBindKeepsHonest
<1>3. CASE ToBind(f) /\ cache' = cache
  <2> DEFINE r == [flow[f] EXCEPT !.pc = "submit", !.job = "bind", !.tries = 1]
  <2>1. r.pc = "submit" /\ r.job = "bind"
    BY <1>1 DEF HandlersOK, Handler
  <2>2. Honest(r)
    BY <2>1 DEF Honest, BoundHandler, AppliedHandler
  <2>3. RecordedLanded'
    BY <1>1 DEF HonestInv, RecordedLanded
  <2>4. flow' = [flow EXCEPT ![f] = r]
    BY <1>3 DEF ToBind
  <2>5. QED
    BY <1>1, <1>3, <2>2, <2>3, <2>4, OneHonest
<1>4. QED
  BY <1>2, <1>3 DEF BindCheck

LEMMA OpenSessionKeepsHonest ==
    ASSUME PassportInv, HonestInv, NEW f \in Flows, OpenSession(f)
    PROVE  HonestInv'
<1>1. /\ HandlersOK /\ flow[f].pc = "open" /\ WasBound(flow[f].use)
      /\ landed' = landed /\ bound' = bound /\ receipt' = receipt /\ cache' = cache
  BY DEF OpenSession, At, PassportInv, HonestInv, Honest, BoundHandler, chainVars, doneVars
<1>2. CASE Stop(f)
  BY <1>1, <1>2, StopKeepsHonest
<1>3. CASE flow' = [flow EXCEPT ![f].pc = "submit", ![f].job = "install",
                                ![f].key = key', ![f].tries = MaxTries]
  <2> DEFINE r == [flow[f] EXCEPT !.pc = "submit", !.job = "install", !.key = key',
                                  !.tries = MaxTries]
  <2>1. r.pc = "submit" /\ r.use = flow[f].use
    BY <1>1 DEF HandlersOK, Handler
  <2>2. Honest(r)
    BY <1>1, <2>1 DEF Honest, BoundHandler, AppliedHandler
  <2>3. RecordedLanded'
    BY <1>1 DEF HonestInv, RecordedLanded
  <2>4. flow' = [flow EXCEPT ![f] = r]
    BY <1>3
  <2>5. QED
    BY <1>1, <2>2, <2>3, <2>4, OneHonest
<1>4. QED
  BY <1>2, <1>3 DEF OpenSession

\* What was awaited and has landed was bound, or may be recorded.
LEMMA AwaitKeepsHonest ==
    ASSUME PassportInv, HonestInv, NEW f \in Flows, Await(f)
    PROVE  HonestInv'
<1>1. /\ HandlersOK /\ flow[f].pc = "wait" /\ flow[f].job \in Jobs
      /\ landed' = landed /\ bound' = bound /\ receipt' = receipt
  BY DEF Await, At, PassportInv, HandlersOK, Ready, Submitting, Succeed, Throw, chainVars, doneVars
<1>2. CASE Throw(f)
  BY <1>1, <1>2, StopKeepsHonest DEF Throw
<1>3. CASE Tx(f) \in landed /\ Succeed(f)
  <2>1. CASE flow[f].job = "bind"
    <3>1. WasBound(flow[f].use)
      BY <1>3, <2>1 DEF WasBound, Tx
    <3>2. AfterBind(f) /\ cache' = flow[f].use
      BY <1>3, <2>1 DEF Succeed
    <3>3. QED
      BY <1>1, <3>1, <3>2, AfterBindKeepsHonest
  <2>2. CASE flow[f].job = "install"
    BY <1>1, <1>3, <2>2, StopKeepsHonest DEF Succeed
  <2>3. CASE flow[f].job = "settle"
    <3> DEFINE r == [flow[f] EXCEPT !.pc = "record"]
    <3>1. flow' = [flow EXCEPT ![f] = r] /\ cache' = cache
      BY <1>3, <2>3 DEF Succeed, Go
    <3>2. r.pc = "record" /\ r.job = flow[f].job /\ r.use = flow[f].use /\ TxOf(r) = Tx(f)
      BY <1>1 DEF HandlersOK, Handler, TxOf, Tx
    <3>3. Honest(r)
      BY <1>3, <3>2 DEF HonestInv, Honest, BoundHandler, AppliedHandler
    <3>4. RecordedLanded'
      BY <1>1 DEF HonestInv, RecordedLanded
    <3>5. QED
      BY <1>1, <3>1, <3>3, <3>4, OneHonest
  <2>4. QED
    BY <1>1, <2>1, <2>2, <2>3 DEF Jobs
<1>4. QED
  BY <1>2, <1>3 DEF Await

\* The steps that neither bind nor rely on what is bound.
LEMMA QuietKeepsHonest ==
    ASSUME PassportInv, HonestInv, NEW f \in Flows,
           \/ Issue(f) \/ Check(f) \/ Recheck(f) \/ Roots(f) \/ Prove(f) \/ Fresh(f)
           \/ SpentCheck(f) \/ Gate(f) \/ Submit(f) \/ Answer(f) \/ Send(f) \/ Refuse(f)
           \/ MayThrow(f)
    PROVE  HonestInv'
<1>1. /\ HandlersOK /\ landed' = landed /\ bound' = bound /\ receipt' = receipt
      /\ cache' = cache \/ cache' = None
  BY DEF PassportInv, Issue, Check, Recheck, Roots, Prove, Fresh, SpentCheck, Gate, Submit, Answer,
     Send, Refuse, MayThrow, Throw, Resync, Forget, chainVars, doneVars
<1>2. CASE Stop(f)
  BY <1>1, <1>2, StopKeepsHonest
<1>3. CASE \E pc \in Pcs \ {"record", "open"} : Go(f, pc)
  BY <1>1, <1>3, GoKeepsHonest
<1>4. CASE \E p : /\ flow[f].pc \in Proving
                  /\ flow' = [flow EXCEPT ![f].pc = "fresh", ![f].use = p]
  <2>1. flow[f].pc \in Proving => flow[f].job = None
    BY <1>1 DEF HandlersOK, Ready
  <2>2. QED
    BY <1>1, <1>4, <2>1, GivenKeepsHonest
<1>5. ASSUME NEW r, flow' = [flow EXCEPT ![f] = r], r.pc \in {"bindcheck", "submit"},
             r.job = flow[f].job, r.use = flow[f].use
      PROVE  HonestInv'
  <2>1. Honest(r)
    BY <1>5 DEF HonestInv, Honest, BoundHandler, AppliedHandler
  <2>2. RecordedLanded'
    BY <1>1 DEF HonestInv, RecordedLanded
  <2>3. QED
    BY <1>1, <1>5, <2>1, <2>2, OneHonest
<1>6. CASE Gate(f)
  <2> DEFINE r == [flow[f] EXCEPT !.pc = "bindcheck", !.gated = TRUE]
  <2>1. r.pc = "bindcheck" /\ r.job = flow[f].job /\ r.use = flow[f].use
    BY <1>1 DEF HandlersOK, Handler
  <2>2. QED
    BY <1>5, <1>6, <2>1 DEF Gate
<1>7. CASE Again(f)
  <2> DEFINE r == [flow[f] EXCEPT !.pc = "submit", !.tries = flow[f].tries + 1]
  <2>1. r.pc = "submit" /\ r.job = flow[f].job /\ r.use = flow[f].use
    BY <1>1 DEF HandlersOK, Handler
  <2>2. Stop(f) \/ flow' = [flow EXCEPT ![f] = r]
    BY <1>7 DEF Again
  <2>3. QED
    BY <1>2, <1>5, <2>1, <2>2
<1>8. CASE Issue(f) \/ Refuse(f) \/ MayThrow(f)
  BY <1>2, <1>8 DEF Issue, Refuse, MayThrow, Throw, Resync
<1>9. CASE Check(f) \/ Recheck(f) \/ Fresh(f) \/ SpentCheck(f) \/ Submit(f) \/ Answer(f)
  BY <1>2, <1>3, <1>9 DEF Check, Recheck, Fresh, SpentCheck, Submit, Answer, Resync, Pcs
<1>10. CASE Roots(f)
  BY <1>2, <1>3, <1>4, <1>10 DEF Roots, At, Proving, Pcs
<1>11. CASE Prove(f)
  BY <1>2, <1>4, <1>11 DEF Prove, At, Proving
<1>12. CASE Send(f)
  BY <1>3, <1>7, <1>12 DEF Send, Pcs
<1>13. QED
  BY <1>6, <1>8, <1>9, <1>10, <1>11, <1>12

LEMMA RecordKeepsHonest ==
    ASSUME PassportInv, HonestInv, NEW f \in Flows, Record(f)
    PROVE  HonestInv'
<1>1. /\ HandlersOK /\ landed' = landed /\ bound' = bound /\ cache' = cache
      /\ receipt' = Tx(f) /\ Stop(f) /\ flow[f].pc = "record"
  BY DEF Record, At, PassportInv, chainVars
<1>2. Tx(f) \in landed
  BY <1>1 DEF HonestInv, Honest, AppliedHandler, TxOf, Tx
<1>3. RecordedLanded'
  BY <1>1, <1>2 DEF RecordedLanded
<1>4. QED
  BY <1>1, <1>3, IdleIsHonest, OneHonest DEF Stop

LEMMA HonestNext ==
    ASSUME PassportInv, HonestInv, [PassportNext]_passportVars
    PROVE  HonestInv'
<1>1. CASE UNCHANGED passportVars
  BY <1>1 DEF passportVars, chainVars, doneVars, runVars, HonestInv, Honest, BoundHandler,
     AppliedHandler, TxOf, RecordedLanded, WasBound
<1>2. ASSUME NEW f \in Flows, Step(f) PROVE HonestInv'
  BY <1>2, QuietKeepsHonest, BindCheckKeepsHonest, OpenSessionKeepsHonest, AwaitKeepsHonest,
     RecordKeepsHonest
  DEF Step
<1>3. CASE (\E s \in syncs : SyncAnswer(s)) \/ BeginRecovery \/ RevokeSession
  <2>1. /\ landed' = landed /\ bound' = bound /\ receipt' = receipt /\ flow' = flow
        /\ cache' = cache \/ cache' = None
    BY <1>3 DEF SyncAnswer, BeginRecovery, RevokeSession, Forget, chainVars, doneVars, runVars
  <2>2. QED
    BY <2>1 DEF HonestInv, Honest, BoundHandler, AppliedHandler, TxOf, RecordedLanded, WasBound
<1>4. QED
  BY <1>1, <1>2, <1>3, ClickKeepsHonest, LandKeepsHonest, ReloadKeepsHonest DEF PassportNext

\* What is taken for bound was bound, and what waits to be recorded was applied,
\* at every step of every handler (BindCheck's cache, Await's answer).
THEOREM HonestInvariant == PassportSpec => []HonestInv
<1>1. PassportInit => HonestInv
  BY HonestInit
<1>2. PassportInv /\ HonestInv /\ [PassportNext]_passportVars => HonestInv'
  BY HonestNext
<1>3. QED
  BY <1>1, <1>2, PassportInvariant, PTL DEF PassportSpec

\* Neither a session rule nor a settlement is submitted before the handler's own
\* proof was bound on the chain, whatever the bind cache has outlived
\* (bindSessionProofIfNeeded, enableLumengateSession).
THEOREM PassportBindsFirst == PassportSpec => []BoundFirst
BY HonestInvariant, HonestImplies, PTL

\* A transfer on a receipt was applied (waitForTransactionStatus, recordTransferTx).
THEOREM PassportRecordsLanded == PassportSpec => []RecordedLanded
<1>1. HonestInv => RecordedLanded
  BY DEF HonestInv
<1>2. QED
  BY <1>1, HonestInvariant, PTL

-----------------------------------------------------------------------------
(* Handlers are short: the safety half of FlowsEnd.                        *)

Sending == {"submit", "prompt", "send", "wait"}

\* The legs of a handler that are left, at most: the binding transaction comes
\* before the session's rule or the settlement, and again behind the gate.
Leg(x) ==
    CASE x.pc = "idle"              -> 0
      [] x.pc \in {"ask", "record"} -> 1
      [] x.pc \in Sending           -> IF x.job # "bind" THEN 2 ELSE IF x.gated THEN 3 ELSE 7
      [] x.pc = "bindcheck"         -> IF x.gated THEN 4 ELSE 8
      [] x.pc = "gate"              -> 5
      [] x.pc = "spentcheck"        -> 6
      [] x.pc = "open"              -> 6
      [] x.pc = "fresh"             -> 9
      [] x.pc = "prove"             -> 10
      [] x.pc = "roots"             -> 11
      [] x.pc = "recheck"           -> 12
      [] OTHER                      -> 13

\* The steps of a transaction that are left, its attempts included.
Left(x) ==
    CASE x.pc = "submit" -> 4 * (MaxTries - x.tries) + 4
      [] x.pc = "prompt" -> 4 * (MaxTries - x.tries) + 3
      [] x.pc = "send"   -> 4 * (MaxTries - x.tries) + 2
      [] x.pc = "wait"   -> 4 * (MaxTries - x.tries) + 1
      [] OTHER           -> 0

Lower(x, y) == Leg(x) < Leg(y) \/ (Leg(x) = Leg(y) /\ Left(x) < Left(y))

\* A handler's step brings it closer to its end, and what else happens leaves it
\* where it is or ends it: only a click starts one.
FlowShrinks(f) ==
    /\ Leg(flow[f]) <= 13 /\ Left(flow[f]) <= 4 * MaxTries
    /\ Step(f) => Lower(flow'[f], flow[f])
    /\ ~At(f, "idle") => flow'[f] = flow[f] \/ Lower(flow'[f], flow[f])

\* The session is opened before the gate, by another kind of handler.
Placed(r) == r.gated \/ r.pc \in {"fresh", "spentcheck", "gate"} => r.kind # "enable"

PlacedOK == \A f \in Flows : Placed(flow[f])

\* The prompts in the line are those of the handlers that wait for one, each once.
\* So there is a first one, it can be answered, and no prompt waits on itself.
LineOK ==
    /\ \A i \in 1..Len(line) : At(line[i], "prompt")
    /\ \A i, j \in 1..Len(line) : line[i] = line[j] => i = j
    /\ \A f \in Flows : At(f, "prompt") => \E i \in 1..Len(line) : line[i] = f

Same(x, y) == y.kind = x.kind /\ y.job = x.job /\ y.gated = x.gated /\ y.tries = x.tries

\* A proof that is found bound, or has just been.
Bound(x) == x.pc = "bindcheck" \/ (x.pc = "wait" /\ x.job = "bind")

\* The flow of control of a handler.
Moves(x, y) ==
    \/ y = Idle /\ x.pc # "idle"
    \/ /\ Same(x, y)
       /\ \/ x.pc = "check" /\ y.pc \in {"recheck", "roots"}
          \/ x.pc = "recheck" /\ y.pc = "roots"
          \/ x.pc = "roots" /\ y.pc = "prove"
          \/ x.pc \in {"roots", "prove"} /\ y.pc = "fresh" /\ x.kind # "enable"
          \/ x.pc = "fresh" /\ y.pc \in {"bindcheck", "gate"}
          \/ x.pc = "spentcheck" /\ y.pc = "gate"
          \/ Bound(x) /\ x.kind = "enable" /\ y.pc = "open"
          \/ Bound(x) /\ x.kind # "enable" /\ ~x.gated /\ y.pc = "spentcheck"
          \/ x.pc = "submit" /\ y.pc \in {"prompt", "send"}
          \/ x.pc = "prompt" /\ y.pc = "send"
          \/ x.pc = "send" /\ y.pc = "wait"
          \/ x.pc = "wait" /\ x.job # "bind" /\ y.pc = "record"
    \/ x.pc = "gate" /\ y.pc = "bindcheck" /\ y.gated /\ y.kind = x.kind
    \/ /\ y.pc = "submit" /\ y.kind = x.kind /\ y.gated = x.gated /\ y.tries \in 1..MaxTries
       /\ \/ x.pc = "bindcheck" /\ y.job = "bind"
          \/ Bound(x) /\ x.gated /\ y.job = "settle"
          \/ x.pc = "open" /\ y.job = "install"
          \/ x.pc = "send" /\ y.job = x.job /\ y.tries = x.tries + 1

Only(f) == \A g \in Flows \ {f} : flow'[g] = flow[g]

LEMMA StopMoves ==
    ASSUME HandlersOK, NEW f \in Flows, ~At(f, "idle"), Stop(f)
    PROVE  Moves(flow[f], flow'[f]) /\ Only(f)
BY DEF Stop, HandlersOK, At, Moves, Only

LEMMA GoIs ==
    ASSUME HandlersOK, NEW f \in Flows, NEW pc, Go(f, pc)
    PROVE  flow'[f].pc = pc /\ Same(flow[f], flow'[f]) /\ Only(f)
BY DEF Go, HandlersOK, Handler, Same, Only

LEMMA AfterBindMoves ==
    ASSUME HandlersOK, NEW f \in Flows, Bound(flow[f]), AfterBind(f)
    PROVE  Moves(flow[f], flow'[f]) /\ Only(f)
<1>1. ~At(f, "idle") /\ flow[f] \in Handler
  BY DEF Bound, At, HandlersOK
<1>2. CASE Stop(f)
  BY <1>1, <1>2, StopMoves
<1>3. CASE flow[f].kind = "enable" /\ Go(f, "open")
  BY <1>3, GoIs DEF Moves
<1>4. CASE /\ flow[f].gated
           /\ flow' = [flow EXCEPT ![f].pc = "submit", ![f].job = "settle", ![f].tries = 1]
  <2>1. /\ flow'[f].pc = "submit" /\ flow'[f].job = "settle" /\ flow'[f].tries = 1
        /\ flow'[f].kind = flow[f].kind /\ flow'[f].gated = flow[f].gated /\ Only(f)
    BY <1>1, <1>4 DEF HandlersOK, Handler, Only
  <2>2. QED
    BY <1>4, <2>1, Tries DEF Moves
<1>5. CASE flow[f].kind # "enable" /\ ~flow[f].gated /\ Go(f, "spentcheck")
  BY <1>5, GoIs DEF Moves
<1>6. QED
  BY <1>2, <1>3, <1>4, <1>5 DEF AfterBind

LEMMA AgainMoves ==
    ASSUME HandlersOK, NEW f \in Flows, At(f, "send"), Again(f)
    PROVE  Moves(flow[f], flow'[f]) /\ Only(f)
<1>1. CASE Stop(f)
  BY <1>1, StopMoves DEF At
<1>2. CASE /\ flow[f].tries < MaxTries
           /\ flow' = [flow EXCEPT ![f].pc = "submit", ![f].tries = @ + 1]
  <2>1. /\ flow'[f].pc = "submit" /\ flow'[f].job = flow[f].job
        /\ flow'[f].tries = flow[f].tries + 1
        /\ flow'[f].kind = flow[f].kind /\ flow'[f].gated = flow[f].gated /\ Only(f)
    BY <1>2 DEF HandlersOK, Handler, Only
  <2>2. flow[f].tries + 1 \in 1..MaxTries
    BY <1>2, HandlerFields, PassportAssumption
  <2>3. QED
    BY <2>1, <2>2 DEF Moves, At
<1>3. QED
  BY <1>1, <1>2 DEF Again

LEMMA StepMoves ==
    ASSUME HandlersOK, NEW f \in Flows, Step(f)
    PROVE  Moves(flow[f], flow'[f]) /\ Only(f)
<1>1. CASE Issue(f) \/ Record(f) \/ Refuse(f) \/ MayThrow(f)
  <2>1. Stop(f) /\ ~At(f, "idle")
    BY <1>1 DEF Issue, Record, Refuse, MayThrow, Resync, Throw, At
  <2>2. QED
    BY <2>1, StopMoves
<1>2. CASE Check(f)
  <2>1. PICK pc \in {"recheck", "roots"} : Go(f, pc)
    BY <1>2 DEF Check
  <2>2. QED
    BY <1>2, <2>1, GoIs DEF Check, At, Moves
<1>3. CASE Recheck(f)
  <2>1. (Stop(f) /\ ~At(f, "idle")) \/ Go(f, "roots")
    BY <1>3 DEF Recheck, At
  <2>2. QED
    BY <1>3, <2>1, GoIs, StopMoves DEF Recheck, At, Moves
<1>4. CASE Roots(f)
  <2>1. CASE Stop(f) \/ Go(f, "prove")
    BY <1>4, <2>1, GoIs, StopMoves DEF Roots, At, Moves
  <2>2. CASE KeepsProof(f) /\ flow' = [flow EXCEPT ![f].pc = "fresh", ![f].use = flow[f].proof]
    <3>1. flow'[f].pc = "fresh" /\ Same(flow[f], flow'[f]) /\ Only(f)
      BY <2>2 DEF HandlersOK, Handler, Same, Only
    <3>2. QED
      BY <1>4, <2>2, <3>1 DEF Roots, KeepsProof, Settling, At, Moves
  <2>3. QED
    BY <1>4, <2>1, <2>2 DEF Roots
<1>5. CASE Prove(f)
  <2>1. PICK p : IF Settling(flow[f].kind)
                 THEN flow' = [flow EXCEPT ![f].pc = "fresh", ![f].use = p]
                 ELSE Stop(f)
    BY <1>5 DEF Prove
  <2>2. CASE Settling(flow[f].kind)
    <3>1. flow'[f].pc = "fresh" /\ Same(flow[f], flow'[f]) /\ Only(f)
      BY <2>1, <2>2 DEF HandlersOK, Handler, Same, Only
    <3>2. QED
      BY <1>5, <2>2, <3>1 DEF Prove, Settling, At, Moves
  <2>3. QED
    BY <1>5, <2>1, <2>2, StopMoves DEF Prove, At
<1>6. CASE Fresh(f)
  <2>1. CASE Resync(f)
    BY <1>6, <2>1, StopMoves DEF Fresh, Resync, At
  <2>2. CASE \E pc \in {"bindcheck", "gate"} : Go(f, pc)
    BY <1>6, <2>2, GoIs DEF Fresh, At, Moves
  <2>3. QED
    BY <1>6, <2>1, <2>2 DEF Fresh
<1>7. CASE SpentCheck(f)
  <2>1. (Stop(f) /\ ~At(f, "idle")) \/ Go(f, "gate")
    BY <1>7 DEF SpentCheck, At
  <2>2. QED
    BY <1>7, <2>1, GoIs, StopMoves DEF SpentCheck, At, Moves
<1>8. CASE Gate(f)
  <2>1. flow'[f].pc = "bindcheck" /\ flow'[f].gated = TRUE /\ flow'[f].kind = flow[f].kind /\ Only(f)
    BY <1>8 DEF Gate, HandlersOK, Handler, Only
  <2>2. QED
    BY <1>8, <2>1 DEF Gate, At, Moves
<1>9. CASE BindCheck(f)
  <2>1. CASE AfterBind(f)
    BY <1>9, <2>1, AfterBindMoves DEF BindCheck, At, Bound
  <2>2. CASE ToBind(f)
    <3>1. /\ flow'[f].pc = "submit" /\ flow'[f].job = "bind" /\ flow'[f].tries = 1
          /\ flow'[f].kind = flow[f].kind /\ flow'[f].gated = flow[f].gated /\ Only(f)
      BY <2>2 DEF ToBind, HandlersOK, Handler, Only
    <3>2. QED
      BY <1>9, <3>1, Tries DEF BindCheck, At, Moves
  <2>3. QED
    BY <1>9, <2>1, <2>2 DEF BindCheck
<1>10. CASE OpenSession(f)
  <2>1. CASE Stop(f)
    BY <1>10, <2>1, StopMoves DEF OpenSession, At
  <2>2. CASE flow' = [flow EXCEPT ![f].pc = "submit", ![f].job = "install",
                                  ![f].key = key', ![f].tries = MaxTries]
    <3>1. /\ flow'[f].pc = "submit" /\ flow'[f].job = "install" /\ flow'[f].tries = MaxTries
          /\ flow'[f].kind = flow[f].kind /\ flow'[f].gated = flow[f].gated /\ Only(f)
      BY <2>2 DEF HandlersOK, Handler, Only
    <3>2. QED
      BY <1>10, <3>1, Tries DEF OpenSession, At, Moves
  <2>3. QED
    BY <1>10, <2>1, <2>2 DEF OpenSession
<1>11. CASE Submit(f)
  <2>1. PICK pc \in {"prompt", "send"} : Go(f, pc)
    BY <1>11 DEF Submit
  <2>2. QED
    BY <1>11, <2>1, GoIs DEF Submit, At, Moves
<1>12. CASE Answer(f)
  BY <1>12, GoIs, StopMoves DEF Answer, At, Moves
<1>13. CASE Send(f)
  <2>1. CASE Go(f, "wait")
    BY <1>13, <2>1, GoIs DEF Send, At, Moves
  <2>2. CASE Again(f)
    BY <1>13, <2>2, AgainMoves DEF Send
  <2>3. QED
    BY <1>13, <2>1, <2>2 DEF Send
<1>14. CASE Await(f)
  <2>1. At(f, "wait") /\ (Succeed(f) \/ Throw(f))
    BY <1>14 DEF Await
  <2>2. flow[f].job \in Jobs
    BY <2>1 DEF At, HandlersOK, Ready, Submitting
  <2>3. CASE Stop(f)
    BY <2>1, <2>3, StopMoves DEF At
  <2>4. CASE flow[f].job = "bind" /\ AfterBind(f)
    BY <2>1, <2>4, AfterBindMoves DEF Bound, At
  <2>5. CASE flow[f].job = "settle" /\ Go(f, "record")
    BY <2>1, <2>5, GoIs DEF At, Moves
  <2>6. QED
    BY <2>1, <2>2, <2>3, <2>4, <2>5 DEF Succeed, Throw, Jobs
<1>15. QED
  BY <1>1, <1>2, <1>3, <1>4, <1>5, <1>6, <1>7, <1>8, <1>9, <1>10, <1>11, <1>12, <1>13, <1>14
  DEF Step

LEMMA LegIs ==
    ASSUME NEW x
    PROVE  /\ x.pc = "idle" => Leg(x) = 0
           /\ x.pc \in {"ask", "record"} => Leg(x) = 1
           /\ x.pc \in Sending /\ x.job # "bind" => Leg(x) = 2
           /\ x.pc \in Sending /\ x.job = "bind" => Leg(x) = IF x.gated THEN 3 ELSE 7
           /\ x.pc = "bindcheck" => Leg(x) = IF x.gated THEN 4 ELSE 8
           /\ x.pc = "gate" => Leg(x) = 5
           /\ x.pc \in {"spentcheck", "open"} => Leg(x) = 6
           /\ x.pc = "fresh" => Leg(x) = 9
           /\ x.pc = "prove" => Leg(x) = 10
           /\ x.pc = "roots" => Leg(x) = 11
           /\ x.pc = "recheck" => Leg(x) = 12
           /\ x.pc = "check" => Leg(x) = 13
BY DEF Leg, Sending

LEMMA LegRange ==
    ASSUME NEW x, x.pc \in Pcs
    PROVE  Leg(x) \in 0..13 /\ (x.pc # "idle" => Leg(x) > 0) /\ (x.pc = "idle" => Leg(x) = 0)
<1>1. CASE x.pc \in Sending
  <2>1. Leg(x) \in {2, 3, 7} /\ x.pc # "idle"
    BY <1>1, LegIs DEF Sending
  <2>2. QED
    BY <2>1
<1>2. CASE x.pc = "bindcheck"
  <2>1. Leg(x) \in {4, 8}
    BY <1>2, LegIs
  <2>2. QED
    BY <1>2, <2>1
<1>3. CASE x.pc \notin Sending \cup {"bindcheck"}
  BY <1>3, LegIs DEF Pcs, Sending
<1>4. QED
  BY <1>1, <1>2, <1>3

LEMMA LeftRange ==
    ASSUME NEW x \in Handler
    PROVE  Left(x) \in 0..(4 * MaxTries)
<1>1. x.tries \in Nat /\ 1 <= x.tries /\ x.tries <= MaxTries /\ MaxTries \in Nat
  BY PassportAssumption DEF Handler
<1>2. QED
  BY <1>1 DEF Left

\* One more attempt is fewer steps.
LEMMA LeftFalls ==
    ASSUME NEW x \in Handler, NEW y,
           \/ /\ y.tries = x.tries
              /\ \/ x.pc = "submit" /\ y.pc \in {"prompt", "send"}
                 \/ x.pc = "prompt" /\ y.pc = "send"
                 \/ x.pc = "send" /\ y.pc = "wait"
           \/ x.pc = "send" /\ y.pc = "submit" /\ y.tries = x.tries + 1
    PROVE  Left(y) < Left(x)
<1>1. x.tries \in Nat /\ MaxTries \in Nat
  BY PassportAssumption DEF Handler
<1>2. QED
  BY <1>1 DEF Left

LEMMA MovesLower ==
    ASSUME NEW x \in Handler, Placed(x), NEW y, Moves(x, y)
    PROVE  Lower(y, x) /\ Placed(y)
<1>1. x.gated \in BOOLEAN /\ x.pc \in Pcs
  BY DEF Handler
<1>2. CASE y = Idle /\ x.pc # "idle"
  <2>1. y.pc = "idle" /\ y.pc \in Pcs /\ y.gated = FALSE
    BY <1>2 DEF Idle, Pcs
  <2>2. QED
    BY <1>1, <1>2, <2>1, LegRange DEF Lower, Placed
<1>3. CASE x.pc \in {"check", "recheck", "roots", "prove", "fresh", "spentcheck"}
  <2>1. y = Idle \/ (Same(x, y) /\ y.kind = x.kind /\ y.gated = x.gated)
    BY <1>3 DEF Moves, Bound, Same
  <2>2. CASE y # Idle
    <3>1. Placed(y)
      BY <1>3, <2>1, <2>2 DEF Moves, Bound, Placed
    <3>2. Leg(y) < Leg(x)
      BY <1>1, <1>3, <2>1, <2>2, LegIs DEF Moves, Bound, Placed
    <3>3. QED
      BY <3>1, <3>2 DEF Lower
  <2>3. QED
    BY <1>2, <1>3, <2>2
<1>4. CASE x.pc \in {"gate", "open", "bindcheck"}
  <2>1. CASE y # Idle
    <3>1. y.kind = x.kind /\ (x.pc # "gate" => y.gated = x.gated)
      BY <1>4, <2>1 DEF Moves, Same, Bound
    <3>2. Placed(y)
      BY <1>4, <2>1, <3>1 DEF Moves, Bound, Placed
    <3>3. CASE x.pc = "gate"
      <4>1. y.pc = "bindcheck" /\ y.gated
        BY <2>1, <3>3 DEF Moves, Bound
      <4>2. QED
        BY <3>2, <3>3, <4>1, LegIs DEF Lower
    <3>4. CASE x.pc = "open"
      <4>1. y.pc = "submit" /\ y.job = "install"
        BY <2>1, <3>4 DEF Moves, Bound
      <4>2. QED
        BY <3>2, <3>4, <4>1, LegIs DEF Lower, Sending
    <3>5. CASE x.pc = "bindcheck"
      <4>1. \/ y.pc = "submit" /\ y.job = "bind"
            \/ x.gated /\ y.pc = "submit" /\ y.job = "settle"
            \/ x.kind = "enable" /\ y.pc = "open"
            \/ ~ x.gated /\ y.pc = "spentcheck"
        BY <2>1, <3>5 DEF Moves
      <4>2. x.kind = "enable" => ~ x.gated
        BY DEF Placed
      <4>3. QED
        BY <1>1, <3>1, <3>2, <3>5, <4>1, <4>2, LegIs DEF Lower, Sending
    <3>6. QED
      BY <1>4, <3>3, <3>4, <3>5
  <2>2. QED
    BY <1>2, <1>4, <2>1
<1>5. CASE x.pc \in Sending
  <2>1. CASE y # Idle
    <3>1. y.kind = x.kind /\ y.gated = x.gated
      BY <1>5, <2>1 DEF Moves, Same, Bound, Sending
    <3>2. Placed(y)
      BY <1>5, <2>1, <3>1 DEF Moves, Bound, Placed, Sending
    <3>3. CASE x.pc # "wait"
      <4>1. /\ y.job = x.job /\ y.pc \in Sending
            /\ \/ /\ y.tries = x.tries
                  /\ \/ x.pc = "submit" /\ y.pc \in {"prompt", "send"}
                     \/ x.pc = "prompt" /\ y.pc = "send"
                     \/ x.pc = "send" /\ y.pc = "wait"
               \/ x.pc = "send" /\ y.pc = "submit" /\ y.tries = x.tries + 1
        BY <1>5, <2>1, <3>3 DEF Moves, Same, Bound, Sending
      <4>2. Left(y) < Left(x)
        BY <4>1, LeftFalls
      <4>3. Leg(y) = Leg(x)
        BY <1>1, <1>5, <3>1, <4>1, LegIs
      <4>4. QED
        BY <3>2, <4>2, <4>3 DEF Lower
    <3>4. CASE x.pc = "wait"
      <4>1. \/ x.job # "bind" /\ y.pc = "record"
            \/ x.job = "bind" /\ x.gated /\ y.pc = "submit" /\ y.job = "settle"
            \/ x.job = "bind" /\ x.kind = "enable" /\ y.pc = "open"
            \/ x.job = "bind" /\ ~ x.gated /\ y.pc = "spentcheck"
        BY <2>1, <3>4 DEF Moves, Bound
      <4>2. x.kind = "enable" => ~ x.gated
        BY DEF Placed
      <4>3. QED
        BY <1>1, <1>5, <3>2, <4>1, <4>2, LegIs DEF Lower, Sending
    <3>5. QED
      BY <3>3, <3>4
  <2>2. QED
    BY <1>2, <1>5, <2>1 DEF Sending
<1>6. CASE x.pc \in {"idle", "ask", "record"}
  BY <1>2, <1>6 DEF Moves, Bound
<1>7. QED
  BY <1>1, <1>3, <1>4, <1>5, <1>6 DEF Pcs, Sending

LEMMA PlacedNext ==
    ASSUME PassportInv, PlacedOK, [PassportNext]_passportVars
    PROVE  PlacedOK'
<1>1. ASSUME NEW f \in Flows, Step(f) PROVE PlacedOK'
  <2>1. Placed(flow'[f]) /\ Only(f)
    BY <1>1, StepMoves, MovesLower DEF PassportInv, HandlersOK, PlacedOK
  <2>2. QED
    BY <2>1 DEF Only, PlacedOK, Placed
<1>2. ASSUME NEW f \in Flows, NEW k \in Kinds, NEW a \in Assets, Click(f, k, a) PROVE PlacedOK'
  <2>1. /\ flow'[f].pc = FirstStep(k, a) /\ flow'[f].kind = k /\ flow'[f].gated = FALSE
        /\ \A g \in Flows \ {f} : flow'[g] = flow[g]
    BY <1>2 DEF Click, PassportInv, HandlersOK, Idle
  <2>2. k = "enable" => FirstStep(k, a) = "bindcheck"
    BY DEF FirstStep, Shown, Settling
  <2>3. QED
    BY <2>1, <2>2 DEF PlacedOK, Placed
<1>3. CASE Reload
  BY <1>3 DEF Reload, PlacedOK, Placed, Idle
<1>4. CASE flow' = flow
  BY <1>4 DEF PlacedOK, Placed
<1>5. QED
  BY <1>1, <1>2, <1>3, <1>4
  DEF PassportNext, SyncAnswer, Land, BeginRecovery, RevokeSession, passportVars, runVars

LEMMA ActionShrinks ==
    ASSUME PassportInv, PlacedOK, [PassportNext]_passportVars, NEW f \in Flows
    PROVE  FlowShrinks(f)
<1>1. flow[f] \in Handler /\ Placed(flow[f]) /\ HandlersOK /\ flow[f].pc \in Pcs
  BY DEF PassportInv, HandlersOK, PlacedOK, Handler
<1>2. Leg(flow[f]) <= 13 /\ Left(flow[f]) <= 4 * MaxTries
  BY <1>1, LegRange, LeftRange, PassportAssumption
<1>3. Step(f) => Lower(flow'[f], flow[f])
  BY <1>1, StepMoves, MovesLower
<1>4. ASSUME ~At(f, "idle") PROVE flow'[f] = flow[f] \/ Lower(flow'[f], flow[f])
  <2>1. ASSUME NEW g \in Flows, Step(g) PROVE flow'[f] = flow[f] \/ Lower(flow'[f], flow[f])
    BY <1>1, <1>3, <2>1, StepMoves DEF Only
  <2>2. ASSUME NEW g \in Flows, NEW k \in Kinds, NEW a \in Assets, Click(g, k, a)
        PROVE  flow'[f] = flow[f]
    BY <1>1, <1>4, <2>2 DEF Click, At, HandlersOK
  <2>3. CASE Reload
    <3>1. flow'[f] = Idle /\ Idle.pc = "idle" /\ Idle.pc \in Pcs
      BY <2>3 DEF Reload, Idle, Pcs
    <3>2. QED
      BY <1>1, <1>4, <3>1, LegRange DEF Lower, At
  <2>4. CASE flow' = flow
    BY <2>4
  <2>5. QED
    BY <2>1, <2>2, <2>3, <2>4
    DEF PassportNext, SyncAnswer, Land, BeginRecovery, RevokeSession, passportVars, runVars
<1>5. QED
  BY <1>2, <1>3, <1>4 DEF FlowShrinks

\* A handler ends after a number of its own steps that only the attempts of
\* withRetry set, whatever runs beside it: the safety half of FlowsEnd
\* (withRetry, bindSessionProofIfNeeded, signAndSubmitSettlement).
THEOREM FlowsAreShort == PassportSpec => [][\A f \in Flows : FlowShrinks(f)]_passportVars
<1>1. PassportInit => PlacedOK
  BY DEF PassportInit, PlacedOK, Placed, Idle
<1>2. PassportSpec => []PlacedOK
  BY <1>1, PlacedNext, PassportInvariant, PTL DEF PassportSpec
<1>3. PassportInv /\ PlacedOK /\ [PassportNext]_passportVars
          => [\A f \in Flows : FlowShrinks(f)]_passportVars
  BY ActionShrinks
<1>4. QED
  BY <1>2, <1>3, PassportInvariant, PTL DEF PassportSpec

LEMMA AskKeepsLine ==
    ASSUME HandlersOK, line \in Seq(Flows), LineOK, NEW f \in Flows, ~At(f, "prompt"),
           Go(f, "prompt"), Ask(f)
    PROVE  LineOK'
<1> DEFINE n == Len(line)
<1>1. flow'[f].pc = "prompt" /\ \A g \in Flows \ {f} : flow'[g] = flow[g]
  BY GoIs DEF Only
<1>2. /\ n \in Nat /\ Len(line') = n + 1 /\ line'[n + 1] = f
      /\ \A i \in 1..n : line'[i] = line[i] /\ line[i] \in Flows /\ line[i] # f
  BY DEF Ask, LineOK
<1> HIDE DEF n
<1>3. \A i \in 1..(n + 1) : line'[i] \in Flows /\ flow'[line'[i]].pc = "prompt"
  <2>1. ASSUME NEW i \in 1..n PROVE line'[i] \in Flows /\ flow'[line'[i]].pc = "prompt"
    BY <1>1, <1>2 DEF LineOK, At, n
  <2>2. \A i \in 1..(n + 1) : i \in 1..n \/ i = n + 1
    BY <1>2
  <2>3. QED
    BY <1>1, <1>2, <2>1, <2>2
<1>4. \A i, j \in 1..(n + 1) : line'[i] = line'[j] => i = j
  <2>1. \A i \in 1..(n + 1) : i \in 1..n \/ i = n + 1
    BY <1>2
  <2>2. QED
    BY <1>2, <2>1 DEF LineOK, n
<1>5. ASSUME NEW g \in Flows, flow'[g].pc = "prompt" PROVE \E i \in 1..(n + 1) : line'[i] = g
  <2>1. CASE g = f
    BY <1>2, <2>1
  <2>2. CASE g # f
    <3>1. PICK i \in 1..n : line[i] = g
      BY <1>1, <1>5, <2>2 DEF LineOK, At, n
    <3>2. i \in 1..(n + 1) /\ line'[i] = g
      BY <1>2, <3>1
    <3>3. QED
      BY <3>2
  <2>3. QED
    BY <2>1, <2>2
<1>6. QED
  BY <1>2, <1>3, <1>4, <1>5 DEF LineOK, At

LEMMA AnswerKeepsLine ==
    ASSUME HandlersOK, line \in Seq(Flows), LineOK, NEW f \in Flows, Answer(f)
    PROVE  LineOK'
<1> DEFINE n == Len(line)
<1>1. /\ n \in Nat \ {0} /\ line[1] = f /\ Len(line') = n - 1
      /\ \A i \in 1..(n - 1) : line'[i] = line[i + 1]
  BY DEF Answer
<1> HIDE DEF n
<1>2. flow'[f].pc # "prompt" /\ \A g \in Flows \ {f} : flow'[g] = flow[g]
  <2>1. CASE Go(f, "send")
    BY <2>1, GoIs DEF Only
  <2>2. CASE Stop(f)
    BY <2>2 DEF Stop, HandlersOK, Idle
  <2>3. QED
    BY <2>1, <2>2 DEF Answer
<1>3. \A i \in 1..(n - 1) : i + 1 \in 1..n /\ i + 1 # 1
  BY <1>1
<1>4. \A i \in 1..n : line[i] \in Flows
  BY DEF n
<1>5. \A i \in 1..(n - 1) : line[i + 1] \in Flows \ {f}
  BY <1>1, <1>3, <1>4 DEF LineOK, n
<1>6. \A i \in 1..(n - 1) : flow'[line'[i]].pc = "prompt"
  BY <1>1, <1>2, <1>3, <1>5 DEF LineOK, At, n
<1>7. \A i, j \in 1..(n - 1) : line'[i] = line'[j] => i = j
  <2>1. ASSUME NEW i \in 1..(n - 1), NEW j \in 1..(n - 1), line'[i] = line'[j] PROVE i = j
    <3>1. \A a, b \in 1..n : line[a] = line[b] => a = b
      BY DEF LineOK, n
    <3>2. line[i + 1] = line[j + 1]
      BY <1>1, <2>1
    <3>3. i + 1 = j + 1
      BY <1>3, <3>1, <3>2
    <3>4. QED
      BY <3>3
  <2>2. QED
    BY <2>1
<1>8. ASSUME NEW g \in Flows, flow'[g].pc = "prompt" PROVE \E i \in 1..(n - 1) : line'[i] = g
  <2>1. g # f /\ flow[g].pc = "prompt"
    BY <1>2, <1>8
  <2>2. PICK i \in 1..n : line[i] = g
    BY <2>1 DEF LineOK, At, n
  <2>3. i # 1
    BY <1>1, <2>1, <2>2
  <2>4. i - 1 \in 1..(n - 1) /\ (i - 1) + 1 = i
    BY <1>1, <2>3
  <2>5. QED
    BY <1>1, <2>2, <2>4
<1>9. QED
  BY <1>1, <1>6, <1>7, <1>8 DEF LineOK, At

\* A step that neither asks nor answers.
LEMMA OthersKeepLine ==
    ASSUME LineOK, line \in Seq(Flows), line' = line,
           \A g \in Flows : flow'[g].pc = "prompt" <=> flow[g].pc = "prompt"
    PROVE  LineOK'
<1>1. \A i \in 1..Len(line) : line[i] \in Flows
  OBVIOUS
<1>2. QED
  BY <1>1 DEF LineOK, At

LEMMA LineNext ==
    ASSUME PassportInv, LineOK, [PassportNext]_passportVars
    PROVE  LineOK'
<1>1. HandlersOK /\ line \in Seq(Flows)
  BY DEF PassportInv, StoresOK
<1>2. ASSUME NEW f \in Flows, Submit(f) PROVE LineOK'
  <2>1. CASE Go(f, "prompt") /\ Ask(f)
    BY <1>1, <1>2, <2>1, AskKeepsLine DEF Submit, At
  <2>2. CASE Go(f, "send") /\ line' = line
    BY <1>1, <1>2, <2>2, GoIs, OthersKeepLine DEF Submit, At, Only
  <2>3. QED
    BY <1>2, <2>1, <2>2 DEF Submit
<1>3. ASSUME NEW f \in Flows, MayThrow(f) PROVE LineOK'
  <2>1. flow' = [flow EXCEPT ![f] = Idle] /\ line' = line /\ flow[f].pc # "prompt"
    BY <1>3 DEF MayThrow, Throw, Stop
  <2>2. QED
    BY <1>1, <2>1, OthersKeepLine DEF HandlersOK, Idle
<1>4. ASSUME NEW f \in Flows, Step(f), ~Submit(f), ~Answer(f), ~MayThrow(f) PROVE LineOK'
  <2>1. line' = line
    BY <1>4 DEF Step, Issue, Check, Recheck, Roots, Prove, Fresh, SpentCheck, Gate, BindCheck,
       OpenSession, Send, Refuse, Await, Record, Succeed, Throw, Resync
  <2>2. Moves(flow[f], flow'[f]) /\ Only(f)
    BY <1>1, <1>4, StepMoves
  <2>3. flow[f].pc \notin {"prompt", "submit"}
    BY <1>4 DEF Step, Issue, Check, Recheck, Roots, Prove, Fresh, SpentCheck, Gate, BindCheck,
       OpenSession, Send, Refuse, Await, Record, At
  <2>4. QED
    BY <1>1, <2>1, <2>2, <2>3, OthersKeepLine DEF Moves, Only, Idle, Bound
<1>5. ASSUME NEW f \in Flows, NEW k \in Kinds, NEW a \in Assets, Click(f, k, a) PROVE LineOK'
  <2>1. /\ flow[f].pc = "idle" /\ flow'[f].pc = FirstStep(k, a) /\ line' = line
        /\ \A g \in Flows \ {f} : flow'[g] = flow[g]
    BY <1>1, <1>5 DEF Click, HandlersOK, Idle, At
  <2>2. FirstStep(k, a) # "prompt"
    BY DEF FirstStep
  <2>3. QED
    BY <1>1, <2>1, <2>2, OthersKeepLine
<1>6. CASE Reload
  BY <1>6 DEF Reload, LineOK, At, Idle
<1>7. CASE flow' = flow /\ line' = line
  BY <1>1, <1>7, OthersKeepLine
<1>8. QED
  BY <1>1, <1>2, <1>3, <1>4, <1>5, <1>6, <1>7, AnswerKeepsLine
  DEF PassportNext, SyncAnswer, Land, BeginRecovery, RevokeSession, passportVars, runVars

\* Passkey prompts never wait on themselves: who waits for one is in the line
\* once, and the first in the line waits for its answer (runPasskeyCeremony).
THEOREM PromptsMove == PassportSpec => []LineOK
<1>1. PassportInit => LineOK
  BY DEF PassportInit, LineOK, At, Idle
<1>2. QED
  BY <1>1, LineNext, PassportInvariant, PTL DEF PassportSpec
=============================================================================
