----------------------------- MODULE AppSession -----------------------------
(***************************************************************************)
(* Who the browser application takes its user for, and what it remembers   *)
(* of it: the hooks of AppContext, one stored session per funding wallet   *)
(* (session.ts) and one per device for the passkey account                 *)
(* (passkeySession.ts).  A handler that waits for an answer is two steps:  *)
(* it finishes with the wallet, the account, the proof or the stored       *)
(* session of the render it was started in.                                *)
(***************************************************************************)
EXTENDS Naturals, FiniteSets

CONSTANTS
    Wallets,                        \* funding wallets the user may connect
    None,
    MaxAccts, MaxCreds, MaxProofs,  \* bounds on what is ever made
    MaxCalls                        \* and on the calls that wait at once

ASSUME AppAssumption ==
    /\ None \notin Wallets /\ None \notin Nat
    /\ {MaxAccts, MaxCreds, MaxProofs, MaxCalls} \subseteq Nat

Accts  == 1..MaxAccts
Fields == Wallets \cup Accts       \* walletField: of a wallet, or of an account
Creds  == [field : Fields, no : 1..MaxCreds]
Proofs == [cred : 1..MaxCreds, no : 1..MaxProofs]

\* A stored passport, and the device's session with the wallet that pays.
Passports == [field : Fields \cup {None}, acct : Accts \cup {None},
              cred : Creds \cup {None}, proof : Proofs \cup {None}]
Sessions  == [passport : Passports, funding : Wallets \cup {None}]

ASSUME NoneAssumption == None \notin Creds \cup Proofs \cup Passports \cup Sessions

VARIABLES
    app,        \* the hooks address, walletField, smartAccount, credential, proof
    wallets,    \* lumengate.session.v2
    device,     \* lumengate.passkey.session.v1
    last,       \* lumengate.wallet.last
    calls,      \* handlers awaiting their answers, with what they have read
    settled,    \* history: proofs recorded as settled and not shown again since
    made        \* accounts, credentials and proofs made so far

appVars == <<app, wallets, device, last, calls, settled, made>>

\* The hooks before anything is connected: the wallet, the field, the passkey
\* account, the credential and the proof.  (walletFieldFromAddress is one to
\* one: an address stands for its field.)
Empty == [addr |-> None, field |-> None, acct |-> None, cred |-> None, proof |-> None]

Matches(p, c) == p # None /\ c # None /\ p.cred = c.no

\* a ?? b
Or(a, b) == IF a # None THEN a ELSE b

-----------------------------------------------------------------------------
(* Storage.                                                                *)

Passport(h) == [field |-> h.field, acct |-> h.acct, cred |-> h.cred, proof |-> h.proof]

Funded(p, w) == [passport |-> p, funding |-> w]
Funding(d) == IF d = None THEN None ELSE d.funding

\* Fault: what is cleared is not written over what was stored.
StoreIfSet(h, d) ==
    IF h.acct = None THEN d
    ELSE Funded([Passport(h) EXCEPT !.proof = IF d = None THEN @ ELSE Or(@, d.passport.proof)],
                Funding(d))

\* persistPasskeySession: the wallet that pays is kept.
Store(h, d) == IF h.acct = None THEN d ELSE Funded(Passport(h), Funding(d))

\* persistSession
SaveWallet(h, ws) ==
    IF h.addr # None /\ h.field # None THEN [ws EXCEPT ![h.addr] = Passport(h)] ELSE ws

\* A proof of another credential is dropped.
Kept(h) == IF h.proof # None /\ h.cred # None /\ ~Matches(h.proof, h.cred)
           THEN [h EXCEPT !.proof = None] ELSE h

\* The render of new hooks, and the effects that write both sessions.
Commit(h, ws, d) ==
    /\ app' = Kept(h)
    /\ wallets' = SaveWallet(Kept(h), ws)
    /\ device' = IF h.field # None THEN Store(Kept(h), d) ELSE d

\* A proof that is shown again counts as settled no more.
Shown == settled' = settled \ {app'.proof}

\* applySession: the hooks of a stored passport.
Applied(p, w) ==
    [addr |-> w, field |-> p.field, acct |-> p.acct, cred |-> p.cred,
     proof |-> IF Matches(p.proof, p.cred) THEN p.proof ELSE None]

-----------------------------------------------------------------------------
(* Wallets.                                                                *)

\* linkPasskeySessionToWallet: what the device lacks the wallet's session has.
Linked(p, saved) ==
    IF saved = None THEN p
    ELSE [p EXCEPT !.cred = Or(@, saved.cred), !.proof = Or(@, saved.proof)]

Connect(w) ==
    /\ app.addr = None
    /\ IF device # None
       THEN Commit(Applied(Linked(device.passport, wallets[w]), w), wallets,
                   [device EXCEPT !.funding = w])
       ELSE Commit(IF wallets[w] # None THEN Applied(wallets[w], w)
                   ELSE [app EXCEPT !.addr = w, !.field = w], wallets, device)
    /\ last' = w
    /\ Shown
    /\ UNCHANGED <<calls, made>>

\* disconnect: the passkey account stays, on the device's session, which
\* keeps the wallet that paid.
Disconnect ==
    /\ app.addr # None
    /\ last' = None
    /\ LET saved == wallets[app.addr]
           ws    == [wallets EXCEPT ![app.addr] = None]
           d     == IF device = None /\ saved # None /\ saved.acct # None
                    THEN Funded(saved, app.addr) ELSE device
       IN  IF d # None THEN Commit(Applied(d.passport, None), ws, d) ELSE Commit(Empty, ws, None)
    /\ Shown
    /\ UNCHANGED <<calls, made>>

-----------------------------------------------------------------------------
(* Handlers that wait.                                                     *)

\* A call of a render; saved and old are what a sign-in or a load has read.
Waiting(kind, addr, field, acct, proof) ==
    [kind |-> kind, addr |-> addr, field |-> field, acct |-> acct, proof |-> proof,
     saved |-> None, old |-> {}]

Begin(c) == Cardinality(calls) < MaxCalls /\ calls' = calls \cup {c}
End(c)   == calls' = calls \ {c}

CallFails(c) ==
    /\ End(c)
    /\ UNCHANGED <<app, wallets, device, last, settled, made>>

\* persistSession with a proof, for the wallet and the field of the call.
Blank == [field |-> None, acct |-> None, cred |-> None, proof |-> None]

WithProof(c, p, ws) ==
    IF c.addr = None \/ c.field = None THEN ws
    ELSE [ws EXCEPT ![c.addr] =
            [IF @ = None THEN Blank ELSE @ EXCEPT !.field = c.field, !.proof = p]]

-----------------------------------------------------------------------------
(* Signing in, and loading the page.                                       *)

\* signInWithPasskey reads the device's session and then waits for the passkey.
SignInStart ==
    /\ device # None
    /\ Begin([Waiting("signin", None, None, None, None) EXCEPT !.saved = device, !.old = settled])
    /\ UNCHANGED <<app, wallets, device, last, settled, made>>

SignInDone(c) ==
    /\ c.kind = "signin"
    /\ Commit(Applied(c.saved.passport, c.saved.funding), wallets, device)
    /\ Shown
    /\ End(c)
    /\ UNCHANGED <<last, made>>

\* The page is loaded: the device's session, then the wallet last connected.
\* Without one the extension is asked, and its answer may come any time later.
Reload ==
    /\ LET start == IF device # None THEN Applied(device.passport, device.funding) ELSE Empty
           ws == SaveWallet(start, wallets)
       IN  IF last # None
           THEN /\ Commit(IF device # None THEN [start EXCEPT !.addr = last]
                          ELSE IF ws[last] # None THEN Applied(ws[last], last)
                          ELSE [start EXCEPT !.addr = last, !.field = last], ws, device)
                /\ calls' = {}
           ELSE /\ Commit(start, ws, device)
                /\ calls' = {[Waiting("load", None, None, None, None) EXCEPT !.saved = device]}
    /\ Shown
    /\ UNCHANGED <<last, made>>

\* The extension answers: whether the device had a session was read when the
\* page was loaded, the wallet's session is read now.
Found(c, w) ==
    /\ c.kind = "load"
    /\ Commit(IF c.saved # None THEN [app EXCEPT !.addr = w]
              ELSE IF wallets[w] # None THEN Applied(wallets[w], w)
              ELSE [app EXCEPT !.addr = w, !.field = w], wallets, device)
    /\ last' = w
    /\ Shown
    /\ End(c)
    /\ UNCHANGED made

-----------------------------------------------------------------------------
(* Accounts and credentials.                                               *)

\* createSmartAccount
CreateStart ==
    /\ app.acct = None
    /\ Begin(Waiting("create", app.addr, None, None, None))
    /\ UNCHANGED <<app, wallets, device, last, settled, made>>

\* replaceSmartAccount lets the account and its proof go first.
ReplaceStart ==
    /\ app.acct # None
    /\ LET d == IF app.addr = None THEN [device EXCEPT !.passport.proof = None] ELSE device
       IN  Commit([app EXCEPT !.acct = None, !.proof = None], wallets, d)
    /\ Begin(Waiting("create", app.addr, None, None, None))
    /\ UNCHANGED <<last, settled, made>>

\* The account is deployed: the session of the wallet that paid is written
\* besides those of the hooks.
CreateDone(c) ==
    /\ c.kind = "create"
    /\ made.accts < MaxAccts
    /\ LET a  == made.accts + 1
           ws == IF c.addr = None THEN wallets
                 ELSE [wallets EXCEPT ![c.addr] =
                         IF @ = None THEN [field |-> a, acct |-> a, cred |-> None, proof |-> None]
                         ELSE [@ EXCEPT !.field = a, !.acct = a]]
           d  == IF c.addr = None \/ device = None THEN device
                 ELSE [device EXCEPT !.funding = c.addr]
       IN  /\ IF c.addr # None /\ device = None
              THEN Commit([app EXCEPT !.acct = a, !.field = a], ws,
                          Funded(Passport([app EXCEPT !.acct = a, !.field = a]), c.addr))
              ELSE Commit([app EXCEPT !.acct = a, !.field = a], ws, d)
           /\ made' = [made EXCEPT !.accts = a]
    /\ End(c)
    /\ UNCHANGED <<last, settled>>

RequestStart ==
    /\ app.field # None
    /\ Begin(Waiting("request", app.addr, app.field, app.acct, None))
    /\ UNCHANGED <<app, wallets, device, last, settled, made>>

\* requestCredential
RequestDone(c) ==
    /\ c.kind = "request"
    /\ made.creds < MaxCreds
    /\ LET new == [field |-> c.field, no |-> made.creds + 1]
           p   == [field |-> c.field, acct |-> c.acct, cred |-> new, proof |-> None]
           ws  == IF c.addr = None THEN wallets
                  ELSE [wallets EXCEPT ![c.addr] =
                          [p EXCEPT !.acct = IF wallets[c.addr] = None THEN None
                                             ELSE wallets[c.addr].acct]]
           d   == IF c.acct = None THEN device ELSE Funded(p, Or(c.addr, Funding(device)))
       IN  Commit([app EXCEPT !.field = c.field, !.cred = new, !.proof = None], ws, d)
    /\ made' = [made EXCEPT !.creds = @ + 1]
    /\ End(c)
    /\ UNCHANGED <<last, settled>>

\* setProof of a proof of the credential there is.
ProofMade ==
    /\ app.cred # None /\ app.acct # None
    /\ made.proofs < MaxProofs
    /\ Commit([app EXCEPT !.proof = [cred |-> app.cred.no, no |-> made.proofs + 1]],
              wallets, device)
    /\ made' = [made EXCEPT !.proofs = @ + 1]
    /\ UNCHANGED <<last, calls, settled>>

\* A settlement with the proof at hand: its handler calls recordTransferTx of
\* this render when the transfer is applied, which waits for the receipt.
RecordStart ==
    /\ app.proof # None /\ app.acct # None
    /\ Begin(Waiting("record", app.addr, app.field, app.acct, app.proof))
    /\ UNCHANGED <<app, wallets, device, last, settled, made>>

\* What persistReceiptState leaves on the device.
Recorded(c, d) ==
    Funded([field |-> c.field, acct |-> c.acct, proof |-> None,
            cred |-> IF d = None THEN None ELSE d.passport.cred], Funding(d))

\* Fault: the hook is left to the receipt, which may not be there.
RecordDoneKeepsHook(c) ==
    /\ c.kind = "record"
    /\ settled' = settled \cup {c.proof}
    /\ Commit(app, WithProof(c, None, wallets), Recorded(c, device))
    /\ End(c)
    /\ UNCHANGED <<last, made>>

\* recordTransferTx drops whatever proof is shown by then.
RecordDone(c) ==
    /\ c.kind = "record"
    /\ settled' = settled \cup {c.proof}
    /\ Commit([app EXCEPT !.proof = None], WithProof(c, None, wallets), Recorded(c, device))
    /\ End(c)
    /\ UNCHANGED <<last, made>>

\* syncProofLifecycle asks the chain about the proof of its render.
SyncStart ==
    /\ app.cred # None \/ app.proof # None
    /\ Begin(Waiting("sync", app.addr, app.field, None, app.proof))
    /\ UNCHANGED <<app, wallets, device, last, settled, made>>

SyncDone(c, consumed) ==
    /\ c.kind = "sync"
    /\ Commit(IF consumed /\ c.proof # None THEN [app EXCEPT !.proof = None] ELSE app,
              WithProof(c, IF consumed THEN None ELSE c.proof, wallets), device)
    /\ End(c)
    /\ UNCHANGED <<last, settled, made>>

\* beginProofRecovery
BeginRecovery ==
    /\ app.field # None /\ (app.addr # None \/ app.acct # None)
    /\ app.cred # None
    /\ Commit([app EXCEPT !.cred = None, !.proof = None], wallets, device)
    /\ UNCHANGED <<last, calls, settled, made>>

-----------------------------------------------------------------------------
AppInit ==
    /\ app = Empty
    /\ wallets = [w \in Wallets |-> None]
    /\ device = None /\ last = None
    /\ calls = {} /\ settled = {}
    /\ made = [accts |-> 0, creds |-> 0, proofs |-> 0]

AppNext ==
    \/ \E w \in Wallets : Connect(w)
    \/ Disconnect \/ SignInStart \/ Reload
    \/ CreateStart \/ ReplaceStart \/ RequestStart \/ RecordStart \/ SyncStart
    \/ \E c \in calls :
           \/ SignInDone(c) \/ CreateDone(c) \/ RequestDone(c) \/ RecordDone(c) \/ CallFails(c)
           \/ \E w \in Wallets : Found(c, w)
           \/ \E consumed \in BOOLEAN : SyncDone(c, consumed)
    \/ ProofMade \/ BeginRecovery

AppSpec == AppInit /\ [][AppNext]_appVars

-----------------------------------------------------------------------------
(* Properties.                                                             *)

\* The device remembers the passport there is, whatever handler wrote last: a
\* page loaded again shows the account, the credential and the proof it had.
DeviceIsApp == app.acct # None => device # None /\ device.passport = Passport(app)

\* A proof recorded as settled comes back to an account at hand only from the
\* session of a wallet, which is connected again or answers a page loaded
\* before the device had a session, or by a sign-in that had read the device's
\* session before the settlement was recorded (signInWithPasskey loads it
\* before its await): a later sign-in, a disconnect, a load, or any other call
\* that finishes late does not show it again.
SettledStaysDropped ==
    [][app.acct # None /\ app'.proof \in settled
        => \/ \E w \in Wallets : Connect(w)
           \/ \E c \in calls :
                  \/ c.saved = None /\ \E w \in Wallets : Found(c, w)
                  \/ SignInDone(c) /\ app'.proof \notin c.old]_appVars

=============================================================================
