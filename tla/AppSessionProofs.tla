-------------------------- MODULE AppSessionProofs --------------------------
(* Theorems about the application's sessions, for any number of wallets,    *)
(* accounts, credentials, proofs and calls that wait at once.               *)
EXTENDS AppSession, TLAPS

-----------------------------------------------------------------------------
(* The inductive invariant.  A passport with an account has a field, so an  *)
(* effect that writes the device's session never skips it; every proof that *)
(* is stored anywhere is one of the n that were made; and neither the hooks  *)
(* nor the device's session, nor what a sign-in has read of it, holds a      *)
(* proof that was settled by then.                                           *)

Hooks == [addr : Wallets \cup {None}, field : Fields \cup {None}, acct : Accts \cup {None},
          cred : Creds \cup {None}, proof : Proofs \cup {None}]

MadeBefore(p, n) == p # None => p.no <= n

HooksOK(h, n) ==
    /\ h \in Hooks
    /\ h.acct # None => h.field # None
    /\ MadeBefore(h.proof, n)

PassportOK(p, n) ==
    /\ p \in Passports
    /\ p.acct # None => p.field # None
    /\ MadeBefore(p.proof, n)

WalletsOK(ws, n) ==
    /\ ws \in [Wallets -> Passports \cup {None}]
    /\ \A w \in Wallets : ws[w] # None => PassportOK(ws[w], n)

DeviceOK(d, n) ==
    /\ d \in Sessions \cup {None}
    /\ d # None => PassportOK(d.passport, n)

Call == [kind : {"signin", "load", "create", "request", "record", "sync"},
         addr : Wallets \cup {None}, field : Fields \cup {None}, acct : Accts \cup {None},
         proof : Proofs \cup {None}, saved : Sessions \cup {None}, old : SUBSET Proofs]

CallOK(c, n) ==
    /\ c \in Call
    /\ c.kind \in {"request", "record"} => c.field # None
    /\ c.kind = "record" => c.acct # None /\ c.proof # None
    /\ c.kind = "signin" => c.saved # None /\ c.saved.passport.proof \notin c.old
    /\ MadeBefore(c.proof, n)
    /\ DeviceOK(c.saved, n)

MadeOK == made \in [accts : 0..MaxAccts, creds : 0..MaxCreds, proofs : 0..MaxProofs]

SettledOK(S, n) == S \subseteq Proofs /\ \A p \in S : p.no <= n

DroppedOK ==
    /\ app.proof \notin settled
    /\ device # None => device.passport.proof \notin settled

AppInv ==
    /\ MadeOK
    /\ HooksOK(app, made.proofs)
    /\ WalletsOK(wallets, made.proofs)
    /\ DeviceOK(device, made.proofs)
    /\ last \in Wallets \cup {None}
    /\ \A c \in calls : CallOK(c, made.proofs)
    /\ SettledOK(settled, made.proofs)
    /\ DroppedOK
    /\ DeviceIsApp

-----------------------------------------------------------------------------
(* Lemmas about the operators.                                             *)

LEMMA EmptyOK == ASSUME NEW n \in Nat PROVE HooksOK(Empty, n)
BY DEF Empty, HooksOK, Hooks, MadeBefore

LEMMA KeptOK ==
    ASSUME NEW n \in Nat, NEW h, HooksOK(h, n)
    PROVE  /\ HooksOK(Kept(h), n)
           /\ Kept(h).acct = h.acct /\ Kept(h).field = h.field /\ Kept(h).addr = h.addr
           /\ Kept(h).proof \in {h.proof, None}
BY DEF Kept, HooksOK, Hooks, MadeBefore

LEMMA PassportIsOK ==
    ASSUME NEW n \in Nat, NEW h, HooksOK(h, n)
    PROVE  PassportOK(Passport(h), n)
BY DEF Passport, PassportOK, Passports, HooksOK, Hooks

LEMMA AppliedOK ==
    ASSUME NEW n \in Nat, NEW p, PassportOK(p, n), NEW w \in Wallets \cup {None}
    PROVE  HooksOK(Applied(p, w), n) /\ Applied(p, w).proof \in {p.proof, None}
BY DEF Applied, HooksOK, Hooks, PassportOK, Passports, MadeBefore

LEMMA FundedOK ==
    ASSUME NEW n \in Nat, NEW p, PassportOK(p, n), NEW w \in Wallets \cup {None}
    PROVE  DeviceOK(Funded(p, w), n) /\ Funded(p, w) # None
<1>1. Funded(p, w) \in Sessions /\ Funded(p, w).passport = p
  BY DEF Funded, Sessions, PassportOK
<1>2. QED
  BY <1>1, NoneAssumption DEF DeviceOK

LEMMA FundingOK ==
    ASSUME NEW n \in Nat, NEW d, DeviceOK(d, n)
    PROVE  Funding(d) \in Wallets \cup {None}
BY DEF Funding, DeviceOK, Sessions

\* What a render and its effects write.
LEMMA CommitOK ==
    ASSUME NEW n \in Nat, NEW h, HooksOK(h, n), NEW ws, WalletsOK(ws, n),
           NEW d, DeviceOK(d, n), Commit(h, ws, d)
    PROVE  /\ HooksOK(app', n) /\ WalletsOK(wallets', n) /\ DeviceOK(device', n)
           /\ DeviceIsApp'
           /\ app'.acct = h.acct /\ app'.proof \in {h.proof, None}
           /\ \/ device' # None /\ device'.passport.proof = app'.proof
              \/ h.acct = None /\ device' = d
<1> DEFINE k == Kept(h)
<1>1. /\ app' = k /\ wallets' = SaveWallet(k, ws)
      /\ device' = IF h.field # None THEN Store(k, d) ELSE d
  BY DEF Commit
<1>2. /\ HooksOK(k, n) /\ k.acct = h.acct /\ k.field = h.field /\ k.addr = h.addr
      /\ k.proof \in {h.proof, None}
  BY KeptOK
<1> HIDE DEF k
<1>3. PassportOK(Passport(k), n)
  BY <1>2, PassportIsOK
<1>4. WalletsOK(wallets', n)
  BY <1>1, <1>2, <1>3 DEF SaveWallet, WalletsOK, HooksOK, Hooks, PassportOK
<1>5. DeviceOK(Funded(Passport(k), Funding(d)), n) /\ Funded(Passport(k), Funding(d)) # None
      /\ Funded(Passport(k), Funding(d)).passport = Passport(k)
  BY <1>3, FundingOK, FundedOK DEF Funded
<1>6. DeviceOK(device', n)
  BY <1>1, <1>5 DEF Store
<1>7. ASSUME k.acct # None PROVE device' # None /\ device'.passport = Passport(k)
  BY <1>1, <1>2, <1>5, <1>7 DEF Store, HooksOK
<1>8. DeviceIsApp'
  BY <1>1, <1>7 DEF DeviceIsApp, Passport
<1>9. \/ device' # None /\ device'.passport.proof = app'.proof
      \/ h.acct = None /\ device' = d
  <2>1. CASE k.acct # None
    BY <1>1, <1>7, <2>1 DEF Passport
  <2>2. CASE k.acct = None
    BY <1>1, <1>2, <2>2 DEF Store
  <2>3. QED
    BY <2>1, <2>2
<1>10. QED
  BY <1>1, <1>2, <1>4, <1>6, <1>8, <1>9

\* What was made before is made before when more has been made.
LEMMA MoreMade ==
    ASSUME NEW n \in Nat, NEW m \in Nat, n <= m
    PROVE  /\ \A h : HooksOK(h, n) => HooksOK(h, m)
           /\ \A ws : WalletsOK(ws, n) => WalletsOK(ws, m)
           /\ \A d : DeviceOK(d, n) => DeviceOK(d, m)
           /\ \A S : SettledOK(S, n) => SettledOK(S, m)
           /\ \A c : CallOK(c, n) => CallOK(c, m)
<1>1. \A p : p \in Proofs \cup {None} /\ MadeBefore(p, n) => MadeBefore(p, m)
  BY DEF MadeBefore, Proofs
<1>2. \A h : HooksOK(h, n) => HooksOK(h, m)
  BY <1>1 DEF HooksOK, Hooks
<1>3. \A p : PassportOK(p, n) => PassportOK(p, m)
  BY <1>1 DEF PassportOK, Passports
<1>4. \A ws : WalletsOK(ws, n) => WalletsOK(ws, m)
  BY <1>3 DEF WalletsOK
<1>5. \A d : DeviceOK(d, n) => DeviceOK(d, m)
  BY <1>3 DEF DeviceOK
<1>6. \A S : SettledOK(S, n) => SettledOK(S, m)
  BY DEF SettledOK, Proofs
<1>7. \A c : CallOK(c, n) => CallOK(c, m)
  BY <1>1, <1>5 DEF CallOK, Call
<1>8. QED
  BY <1>2, <1>4, <1>5, <1>6, <1>7

LEMMA MadeIsNat == ASSUME AppInv PROVE made.proofs \in Nat /\ made.proofs <= MaxProofs
BY AppAssumption DEF AppInv, MadeOK

\* A step that renders new hooks.
LEMMA Rendered ==
    ASSUME AppInv, MadeOK', made'.proofs \in Nat, made.proofs <= made'.proofs,
           last' \in Wallets \cup {None}, \A c \in calls' : CallOK(c, made'.proofs),
           SettledOK(settled', made'.proofs), app'.proof \notin settled',
           NEW h, HooksOK(h, made'.proofs), NEW ws, WalletsOK(ws, made'.proofs),
           NEW d, DeviceOK(d, made'.proofs), Commit(h, ws, d),
           h.acct = None /\ d # None => d.passport.proof \notin settled'
    PROVE  AppInv'
<1>1. /\ HooksOK(app', made'.proofs) /\ WalletsOK(wallets', made'.proofs)
      /\ DeviceOK(device', made'.proofs) /\ DeviceIsApp'
      /\ \/ device' # None /\ device'.passport.proof = app'.proof
         \/ h.acct = None /\ device' = d
  BY CommitOK
<1>2. DroppedOK'
  BY <1>1 DEF DroppedOK
<1>3. (\A c \in calls : CallOK(c, made.proofs))'
  BY DEF CallOK, Call, DeviceOK, PassportOK, Passports, Sessions, MadeBefore
<1>4. QED
  BY <1>1, <1>2, <1>3
  DEF AppInv, HooksOK, Hooks, WalletsOK, DeviceOK, PassportOK, Passports, Sessions,
      MadeBefore, SettledOK

\* The invariant, in the words of the lemmas.
LEMMA AppInvFacts ==
    ASSUME AppInv
    PROVE  /\ MadeOK /\ HooksOK(app, made.proofs) /\ WalletsOK(wallets, made.proofs)
           /\ DeviceOK(device, made.proofs) /\ SettledOK(settled, made.proofs)
           /\ last \in Wallets \cup {None} /\ \A c \in calls : CallOK(c, made.proofs)
           /\ app.acct # None => device # None /\ device.passport = Passport(app)
           /\ made.proofs \in Nat /\ made.proofs <= made.proofs
           /\ app.proof \notin settled /\ None \notin settled
           /\ device # None => device.passport.proof \notin settled
<1>1. None \notin settled
  BY NoneAssumption DEF AppInv, SettledOK
<1>2. QED
  BY <1>1, MadeIsNat DEF AppInv, DeviceIsApp, DroppedOK

\* A step that renders nothing.
LEMMA OnlyCalls ==
    ASSUME AppInv, UNCHANGED <<app, wallets, device, last, settled, made>>,
           \A c \in calls' : CallOK(c, made.proofs)
    PROVE  AppInv'
<1>1. (\A c \in calls : CallOK(c, made.proofs))'
  BY DEF CallOK, Call, DeviceOK, PassportOK, Passports, Sessions, MadeBefore
<1>2. QED
  BY <1>1 DEF AppInv, MadeOK, HooksOK, Hooks, WalletsOK, DeviceOK, PassportOK, Passports, Sessions,
       MadeBefore, SettledOK, DroppedOK, DeviceIsApp, Passport

\* A proof that is shown is settled no more.
LEMMA ShownOK ==
    ASSUME AppInv, Shown
    PROVE  /\ SettledOK(settled', made.proofs) /\ app'.proof \notin settled'
           /\ device # None => device.passport.proof \notin settled'
BY AppInvFacts DEF Shown, SettledOK

\* Nor does a render show one that keeps the proof or drops it.
LEMMA KeptDropped ==
    ASSUME AppInv, NEW h, h.proof \in {app.proof, None}, NEW ws, NEW d, Commit(h, ws, d),
           "proof" \in DOMAIN h
    PROVE  app'.proof \notin settled
<1>1. app'.proof \in {h.proof, None}
  BY DEF Commit, Kept
<1>2. QED
  BY <1>1, AppInvFacts

-----------------------------------------------------------------------------
(* Wallets.                                                                *)

LEMMA ConnectStep == ASSUME AppInv, NEW w \in Wallets, Connect(w) PROVE AppInv'
<1> DEFINE n == made.proofs
<1>1. UNCHANGED <<calls, made>> /\ Shown /\ last' = w /\ MadeOK'
  BY AppInvFacts DEF Connect, MadeOK
<1>2. CASE device # None
  <2> DEFINE p == Linked(device.passport, wallets[w])
             d == [device EXCEPT !.funding = w]
  <2>1. PassportOK(p, n)
    BY <1>2, AppInvFacts DEF Linked, Or, DeviceOK, WalletsOK, PassportOK, Passports, MadeBefore
  <2>2. HooksOK(Applied(p, w), n)
    BY <2>1, AppInvFacts, AppliedOK
  <2>3. d \in Sessions /\ d.passport = device.passport
    BY <1>2, AppInvFacts DEF DeviceOK, Sessions
  <2>4. DeviceOK(d, n)
    BY <1>2, <2>3, AppInvFacts DEF DeviceOK
  <2>5. Commit(Applied(p, w), wallets, d)
    BY <1>2 DEF Connect
  <2> HIDE DEF p, d
  <2>6. QED
    BY <1>1, <1>2, <2>2, <2>3, <2>4, <2>5, AppInvFacts, ShownOK, Rendered
<1>3. CASE device = None /\ wallets[w] # None
  <2>1. PassportOK(wallets[w], n)
    BY <1>3, AppInvFacts DEF WalletsOK
  <2>2. HooksOK(Applied(wallets[w], w), n)
    BY <2>1, AppInvFacts, AppliedOK
  <2>3. Commit(Applied(wallets[w], w), wallets, device)
    BY <1>3 DEF Connect
  <2>4. QED
    BY <1>1, <1>3, <2>2, <2>3, AppInvFacts, ShownOK, Rendered
<1>4. CASE device = None /\ wallets[w] = None
  <2> DEFINE h == [app EXCEPT !.addr = w, !.field = w]
  <2>1. HooksOK(h, n)
    BY AppInvFacts, AppAssumption DEF HooksOK, Hooks, Fields
  <2>2. Commit(h, wallets, device)
    BY <1>4 DEF Connect
  <2> HIDE DEF h
  <2>3. QED
    BY <1>1, <1>4, <2>1, <2>2, AppInvFacts, ShownOK, Rendered
<1>5. QED
  BY <1>2, <1>3, <1>4

LEMMA DisconnectStep == ASSUME AppInv, Disconnect PROVE AppInv'
<1> DEFINE n == made.proofs
           saved == wallets[app.addr]
           ws == [wallets EXCEPT ![app.addr] = None]
           d == IF device = None /\ saved # None /\ saved.acct # None
                THEN Funded(saved, app.addr) ELSE device
<1>1. UNCHANGED <<calls, made>> /\ Shown /\ last' = None /\ MadeOK'
  BY AppInvFacts DEF Disconnect, MadeOK
<1>2. app.addr \in Wallets
  BY AppInvFacts DEF Disconnect, HooksOK, Hooks
<1>3. WalletsOK(ws, n)
  BY <1>2, AppInvFacts DEF WalletsOK
<1>4. DeviceOK(d, n)
  <2>1. CASE device = None /\ saved # None /\ saved.acct # None
    <3>1. PassportOK(saved, n)
      BY <1>2, <2>1, AppInvFacts DEF WalletsOK
    <3>2. QED
      BY <1>2, <2>1, <3>1, AppInvFacts, FundedOK
  <2>2. CASE ~(device = None /\ saved # None /\ saved.acct # None)
    BY <2>2, AppInvFacts
  <2>3. QED
    BY <2>1, <2>2
<1>5. IF d # None THEN Commit(Applied(d.passport, None), ws, d) ELSE Commit(Empty, ws, None)
  BY DEF Disconnect
<1>9. d # None => d = device \/ Applied(d.passport, None).acct # None
  BY DEF Applied, Funded
<1> HIDE DEF ws, d
<1>6. CASE d # None
  <2>1. HooksOK(Applied(d.passport, None), n)
    BY <1>4, <1>6, AppInvFacts, AppliedOK DEF DeviceOK
  <2>2. QED
    BY <1>1, <1>3, <1>4, <1>5, <1>6, <1>9, <2>1, AppInvFacts, ShownOK, Rendered
<1>7. CASE d = None
  <2>1. HooksOK(Empty, n) /\ DeviceOK(None, n)
    BY AppInvFacts, EmptyOK DEF DeviceOK
  <2>2. QED
    BY <1>1, <1>3, <1>5, <1>7, <2>1, AppInvFacts, ShownOK, Rendered
<1>8. QED
  BY <1>6, <1>7

LEMMA CallFailsStep == ASSUME AppInv, NEW c \in calls, CallFails(c) PROVE AppInv'
BY AppInvFacts, OnlyCalls DEF CallFails, End

LEMMA SignInStartStep == ASSUME AppInv, SignInStart PROVE AppInv'
<1> DEFINE c == [Waiting("signin", None, None, None, None) EXCEPT !.saved = device, !.old = settled]
<1>1. CallOK(c, made.proofs)
  BY AppInvFacts DEF SignInStart, Waiting, CallOK, Call, DeviceOK, SettledOK, MadeBefore
<1> HIDE DEF c
<1>2. QED
  BY <1>1, AppInvFacts, OnlyCalls DEF SignInStart, Begin, c

LEMMA SignInDoneStep == ASSUME AppInv, NEW c \in calls, SignInDone(c) PROVE AppInv'
<1>1. HooksOK(Applied(c.saved.passport, c.saved.funding), made.proofs)
  BY AppInvFacts, AppliedOK DEF SignInDone, CallOK, DeviceOK, Sessions
<1>2. UNCHANGED <<last, made>> /\ MadeOK' /\ calls' \subseteq calls
  BY AppInvFacts DEF SignInDone, End, MadeOK
<1>3. Shown /\ Commit(Applied(c.saved.passport, c.saved.funding), wallets, device)
  BY DEF SignInDone
<1>4. QED
  BY <1>1, <1>2, <1>3, AppInvFacts, ShownOK, Rendered

\* The hooks of a page that is shown a wallet, with what the device has or not.
LEMMA FoundOK ==
    ASSUME NEW n \in Nat, NEW h, HooksOK(h, n), NEW ws, WalletsOK(ws, n), NEW w \in Wallets,
           NEW known \in BOOLEAN
    PROVE  HooksOK(IF known THEN [h EXCEPT !.addr = w]
                   ELSE IF ws[w] # None THEN Applied(ws[w], w)
                   ELSE [h EXCEPT !.addr = w, !.field = w], n)
<1>1. HooksOK([h EXCEPT !.addr = w], n)
  BY DEF HooksOK, Hooks
<1>2. ws[w] # None => HooksOK(Applied(ws[w], w), n)
  BY AppliedOK DEF WalletsOK
<1>3. HooksOK([h EXCEPT !.addr = w, !.field = w], n)
  BY AppAssumption DEF HooksOK, Hooks, Fields
<1>4. QED
  BY <1>1, <1>2, <1>3

LEMMA ReloadStep == ASSUME AppInv, Reload PROVE AppInv'
<1> DEFINE n == made.proofs
           start == IF device # None THEN Applied(device.passport, device.funding) ELSE Empty
           ws == SaveWallet(start, wallets)
           hooks == IF device # None THEN [start EXCEPT !.addr = last]
                    ELSE IF ws[last] # None THEN Applied(ws[last], last)
                    ELSE [start EXCEPT !.addr = last, !.field = last]
           load == [Waiting("load", None, None, None, None) EXCEPT !.saved = device]
<1>1. UNCHANGED <<last, made>> /\ MadeOK' /\ Shown
  BY AppInvFacts DEF Reload, MadeOK
<1>2. HooksOK(start, n)
  BY AppInvFacts, AppliedOK, EmptyOK DEF DeviceOK, Sessions
<1>3. PassportOK(Passport(start), n)
  BY <1>2, AppInvFacts, PassportIsOK
<1>4. \/ last = None /\ Commit(start, ws, device) /\ calls' = {load}
      \/ last # None /\ Commit(hooks, ws, device) /\ calls' = {}
  BY DEF Reload
<1>5. WalletsOK(ws, n)
  BY <1>2, <1>3, AppInvFacts DEF SaveWallet, WalletsOK, HooksOK, Hooks, PassportOK
<1>6. last # None => HooksOK(hooks, n)
  <2> HIDE DEF start, ws
  <2>1. last # None => last \in Wallets
    BY AppInvFacts
  <2>2. QED
    BY <1>2, <1>5, <2>1, AppInvFacts, FoundOK
<1>7. CallOK(load, n)
  BY AppInvFacts DEF Waiting, CallOK, Call, DeviceOK, MadeBefore
<1> HIDE DEF start, ws, hooks, load
<1>8. CASE last = None /\ Commit(start, ws, device) /\ calls' = {load}
  BY <1>1, <1>2, <1>5, <1>7, <1>8, AppInvFacts, ShownOK, Rendered
<1>9. CASE last # None /\ Commit(hooks, ws, device) /\ calls' = {}
  BY <1>1, <1>5, <1>6, <1>9, AppInvFacts, ShownOK, Rendered
<1>10. QED
  BY <1>4, <1>8, <1>9

LEMMA FoundStep ==
    ASSUME AppInv, NEW c \in calls, NEW w \in Wallets, Found(c, w) PROVE AppInv'
<1> DEFINE h == IF c.saved # None THEN [app EXCEPT !.addr = w]
                ELSE IF wallets[w] # None THEN Applied(wallets[w], w)
                ELSE [app EXCEPT !.addr = w, !.field = w]
<1>1. HooksOK(h, made.proofs)
  BY AppInvFacts, FoundOK
<1>2. /\ UNCHANGED made /\ MadeOK' /\ calls' \subseteq calls /\ last' = w /\ Shown
      /\ Commit(h, wallets, device)
  BY AppInvFacts DEF Found, End, MadeOK
<1> HIDE DEF h
<1>3. QED
  BY <1>1, <1>2, AppInvFacts, ShownOK, Rendered

-----------------------------------------------------------------------------
(* Accounts and credentials.                                               *)

\* A call of the render there is.
LEMMA WaitingIsOK ==
    ASSUME AppInv
    PROVE  /\ CallOK(Waiting("create", app.addr, None, None, None), made.proofs)
           /\ app.field # None =>
                CallOK(Waiting("request", app.addr, app.field, app.acct, None), made.proofs)
           /\ app.proof # None /\ app.acct # None =>
                CallOK(Waiting("record", app.addr, app.field, app.acct, app.proof), made.proofs)
           /\ CallOK(Waiting("sync", app.addr, app.field, None, app.proof), made.proofs)
BY AppInvFacts DEF Waiting, CallOK, Call, HooksOK, Hooks, DeviceOK, MadeBefore

LEMMA CreateStartStep == ASSUME AppInv, CreateStart PROVE AppInv'
BY AppInvFacts, WaitingIsOK, OnlyCalls DEF CreateStart, Begin

LEMMA ReplaceStartStep == ASSUME AppInv, ReplaceStart PROVE AppInv'
<1> DEFINE n == made.proofs
           h == [app EXCEPT !.acct = None, !.proof = None]
           d == IF app.addr = None THEN [device EXCEPT !.passport.proof = None] ELSE device
<1>1. UNCHANGED <<last, settled, made>> /\ MadeOK' /\ Commit(h, wallets, d)
  BY AppInvFacts DEF ReplaceStart, MadeOK
<1>2. \A c \in calls' : CallOK(c, n)
  BY AppInvFacts, WaitingIsOK DEF ReplaceStart, Begin
<1>3. HooksOK(h, n)
  BY AppInvFacts DEF HooksOK, Hooks, MadeBefore
<1>4. DeviceOK(d, n)
  <2>1. device # None /\ device \in Sessions /\ PassportOK(device.passport, n)
    BY AppInvFacts DEF ReplaceStart, DeviceOK
  <2> DEFINE e == [device EXCEPT !.passport.proof = None]
  <2>2. /\ e \in Sessions
        /\ e.passport.acct = device.passport.acct /\ e.passport.field = device.passport.field
        /\ e.passport.proof = None /\ e.passport \in Passports
    BY <2>1 DEF Sessions, Passports
  <2>3. PassportOK(e.passport, n)
    BY <2>1, <2>2 DEF PassportOK, MadeBefore
  <2>4. DeviceOK(e, n)
    BY <2>2, <2>3 DEF DeviceOK
  <2>5. QED
    BY <2>4, AppInvFacts
<1>5. h.proof = None /\ "proof" \in DOMAIN h
  BY AppInvFacts DEF HooksOK, Hooks
<1>6. d.passport.proof \in {device.passport.proof, None} /\ device # None
  BY AppInvFacts DEF ReplaceStart, DeviceOK, Sessions, Passports
<1> HIDE DEF h, d
<1>7. app'.proof \notin settled'
  BY <1>1, <1>5, KeptDropped
<1>8. d.passport.proof \notin settled'
  BY <1>1, <1>6, AppInvFacts
<1>9. QED
  BY <1>1, <1>2, <1>3, <1>4, <1>7, <1>8, AppInvFacts, Rendered

LEMMA CreateDoneStep == ASSUME AppInv, NEW c \in calls, CreateDone(c) PROVE AppInv'
<1> DEFINE n  == made.proofs
           a  == made.accts + 1
           h  == [app EXCEPT !.acct = a, !.field = a]
           ws == IF c.addr = None THEN wallets
                 ELSE [wallets EXCEPT ![c.addr] =
                         IF @ = None THEN [field |-> a, acct |-> a, cred |-> None, proof |-> None]
                         ELSE [@ EXCEPT !.field = a, !.acct = a]]
           d  == IF c.addr = None \/ device = None THEN device
                 ELSE [device EXCEPT !.funding = c.addr]
           e  == Funded(Passport(h), c.addr)
<1>1. a \in Accts /\ a # None
  BY AppInvFacts, AppAssumption DEF CreateDone, MadeOK, Accts
<1>2. /\ MadeOK' /\ made'.proofs = made.proofs
      /\ calls' \subseteq calls /\ UNCHANGED <<last, settled>>
  BY AppInvFacts, AppAssumption DEF CreateDone, End, MadeOK
<1>3. Commit(h, ws, e) \/ Commit(h, ws, d)
  BY DEF CreateDone
<1>4. c.addr \in Wallets \cup {None}
  BY AppInvFacts DEF CallOK, Call
<1>5. HooksOK(h, n)
  BY <1>1, AppInvFacts DEF HooksOK, Hooks, Fields
<1>6. WalletsOK(ws, n)
  <2>1. CASE c.addr = None
    BY <2>1, AppInvFacts
  <2>2. CASE c.addr # None
    <3> DEFINE p == wallets[c.addr]
               new == [field |-> a, acct |-> a, cred |-> None, proof |-> None]
               upd == [p EXCEPT !.field = a, !.acct = a]
    <3>1. PassportOK(new, n)
      BY <1>1 DEF PassportOK, Passports, Fields, MadeBefore
    <3>2. p # None => PassportOK(upd, n)
      BY <1>1, <1>4, <2>2, AppInvFacts DEF WalletsOK, PassportOK, Passports, Fields, MadeBefore
    <3>3. ws = [wallets EXCEPT ![c.addr] = IF p = None THEN new ELSE upd]
      BY <2>2
    <3> HIDE DEF p, new, upd, ws
    <3>4. QED
      BY <1>4, <2>2, <3>1, <3>2, <3>3, AppInvFacts DEF WalletsOK, PassportOK
  <2>3. QED
    BY <2>1, <2>2
<1>7. DeviceOK(d, n)
  BY <1>4, AppInvFacts DEF DeviceOK, Sessions
<1>8. DeviceOK(e, n)
  BY <1>4, <1>5, AppInvFacts, PassportIsOK, FundedOK
<1>9. h.acct # None /\ h.proof = app.proof /\ "proof" \in DOMAIN h
  BY <1>1, AppInvFacts DEF HooksOK, Hooks
<1> HIDE DEF a, h, ws, d, e
<1>10. app'.proof \notin settled'
  BY <1>2, <1>3, <1>9, KeptDropped
<1>11. QED
  BY <1>2, <1>3, <1>5, <1>6, <1>7, <1>8, <1>9, <1>10, AppInvFacts, Rendered

LEMMA RequestStartStep == ASSUME AppInv, RequestStart PROVE AppInv'
BY AppInvFacts, WaitingIsOK, OnlyCalls DEF RequestStart, Begin

LEMMA RequestDoneStep == ASSUME AppInv, NEW c \in calls, RequestDone(c) PROVE AppInv'
<1> DEFINE n   == made.proofs
           new == [field |-> c.field, no |-> made.creds + 1]
           p   == [field |-> c.field, acct |-> c.acct, cred |-> new, proof |-> None]
           q   == [p EXCEPT !.acct = IF wallets[c.addr] = None THEN None
                                     ELSE wallets[c.addr].acct]
           ws  == IF c.addr = None THEN wallets ELSE [wallets EXCEPT ![c.addr] = q]
           d   == IF c.acct = None THEN device ELSE Funded(p, Or(c.addr, Funding(device)))
           h   == [app EXCEPT !.field = c.field, !.cred = new, !.proof = None]
<1>1. /\ c.field \in Fields /\ c.field # None /\ c.acct \in Accts \cup {None}
      /\ c.addr \in Wallets \cup {None}
  BY AppInvFacts DEF RequestDone, CallOK, Call
<1>2. new \in Creds
  BY <1>1, AppInvFacts, AppAssumption DEF RequestDone, MadeOK, Creds
<1>3. /\ MadeOK' /\ made'.proofs = made.proofs
      /\ calls' \subseteq calls /\ UNCHANGED <<last, settled>>
  BY AppInvFacts, AppAssumption DEF RequestDone, End, MadeOK
<1>4. Commit(h, ws, d)
  BY DEF RequestDone
<1> HIDE DEF new
<1>5. HooksOK(h, n)
  BY <1>1, <1>2, AppInvFacts DEF HooksOK, Hooks, MadeBefore
<1>6. PassportOK(p, n)
  BY <1>1, <1>2 DEF PassportOK, Passports, MadeBefore
<1>7. WalletsOK(ws, n)
  <2>1. c.addr # None => PassportOK(q, n)
    BY <1>1, <1>2, <1>6, AppInvFacts DEF WalletsOK, PassportOK, Passports, MadeBefore
  <2> HIDE DEF q
  <2>2. QED
    BY <1>1, <2>1, AppInvFacts DEF WalletsOK, PassportOK
<1>8. DeviceOK(d, n)
  <2>1. Or(c.addr, Funding(device)) \in Wallets \cup {None}
    BY <1>1, AppInvFacts, FundingOK DEF Or
  <2> HIDE DEF p
  <2>2. QED
    BY <1>6, <2>1, AppInvFacts, FundedOK
<1>9. h.proof = None /\ "proof" \in DOMAIN h
  BY AppInvFacts DEF HooksOK, Hooks
<1>10. d # None => d.passport.proof \notin settled
  BY AppInvFacts DEF Funded
<1> HIDE DEF h, ws, d
<1>11. app'.proof \notin settled'
  BY <1>3, <1>4, <1>9, KeptDropped
<1>12. QED
  BY <1>3, <1>4, <1>5, <1>7, <1>8, <1>10, <1>11, AppInvFacts, Rendered

LEMMA ProofMadeStep == ASSUME AppInv, ProofMade PROVE AppInv'
<1> DEFINE m   == made.proofs + 1
           new == [cred |-> app.cred.no, no |-> m]
           h   == [app EXCEPT !.proof = new]
<1>1. new \in Proofs /\ made.proofs \in Nat /\ m \in Nat
  BY AppInvFacts, AppAssumption DEF ProofMade, MadeOK, Proofs, HooksOK, Hooks, Creds
<1>2. /\ MadeOK' /\ made'.proofs = m /\ UNCHANGED <<last, calls, settled>>
      /\ Commit(h, wallets, device)
  BY AppInvFacts, AppAssumption DEF ProofMade, MadeOK
<1>3. /\ HooksOK(app, m) /\ WalletsOK(wallets, m) /\ DeviceOK(device, m) /\ SettledOK(settled, m)
      /\ \A c \in calls : CallOK(c, m)
  BY <1>1, AppInvFacts, MoreMade
<1>4. HooksOK(h, m)
  BY <1>1, <1>3 DEF HooksOK, Hooks, MadeBefore
<1>5. new \notin settled
  BY AppInvFacts DEF SettledOK, Proofs
<1>6. app'.proof \in {new, None}
  BY <1>2, AppInvFacts DEF Commit, Kept, HooksOK, Hooks
<1> HIDE DEF h, m, new
<1>7. made.proofs <= m
  BY <1>1 DEF m
<1>8. app'.proof \notin settled'
  BY <1>2, <1>5, <1>6, AppInvFacts
<1>9. QED
  BY <1>1, <1>2, <1>3, <1>4, <1>7, <1>8, AppInvFacts, Rendered

LEMMA RecordStartStep == ASSUME AppInv, RecordStart PROVE AppInv'
BY AppInvFacts, WaitingIsOK, OnlyCalls DEF RecordStart, Begin

\* A proof written into the session of a call's wallet.
LEMMA WithProofOK ==
    ASSUME NEW n \in Nat, NEW ws, WalletsOK(ws, n), NEW c, CallOK(c, n), NEW p \in {c.proof, None}
    PROVE  WalletsOK(WithProof(c, p, ws), n)
<1>1. CASE c.addr = None \/ c.field = None
  BY <1>1 DEF WithProof
<1>2. CASE c.addr # None /\ c.field # None
  <2> DEFINE q == [IF ws[c.addr] = None THEN Blank ELSE ws[c.addr] EXCEPT !.field = c.field, !.proof = p]
  <2>1. /\ c.addr \in Wallets /\ c.field \in Fields
        /\ p \in Proofs \cup {None} /\ MadeBefore(p, n)
    BY <1>2 DEF CallOK, Call, MadeBefore
  <2>2. Blank \in Passports /\ ws[c.addr] \in Passports \cup {None}
    BY <2>1 DEF Blank, Passports, WalletsOK
  <2>3. q \in Passports /\ q.field = c.field /\ q.proof = p
    BY <2>1, <2>2 DEF Passports
  <2>4. PassportOK(q, n)
    BY <1>2, <2>1, <2>3 DEF PassportOK
  <2>5. WithProof(c, p, ws) = [ws EXCEPT ![c.addr] = q]
    BY <1>2 DEF WithProof
  <2> HIDE DEF q
  <2>6. QED
    BY <2>1, <2>3, <2>4, <2>5 DEF WalletsOK
<1>3. QED
  BY <1>1, <1>2

LEMMA RecordDoneStep == ASSUME AppInv, NEW c \in calls, RecordDone(c) PROVE AppInv'
<1> DEFINE n == made.proofs
           h == [app EXCEPT !.proof = None]
           ws == WithProof(c, None, wallets)
           d == Recorded(c, device)
<1>1. c \in Call /\ CallOK(c, n) /\ c.field # None /\ c.proof # None /\ c.proof \in Proofs
  BY AppInvFacts DEF RecordDone, CallOK, Call
<1>2. HooksOK(h, n) /\ h.proof = None /\ "proof" \in DOMAIN h
  BY AppInvFacts DEF HooksOK, Hooks, MadeBefore
<1>3. WalletsOK(ws, n)
  BY <1>1, AppInvFacts, WithProofOK
<1>4. DeviceOK(d, n) /\ d.passport.proof = None
  <2> DEFINE p == [field |-> c.field, acct |-> c.acct, proof |-> None,
                   cred |-> IF device = None THEN None ELSE device.passport.cred]
  <2>1. PassportOK(p, n)
    BY <1>1, AppInvFacts DEF Call, PassportOK, Passports, DeviceOK, MadeBefore
  <2>2. d = Funded(p, Funding(device)) /\ p.proof = None
    BY DEF Recorded
  <2> HIDE DEF p, d
  <2>3. QED
    BY <2>1, <2>2, AppInvFacts, FundingOK, FundedOK DEF Funded
<1>5. SettledOK(settled', n) /\ None \notin settled'
  BY <1>1, AppInvFacts DEF RecordDone, SettledOK, CallOK, MadeBefore
<1>6. Commit(h, ws, d) /\ UNCHANGED <<last, made>> /\ MadeOK' /\ calls' \subseteq calls
  BY AppInvFacts DEF RecordDone, End, MadeOK
<1>7. app'.proof = None
  BY <1>2, <1>6 DEF Commit, Kept
<1> HIDE DEF h, ws, d
<1>8. QED
  BY <1>2, <1>3, <1>4, <1>5, <1>6, <1>7, AppInvFacts, Rendered

LEMMA SyncStartStep == ASSUME AppInv, SyncStart PROVE AppInv'
BY AppInvFacts, WaitingIsOK, OnlyCalls DEF SyncStart, Begin

LEMMA SyncDoneStep ==
    ASSUME AppInv, NEW c \in calls, NEW consumed \in BOOLEAN, SyncDone(c, consumed) PROVE AppInv'
<1> DEFINE n == made.proofs
           h == IF consumed /\ c.proof # None THEN [app EXCEPT !.proof = None] ELSE app
           p == IF consumed THEN None ELSE c.proof
           ws == WithProof(c, p, wallets)
<1>1. HooksOK(h, n) /\ h.proof \in {app.proof, None} /\ "proof" \in DOMAIN h
  BY AppInvFacts DEF HooksOK, Hooks, MadeBefore
<1>2. WalletsOK(ws, n)
  <2>1. p \in {c.proof, None}
    OBVIOUS
  <2> HIDE DEF p
  <2>2. QED
    BY <2>1, AppInvFacts, WithProofOK
<1>3. /\ Commit(h, ws, device) /\ UNCHANGED <<last, settled, made>> /\ MadeOK'
      /\ calls' \subseteq calls
  BY AppInvFacts DEF SyncDone, End, MadeOK
<1> HIDE DEF h, ws
<1>4. app'.proof \notin settled'
  BY <1>1, <1>3, KeptDropped
<1>5. QED
  BY <1>1, <1>2, <1>3, <1>4, AppInvFacts, Rendered

LEMMA BeginRecoveryStep == ASSUME AppInv, BeginRecovery PROVE AppInv'
<1> DEFINE h == [app EXCEPT !.cred = None, !.proof = None]
<1>1. HooksOK(h, made.proofs)
  BY AppInvFacts DEF HooksOK, Hooks, MadeBefore
<1>2. Commit(h, wallets, device) /\ UNCHANGED <<last, calls, settled, made>> /\ MadeOK'
  BY AppInvFacts DEF BeginRecovery, MadeOK
<1>3. h.proof = None /\ "proof" \in DOMAIN h
  BY AppInvFacts DEF HooksOK, Hooks
<1> HIDE DEF h
<1>4. app'.proof \notin settled'
  BY <1>2, <1>3, KeptDropped
<1>5. QED
  BY <1>1, <1>2, <1>4, AppInvFacts, Rendered

-----------------------------------------------------------------------------
(* Theorems.                                                               *)

LEMMA AppInvInit == AppInit => AppInv
BY AppAssumption
DEF AppInit, AppInv, MadeOK, Empty, HooksOK, Hooks, WalletsOK, DeviceOK, SettledOK, MadeBefore,
    DroppedOK, DeviceIsApp

LEMMA AppInvStep == AppInv /\ [AppNext]_appVars => AppInv'
<1> SUFFICES ASSUME AppInv, [AppNext]_appVars PROVE AppInv'
  OBVIOUS
<1>1. CASE UNCHANGED appVars
  BY <1>1, AppInvFacts, OnlyCalls DEF appVars
<1>2. ASSUME NEW w \in Wallets, Connect(w) PROVE AppInv'
  BY <1>2, ConnectStep
<1>3. CASE Disconnect \/ SignInStart \/ Reload
  BY <1>3, DisconnectStep, SignInStartStep, ReloadStep
<1>4. CASE CreateStart \/ ReplaceStart \/ RequestStart \/ RecordStart \/ SyncStart
  BY <1>4, CreateStartStep, ReplaceStartStep, RequestStartStep, RecordStartStep, SyncStartStep
<1>5. ASSUME NEW c \in calls,
             SignInDone(c) \/ CreateDone(c) \/ RequestDone(c) \/ RecordDone(c) \/ CallFails(c)
      PROVE  AppInv'
  BY <1>5, SignInDoneStep, CreateDoneStep, RequestDoneStep, RecordDoneStep, CallFailsStep
<1>6. ASSUME NEW c \in calls, NEW w \in Wallets, Found(c, w) PROVE AppInv'
  BY <1>6, FoundStep
<1>7. ASSUME NEW c \in calls, NEW consumed \in BOOLEAN, SyncDone(c, consumed) PROVE AppInv'
  BY <1>7, SyncDoneStep
<1>8. CASE ProofMade \/ BeginRecovery
  BY <1>8, ProofMadeStep, BeginRecoveryStep
<1>9. QED
  BY <1>1, <1>2, <1>3, <1>4, <1>5, <1>6, <1>7, <1>8 DEF AppNext

\* The hooks and both stored sessions are as the invariant says in every
\* behaviour (the effects of AppContext).
THEOREM AppInvariant == AppSpec => []AppInv
BY AppInvInit, AppInvStep, PTL DEF AppSpec

\* What the device remembers of an account at hand is what the page shows
\* (persistPasskeySession and the handlers that write the session themselves).
THEOREM DeviceIsAppHolds == AppSpec => []DeviceIsApp
<1>1. AppInv => DeviceIsApp
  BY DEF AppInv
<1>2. QED
  BY <1>1, AppInvariant, PTL

-----------------------------------------------------------------------------
(* What is settled stays dropped.                                          *)

Revived == app.acct # None /\ app'.proof \in settled

FromWalletOrEarlier ==
    \/ \E w \in Wallets : Connect(w)
    \/ \E c \in calls :
           \/ c.saved = None /\ \E w \in Wallets : Found(c, w)
           \/ SignInDone(c) /\ app'.proof \notin c.old

\* With an account at hand, the passport on the device has the proof of the hooks.
LEMMA AppliedIsApp ==
    ASSUME AppInv, app.acct # None, NEW w
    PROVE  /\ device # None
           /\ Applied(device.passport, w).proof \in {app.proof, None}
           /\ "proof" \in DOMAIN Applied(device.passport, w)
<1>1. device # None /\ device.passport = Passport(app)
  BY AppInvFacts
<1>2. Passport(app).proof = app.proof
  BY DEF Passport
<1>3. QED
  BY <1>1, <1>2 DEF Applied

LEMMA DisconnectRevivesNone == ASSUME AppInv, Disconnect PROVE ~Revived
<1> SUFFICES ASSUME app.acct # None PROVE app'.proof \notin settled
  BY DEF Revived
<1>1. Commit(Applied(device.passport, None), [wallets EXCEPT ![app.addr] = None], device)
  BY AppliedIsApp DEF Disconnect
<1>2. QED
  BY <1>1, AppliedIsApp, KeptDropped

LEMMA ReloadRevivesNone == ASSUME AppInv, Reload PROVE ~Revived
<1> SUFFICES ASSUME app.acct # None PROVE app'.proof \notin settled
  BY DEF Revived
<1> DEFINE start == Applied(device.passport, device.funding)
           ws == SaveWallet(start, wallets)
<1>1. device # None
  BY AppliedIsApp
<1>2. Commit(start, ws, device) \/ Commit([start EXCEPT !.addr = last], ws, device)
  BY <1>1 DEF Reload
<1>3. start.proof \in {app.proof, None} /\ "proof" \in DOMAIN start
  BY AppliedIsApp
<1> HIDE DEF start, ws
<1>4. /\ [start EXCEPT !.addr = last].proof = start.proof
      /\ "proof" \in DOMAIN [start EXCEPT !.addr = last]
  BY <1>3
<1>5. QED
  BY <1>2, <1>3, <1>4, KeptDropped

\* A load that had found the device's session takes the wallet and no more.
LEMMA FoundRevivesNone ==
    ASSUME AppInv, NEW c \in calls, c.saved # None, NEW w \in Wallets, Found(c, w)
    PROVE  ~Revived
<1> DEFINE h == [app EXCEPT !.addr = w]
<1>1. Commit(h, wallets, device)
  BY DEF Found
<1>2. h.proof = app.proof /\ "proof" \in DOMAIN h
  BY AppInvFacts DEF HooksOK, Hooks
<1> HIDE DEF h
<1>3. QED
  BY <1>1, <1>2, KeptDropped DEF Revived

\* A sign-in shows what the device had, which was not settled when it began.
LEMMA SignInRevivesLater ==
    ASSUME AppInv, NEW c \in calls, SignInDone(c), Revived
    PROVE  app'.proof \notin c.old
<1>1. CallOK(c, made.proofs) /\ c.kind = "signin"
  BY AppInvFacts DEF SignInDone
<1>2. app'.proof \in {c.saved.passport.proof, None}
  BY DEF SignInDone, Commit, Kept, Applied
<1>3. None \notin settled
  BY AppInvFacts
<1>4. QED
  BY <1>1, <1>2, <1>3 DEF Revived, CallOK

\* The other handlers keep the proof, drop it, or show a new one.
LEMMA DoneRevivesNone ==
    ASSUME AppInv, NEW c \in calls,
           CreateDone(c) \/ RequestDone(c) \/ RecordDone(c) \/ \E b \in BOOLEAN : SyncDone(c, b)
    PROVE  ~Revived
<1> DEFINE a == made.accts + 1
           new == [field |-> c.field, no |-> made.creds + 1]
           kept == [app EXCEPT !.acct = a, !.field = a]
           renewed == [app EXCEPT !.field = c.field, !.cred = new, !.proof = None]
           dropped == [app EXCEPT !.proof = None]
<1>1. PICK h \in {app, kept, renewed, dropped} : \E ws, d : Commit(h, ws, d)
  BY DEF CreateDone, RequestDone, RecordDone, SyncDone
<1>2. h.proof \in {app.proof, None} /\ "proof" \in DOMAIN h
  BY AppInvFacts DEF HooksOK, Hooks
<1> HIDE DEF kept, renewed, dropped
<1>3. QED
  BY <1>1, <1>2, KeptDropped DEF Revived

LEMMA ShowsNone ==
    ASSUME AppInv, ReplaceStart \/ BeginRecovery
    PROVE  ~Revived
<1> DEFINE gone == [app EXCEPT !.acct = None, !.proof = None]
           bare == [app EXCEPT !.cred = None, !.proof = None]
<1>1. PICK h \in {gone, bare} : \E ws, d : Commit(h, ws, d)
  BY DEF ReplaceStart, BeginRecovery
<1>2. h.proof = None /\ "proof" \in DOMAIN h
  BY AppInvFacts DEF HooksOK, Hooks
<1> HIDE DEF gone, bare
<1>3. QED
  BY <1>1, <1>2, KeptDropped DEF Revived

LEMMA NewProofIsNotSettled == ASSUME AppInv, ProofMade PROVE ~Revived
<1> DEFINE new == [cred |-> app.cred.no, no |-> made.proofs + 1]
           h == [app EXCEPT !.proof = new]
<1>1. h.proof = new /\ "proof" \in DOMAIN h
  BY AppInvFacts DEF HooksOK, Hooks
<1>2. Commit(h, wallets, device)
  BY DEF ProofMade
<1>3. app'.proof \in {new, None}
  BY <1>1, <1>2 DEF Commit, Kept
<1>4. new \notin settled /\ None \notin settled
  BY AppInvFacts DEF SettledOK, Proofs
<1>5. QED
  BY <1>3, <1>4 DEF Revived

LEMMA QuietRevivesNone == ASSUME AppInv, UNCHANGED app PROVE ~Revived
BY AppInvFacts DEF Revived

LEMMA SettledStaysDroppedStep ==
    AppInv /\ [AppNext]_appVars => [Revived => FromWalletOrEarlier]_appVars
<1> SUFFICES ASSUME AppInv, AppNext, Revived PROVE FromWalletOrEarlier
  BY QuietRevivesNone DEF appVars
<1>1. ASSUME NEW w \in Wallets, Connect(w) PROVE FromWalletOrEarlier
  BY <1>1 DEF FromWalletOrEarlier
<1>2. ~Disconnect /\ ~Reload
  BY DisconnectRevivesNone, ReloadRevivesNone
<1>3. ~(SignInStart \/ CreateStart \/ RequestStart \/ RecordStart \/ SyncStart)
  BY QuietRevivesNone DEF SignInStart, CreateStart, RequestStart, RecordStart, SyncStart
<1>4. ~(ReplaceStart \/ ProofMade \/ BeginRecovery)
  BY ShowsNone, NewProofIsNotSettled
<1>5. ASSUME NEW c \in calls, SignInDone(c) PROVE FromWalletOrEarlier
  BY <1>5, SignInRevivesLater DEF FromWalletOrEarlier
<1>6. ASSUME NEW c \in calls, NEW w \in Wallets, Found(c, w) PROVE FromWalletOrEarlier
  BY <1>6, FoundRevivesNone DEF FromWalletOrEarlier
<1>7. ASSUME NEW c \in calls
      PROVE  /\ ~(CreateDone(c) \/ RequestDone(c) \/ RecordDone(c) \/ CallFails(c))
             /\ \A b \in BOOLEAN : ~SyncDone(c, b)
  BY DoneRevivesNone, QuietRevivesNone DEF CallFails
<1>8. QED
  BY <1>1, <1>2, <1>3, <1>4, <1>5, <1>6, <1>7 DEF AppNext

\* A proof recorded as settled comes back to an account at hand only from the
\* session of a wallet, or by a sign-in that began before it was recorded
\* (recordTransferTx, signInWithPasskey, applySession).
THEOREM SettledStaysDroppedHolds == AppSpec => SettledStaysDropped
<1>1. AppInv /\ [AppNext]_appVars
        => [app.acct # None /\ app'.proof \in settled
              => \/ \E w \in Wallets : Connect(w)
                 \/ \E c \in calls :
                        \/ c.saved = None /\ \E w \in Wallets : Found(c, w)
                        \/ SignInDone(c) /\ app'.proof \notin c.old]_appVars
  BY SettledStaysDroppedStep DEF Revived, FromWalletOrEarlier
<1>2. QED
  BY <1>1, AppInvariant, PTL DEF AppSpec, SettledStaysDropped
=============================================================================
