---------------------------- MODULE FaucetProofs ----------------------------
(* Theorems about the testnet faucet, for any number of requests, holders,  *)
(* funders, claims and restarts, and any cooldown.                          *)
EXTENDS Faucet, SequenceTheorems, TLAPS

-----------------------------------------------------------------------------
(* The inductive invariant.                                                *)

Sacs     == [Assets \ {"treasury"} -> [Accounts -> Nat]]
Record   == [key : Keys, at : 0..MaxTime, id : Nat]

Run == [pc : {"idle", "pick", "boot", "mint", "deposit", "send", "wait"},
        key : Keys \cup {None}, from : Accounts \cup {None}, i : Nat, turn : Nat, short : Nat,
        booted : BOOLEAN, id : 0..MaxClaims, began : 0..MaxTime, saw : SUBSET Nat]

TypesOK ==
    /\ now \in 0..MaxTime /\ made \in 0..MaxClaims
    /\ sac \in Sacs /\ classic \in [Accounts -> Nat]
    /\ claims \in [Keys -> (0..MaxTime) \cup {None}]
    /\ confirmed \in Seq(Record) /\ torn \in 0..Len(confirmed)
    /\ pool \in [Accounts -> Payments \cup {None}] /\ paid \subseteq Payments

\* Where a handler is in its loops, and that it pays from an account.
ShapeOK(x) ==
    /\ x.i \in 1..(Len(Funders) + 1) /\ x.turn \in 0..TopUps
    /\ x.pc = "deposit" => x.i <= Len(Funders) /\ x.turn < TopUps
    /\ x.pc \in {"pick", "boot", "mint", "deposit"} => x.key.asset \in Assets \ {"treasury"}
    /\ x.pc = "send" => x.from \in Accounts
    /\ x.pc # "idle" => x.key \in Keys

RunsOK == req \in [Requests -> Run] /\ \A r \in Requests : ShapeOK(req[r])

\* What the file has forgotten of the confirmed claims lies before torn.
FileOK ==
    \A j \in DOMAIN confirmed :
        /\ confirmed[j].at <= now
        /\ j > torn => /\ claims[confirmed[j].key] # None
                       /\ confirmed[j].at <= claims[confirmed[j].key]

\* Of a claim or a payment: the claims of its kind recorded when it began were old.
SawOK(x) ==
    /\ x.saw \subseteq DOMAIN confirmed
    /\ \A j \in x.saw : confirmed[j].key = x.key => x.began - confirmed[j].at >= Cooldown

\* The payments applied, and the ones the network holds.
Pays == (paid \cup {pool[f] : f \in Accounts}) \ {None}

PaysOK == \A p \in Pays : SawOK(p) /\ \A n \in p.by : n <= made

\* A claim's number is its own, and a payment made under it pays that claim.
ClaimsOK ==
    \A r \in Requests : ~At(r, "idle") =>
        /\ req[r].id \in 1..made /\ SawOK(req[r])
        /\ \A p \in Pays : req[r].id \in p.by => p.key = req[r].key
        /\ \A s \in Requests \ {r} : ~At(s, "idle") => req[s].id # req[r].id

FaucetInv == TypesOK /\ RunsOK /\ FileOK /\ PaysOK /\ ClaimsOK /\ RecordedIsPaid

-----------------------------------------------------------------------------
(* Lemmas about the operators.                                             *)

LEMMA AccountsAre ==
    /\ Len(Funders) \in Nat \ {0} /\ Admin \in Accounts
    /\ \A j \in 1..Len(Funders) : Funders[j] \in Accounts
<1>1. Funders \in Seq(Accounts) /\ Funders # <<>>
  BY FaucetAssumption
<1>2. Len(Funders) \in Nat \ {0} /\ DOMAIN Funders = 1..Len(Funders)
  BY <1>1
<1>3. \A j \in 1..Len(Funders) : Funders[j] \in Accounts
  BY <1>2 DEF Accounts
<1>4. 1 \in 1..Len(Funders)
  BY <1>2
<1>5. QED
  BY <1>2, <1>3, <1>4 DEF Admin

LEMMA CreditIs ==
    ASSUME sac \in Sacs, NEW a, NEW f \in Accounts, NEW x \in Nat, Credit(a, f, x)
    PROVE  sac' \in Sacs
<1>1. CASE a \in Assets \ {"treasury"}
  <2>1. sac[a] \in [Accounts -> Nat] /\ sac[a][f] + x \in Nat
    BY <1>1 DEF Sacs
  <2>2. [sac[a] EXCEPT ![f] = sac[a][f] + x] \in [Accounts -> Nat]
    BY <2>1
  <2>3. QED
    BY <1>1, <2>2 DEF Sacs, Credit
<1>2. CASE a \notin Assets \ {"treasury"}
  BY <1>2 DEF Sacs, Credit
<1>3. QED
  BY <1>1, <1>2

LEMMA FreeIs == Free \in Run /\ ShapeOK(Free)
BY AccountsAre, FaucetAssumption DEF Free, Run, ShapeOK

SameClaim(x, y) == x.key = y.key /\ x.id = y.id /\ x.began = y.began /\ x.saw = y.saw

\* A handler goes on with its claim or ends; the others stand still.
Keeps(r) ==
    /\ \A s \in Requests \ {r} : req'[s] = req[s]
    /\ req'[r] = Free \/ (~At(r, "idle") /\ SameClaim(req'[r], req[r]))

LEMMA RunsStep ==
    ASSUME RunsOK, NEW r \in Requests, NEW x \in Run, ShapeOK(x),
           req' = [req EXCEPT ![r] = x],
           x = Free \/ (~At(r, "idle") /\ SameClaim(x, req[r]))
    PROVE  RunsOK' /\ Keeps(r)
<1>1. req' \in [Requests -> Run]
  BY DEF RunsOK
<1>2. req'[r] = x /\ \A s \in Requests \ {r} : req'[s] = req[s]
  BY DEF RunsOK
<1>3. \A s \in Requests : ShapeOK(req'[s])
  BY <1>2 DEF RunsOK
<1>4. QED
  BY <1>1, <1>2, <1>3 DEF RunsOK, Keeps, At, ShapeOK

LEMMA FailStep ==
    ASSUME RunsOK, NEW r \in Requests, Fail(r) PROVE RunsOK' /\ Keeps(r)
BY FreeIs, RunsStep DEF Fail

-----------------------------------------------------------------------------
(* The steps of a handler before it pays.                                  *)

LEMMA PickStep ==
    ASSUME TypesOK, RunsOK, NEW r \in Requests, Pick(r) PROVE RunsOK' /\ Keeps(r)
<1>1. req[r] \in Run /\ ShapeOK(req[r]) /\ ~At(r, "idle")
  BY DEF RunsOK, Pick, At
<1>2. CASE Fail(r)
  BY <1>2, FailStep
<1>3. CASE /\ req[r].i > Len(Funders)
           /\ req' = [req EXCEPT ![r].pc = "boot", ![r].i = 1]
  <2> DEFINE x == [req[r] EXCEPT !.pc = "boot", !.i = 1]
  <2>1. x \in Run /\ SameClaim(x, req[r])
    BY <1>1 DEF Run, SameClaim
  <2>2. ShapeOK(x)
    BY <1>1, AccountsAre DEF Run, ShapeOK, Pick, At
  <2>3. req' = [req EXCEPT ![r] = x]
    BY <1>3 DEF RunsOK
  <2> HIDE DEF x
  <2>4. QED
    BY <1>1, <2>1, <2>2, <2>3, RunsStep
<1>4. CASE /\ req[r].i \in 1..Len(Funders)
           /\ req' = [req EXCEPT ![r].pc = "send", ![r].from = Candidate(r)]
  <2> DEFINE x == [req[r] EXCEPT !.pc = "send", !.from = Candidate(r)]
  <2>1. Candidate(r) \in Accounts
    BY <1>4, AccountsAre DEF Candidate
  <2>2. x \in Run /\ ShapeOK(x) /\ SameClaim(x, req[r])
    BY <1>1, <2>1 DEF Run, ShapeOK, SameClaim, Pick, At
  <2>3. req' = [req EXCEPT ![r] = x]
    BY <1>4 DEF RunsOK
  <2> HIDE DEF x
  <2>4. QED
    BY <1>1, <2>2, <2>3, RunsStep
<1>5. CASE req[r].i \in 1..Len(Funders) /\ req' = [req EXCEPT ![r].i = @ + 1]
  <2> DEFINE x == [req[r] EXCEPT !.i = @ + 1]
  <2>1. x \in Run /\ SameClaim(x, req[r])
    BY <1>1 DEF Run, SameClaim
  <2>2. ShapeOK(x)
    BY <1>1, <1>5, AccountsAre DEF Run, ShapeOK, Pick, At
  <2>3. req' = [req EXCEPT ![r] = x]
    BY <1>5 DEF RunsOK
  <2> HIDE DEF x
  <2>4. QED
    BY <1>1, <2>1, <2>2, <2>3, RunsStep
<1>6. req[r].i \in 1..(Len(Funders) + 1)
  BY <1>1 DEF ShapeOK
<1>7. QED
  BY <1>2, <1>3, <1>4, <1>5, <1>6, AccountsAre DEF Pick

LEMMA PickAgainStep ==
    ASSUME RunsOK, NEW r \in Requests, At(r, "boot") \/ At(r, "mint"), PickAgain(r) PROVE RunsOK' /\ Keeps(r)
<1> DEFINE x == [req[r] EXCEPT !.pc = "pick", !.i = 1, !.booted = TRUE]
<1>1. req[r] \in Run /\ ShapeOK(req[r]) /\ ~At(r, "idle")
  BY DEF RunsOK, At
<1>2. x \in Run /\ SameClaim(x, req[r])
  BY <1>1 DEF Run, SameClaim
<1>3. ShapeOK(x)
  BY <1>1, AccountsAre DEF Run, ShapeOK, At
<1>4. req' = [req EXCEPT ![r] = x]
  BY DEF RunsOK, PickAgain
<1> HIDE DEF x
<1>5. QED
  BY <1>1, <1>2, <1>3, <1>4, RunsStep

LEMMA GoStep ==
    ASSUME RunsOK, NEW r \in Requests, NEW pc \in {"mint", "wait"}, Go(r, pc),
           At(r, "boot") \/ At(r, "send"), pc = "mint" => At(r, "boot")
    PROVE  RunsOK' /\ Keeps(r)
<1> DEFINE x == [req[r] EXCEPT !.pc = pc]
<1>1. req[r] \in Run /\ ShapeOK(req[r]) /\ ~At(r, "idle")
  BY DEF RunsOK, At
<1>2. x \in Run /\ SameClaim(x, req[r])
  BY <1>1 DEF Run, SameClaim
<1>3. ShapeOK(x)
  BY <1>1, AccountsAre DEF Run, ShapeOK, At
<1>4. req' = [req EXCEPT ![r] = x]
  BY DEF RunsOK, Go
<1> HIDE DEF x
<1>5. QED
  BY <1>1, <1>2, <1>3, <1>4, RunsStep

LEMMA NextCandidateStep ==
    ASSUME RunsOK, NEW r \in Requests, At(r, "boot") \/ At(r, "deposit"),
           req[r].i <= Len(Funders), NextCandidate(r)
    PROVE  RunsOK' /\ Keeps(r)
<1> DEFINE n == req[r].i + 1
           x == [req[r] EXCEPT !.pc = "boot", !.i = n, !.turn = 0]
<1>1. req[r] \in Run /\ ShapeOK(req[r]) /\ ~At(r, "idle")
  BY DEF RunsOK, At
<1>2. x \in Run
  <2>1. n \in Nat
    BY <1>1 DEF Run
  <2> HIDE DEF n
  <2>2. QED
    BY <1>1, <2>1 DEF Run
<1>6. SameClaim(x, req[r])
  BY <1>1 DEF Run, SameClaim
<1>3. ShapeOK(x)
  <2>1. /\ x.i = n /\ x.turn = 0 /\ x.pc = "boot" /\ x.key = req[r].key
        /\ req[r].i \in 1..(Len(Funders) + 1)
    BY <1>1 DEF Run, ShapeOK
  <2>2. n \in 1..(Len(Funders) + 1) /\ 0 \in 0..TopUps
    BY <2>1, AccountsAre, FaucetAssumption
  <2>3. req[r].key.asset \in Assets \ {"treasury"} /\ req[r].key \in Keys
    BY <1>1 DEF ShapeOK, At
  <2> HIDE DEF x, n
  <2>4. QED
    BY <2>1, <2>2, <2>3 DEF ShapeOK
<1>4. req' = [req EXCEPT ![r] = x]
  BY DEF RunsOK, NextCandidate
<1> HIDE DEF x
<1>5. QED
  BY <1>1, <1>2, <1>3, <1>4, <1>6, RunsStep

LEMMA BootEurcStep ==
    ASSUME TypesOK, RunsOK, NEW r \in Requests, BootEurc(r) \/ Mint(r)
    PROVE  RunsOK' /\ Keeps(r) /\ sac' \in Sacs /\ classic' = classic
<1>1. CASE BootEurc(r)
  BY <1>1, FailStep, GoStep, PickAgainStep DEF BootEurc, TypesOK, chainVars
<1>2. CASE Mint(r)
  <2>1. MintClaims * Amount \in Nat
    BY FaucetAssumption DEF Amount
  <2>2. sac' \in Sacs
    BY <1>2, <2>1, CreditIs, AccountsAre DEF Mint, TypesOK
  <2>3. QED
    BY <1>2, <2>2, FailStep, PickAgainStep DEF Mint
<1>3. QED
  BY <1>1, <1>2

LEMMA BootXlmStep ==
    ASSUME TypesOK, RunsOK, NEW r \in Requests, BootXlm(r)
    PROVE  RunsOK' /\ Keeps(r) /\ sac' \in Sacs /\ classic' = classic
<1>1. RunsOK' /\ Keeps(r)
  BY FailStep, PickAgainStep DEF BootXlm
<1>2. ASSUME NEW lucky \in SUBSET Accounts,
             sac' = [sac EXCEPT !["xlm"] =
                        [f \in Accounts |-> IF f \in lucky THEN @[f] + Amount ELSE @[f]]]
      PROVE  sac' \in Sacs
  <2>1. CASE "xlm" \in Assets
    <3>1. \A f \in Accounts : sac["xlm"][f] \in Nat /\ sac["xlm"][f] + Amount \in Nat
      BY <2>1 DEF TypesOK, Sacs, Amount
    <3>2. QED
      BY <1>2, <2>1, <3>1 DEF TypesOK, Sacs
  <2>2. CASE "xlm" \notin Assets
    BY <1>2, <2>2 DEF TypesOK, Sacs
  <2>3. QED
    BY <2>1, <2>2
<1>3. QED
  BY <1>1, <1>2 DEF BootXlm, TypesOK

LEMMA BootUsdcStep ==
    ASSUME TypesOK, RunsOK, NEW r \in Requests, BootUsdc(r)
    PROVE  RunsOK' /\ Keeps(r) /\ sac' = sac /\ classic' \in [Accounts -> Nat]
<1>1. /\ req[r] \in Run /\ ShapeOK(req[r]) /\ At(r, "boot") /\ AssetOf(r) = "usdc"
      /\ "usdc" \in Assets \ {"treasury"}
  BY DEF RunsOK, BootUsdc, ShapeOK, At, AssetOf
<1>2. CASE UNCHANGED classic /\ (Fail(r) \/ PickAgain(r))
  BY <1>1, <1>2, FailStep, PickAgainStep DEF BootUsdc, TypesOK
<1>3. CASE req[r].i <= Len(Funders) /\ NextCandidate(r) /\ UNCHANGED classic
  BY <1>1, <1>3, NextCandidateStep DEF BootUsdc, TypesOK
<1>4. CASE /\ req[r].i <= Len(Funders) /\ sac["usdc"][Candidate(r)] < Amount
           /\ req[r].turn < TopUps
           /\ req' = [req EXCEPT ![r].pc = "deposit", ![r].short = Short(r)]
           /\ \E n \in 0..Amount : classic' = [classic EXCEPT ![Candidate(r)] = n]
  <2> DEFINE x == [req[r] EXCEPT !.pc = "deposit", !.short = Short(r)]
  <2>1. Candidate(r) \in Accounts
    BY <1>1, <1>4, AccountsAre DEF Candidate, ShapeOK
  <2>2. Short(r) \in Nat
    BY <1>1, <1>4, <2>1 DEF Short, Amount, TypesOK, Sacs
  <2>3. x \in Run /\ SameClaim(x, req[r])
    BY <1>1, <2>2 DEF Run, SameClaim
  <2>4. ShapeOK(x)
    BY <1>1, <1>4, AccountsAre DEF Run, ShapeOK, At
  <2>5. req' = [req EXCEPT ![r] = x]
    BY <1>4 DEF RunsOK
  <2>6. ~At(r, "idle")
    BY <1>1 DEF At
  <2>7. classic' \in [Accounts -> Nat] /\ sac' = sac
    BY <1>4, <2>1 DEF TypesOK, Amount, BootUsdc
  <2> HIDE DEF x
  <2>8. QED
    BY <2>3, <2>4, <2>5, <2>6, <2>7, RunsStep
<1>5. QED
  BY <1>2, <1>3, <1>4 DEF BootUsdc

LEMMA DepositStep ==
    ASSUME TypesOK, RunsOK, NEW r \in Requests, Deposit(r)
    PROVE  RunsOK' /\ Keeps(r) /\ sac' \in Sacs /\ classic' \in [Accounts -> Nat]
<1>1. /\ req[r] \in Run /\ ShapeOK(req[r]) /\ At(r, "deposit")
      /\ req[r].i \in 1..Len(Funders)
  BY DEF RunsOK, Deposit, ShapeOK, At
<1>2. Candidate(r) \in Accounts
  BY <1>1, AccountsAre DEF Candidate
<1>3. Deposited(r) \in Nat /\ Deposited(r) <= classic[Candidate(r)]
  BY <1>1, <1>2 DEF Deposited, Dollar, Run, TypesOK
<1>4. sac' \in Sacs /\ classic' \in [Accounts -> Nat]
  <2>1. CASE /\ classic' = [classic EXCEPT ![Candidate(r)] = @ - Deposited(r)]
             /\ Credit("usdc", Candidate(r), Deposited(r))
    <3>1. classic[Candidate(r)] - Deposited(r) \in Nat
      BY <1>2, <1>3 DEF TypesOK
    <3>2. QED
      BY <1>2, <1>3, <2>1, <3>1, CreditIs DEF TypesOK
  <2>2. CASE UNCHANGED <<sac, classic>>
    BY <2>2 DEF TypesOK
  <2>3. QED
    BY <2>1, <2>2 DEF Deposit
<1>5. CASE NextCandidate(r)
  BY <1>1, <1>4, <1>5, NextCandidateStep DEF ShapeOK, At
<1>6. CASE req' = [req EXCEPT ![r].pc = "boot", ![r].turn = @ + 1]
  <2> DEFINE n == req[r].turn + 1
             x == [req[r] EXCEPT !.pc = "boot", !.turn = n]
  <2>1. x \in Run
    <3>1. n \in Nat
      BY <1>1 DEF Run
    <3> HIDE DEF n
    <3>2. QED
      BY <1>1, <3>1 DEF Run
  <2>2. SameClaim(x, req[r])
    BY <1>1 DEF Run, SameClaim
  <2>3. ShapeOK(x)
    <3>1. x.pc = "boot" /\ x.i = req[r].i /\ x.turn = req[r].turn + 1 /\ x.key = req[r].key
      BY <1>1 DEF Run
    <3>2. req[r].turn \in Nat /\ req[r].turn < TopUps /\ TopUps \in Nat
      BY <1>1, FaucetAssumption DEF Run, ShapeOK, At
    <3> HIDE DEF n, x
    <3>3. QED
      BY <1>1, <3>1, <3>2 DEF ShapeOK, At
  <2>4. req' = [req EXCEPT ![r] = x] /\ ~At(r, "idle")
    BY <1>1, <1>6 DEF RunsOK, At
  <2> HIDE DEF x
  <2>5. QED
    BY <1>4, <2>1, <2>2, <2>3, <2>4, RunsStep
<1>7. QED
  BY <1>5, <1>6 DEF Deposit

-----------------------------------------------------------------------------
(* What the steps leave of the claims, the payments and the file.          *)

FilesKept == UNCHANGED <<now, fileVars, made>>

\* Before it pays, and when it stops waiting, a handler touches no payment.
LEMMA KeepsInv ==
    ASSUME FaucetInv, NEW r \in Requests, RunsOK', Keeps(r), FilesKept, UNCHANGED <<pool, paid>>,
           sac' \in Sacs, classic' \in [Accounts -> Nat]
    PROVE  FaucetInv'
<1>1. TypesOK'
  BY DEF FaucetInv, TypesOK, FilesKept, fileVars
<1>2. FileOK' /\ RecordedIsPaid'
  BY DEF FaucetInv, FileOK, RecordedIsPaid, FilesKept, fileVars
<1>3. Pays' = Pays /\ \A x : SawOK(x)' <=> SawOK(x)
  BY DEF Pays, SawOK, FilesKept, fileVars
<1>4. PaysOK'
  BY <1>3 DEF FaucetInv, PaysOK, FilesKept
<1>5. ASSUME NEW q \in Requests, ~At(q, "idle")' PROVE ~At(q, "idle") /\ SameClaim(req'[q], req[q])
  BY <1>5 DEF Keeps, At, Free, SameClaim
<1>6. \A q \in Requests : ~At(q, "idle")' => (SawOK(req[q]) => SawOK(req[q])')
  BY <1>5 DEF SameClaim, SawOK, FilesKept, fileVars
<1>7. ClaimsOK'
  BY <1>3, <1>5, <1>6 DEF FaucetInv, ClaimsOK, FilesKept, SameClaim
<1>8. QED
  BY <1>1, <1>2, <1>4, <1>7 DEF FaucetInv

\* What the network does with what it took pays nothing that was not asked for.
LEMMA NetworkInv ==
    ASSUME FaucetInv, NEW f \in Accounts, Apply(f) \/ Drop(f) PROVE FaucetInv'
<1>1. pool[f] \in Payments
  BY DEF FaucetInv, TypesOK, Apply, Drop
<1>2. TypesOK'
  <2>1. CASE Apply(f)
    <3>1. sac' \in Sacs
      <4>1. CASE pool[f].key.asset = "treasury"
        BY <2>1, <4>1 DEF Apply, FaucetInv, TypesOK
      <4>2. CASE pool[f].key.asset # "treasury"
        <5> DEFINE a == pool[f].key.asset
        <5>1. a \in Assets \ {"treasury"} /\ sac[a][f] >= Amount
          BY <1>1, <2>1, <4>2 DEF Apply, Covered, Payments, Keys
        <5>2. sac[a] \in [Accounts -> Nat] /\ sac[a][f] - Amount \in Nat
          BY <5>1 DEF FaucetInv, TypesOK, Sacs, Amount
        <5>3. sac' = [sac EXCEPT ![a][f] = @ - Amount]
          BY <2>1, <4>2 DEF Apply
        <5> HIDE DEF a
        <5>4. [sac[a] EXCEPT ![f] = sac[a][f] - Amount] \in [Accounts -> Nat]
          BY <5>2
        <5>5. QED
          BY <5>1, <5>3, <5>4 DEF FaucetInv, TypesOK, Sacs
      <4>3. QED
        BY <4>1, <4>2
    <3>2. QED
      BY <1>1, <2>1, <3>1 DEF FaucetInv, TypesOK, Apply, fileVars
  <2>2. CASE Drop(f)
    BY <2>2 DEF FaucetInv, TypesOK, Drop, fileVars
  <2>3. QED
    BY <2>1, <2>2
<1>3. UNCHANGED <<now, claims, confirmed, torn, made, req>> /\ paid \subseteq paid'
  BY DEF Apply, Drop, fileVars
<1>4. RunsOK' /\ FileOK'
  BY <1>3 DEF FaucetInv, RunsOK, FileOK
<1>5. RecordedIsPaid'
  BY <1>3 DEF FaucetInv, RecordedIsPaid
<1>6. Pays' \subseteq Pays
  <2> SUFFICES ASSUME NEW p \in Pays' PROVE p \in Pays
    OBVIOUS
  <2>1. pool' = [pool EXCEPT ![f] = None] /\ pool \in [Accounts -> Payments \cup {None}]
    BY DEF Apply, Drop, FaucetInv, TypesOK
  <2>2. CASE p \in paid'
    BY <1>1, <2>2 DEF Pays, Apply, Drop
  <2>3. CASE p # None /\ \E g \in Accounts : pool'[g] = p
    BY <2>1, <2>3, NoneAssumption DEF Pays
  <2>4. QED
    BY <2>2, <2>3 DEF Pays
<1>7. PaysOK'
  BY <1>3, <1>6 DEF FaucetInv, PaysOK, SawOK
<1>8. ClaimsOK'
  BY <1>3, <1>6 DEF FaucetInv, ClaimsOK, SawOK, At
<1>9. QED
  BY <1>2, <1>4, <1>5, <1>7, <1>8 DEF FaucetInv

LEMMA TakenInv ==
    ASSUME FaucetInv, NEW r \in Requests, Taken(r), At(r, "send"), RunsOK', Keeps(r), FilesKept,
           UNCHANGED <<sac, classic, paid>>
    PROVE  FaucetInv'
<1> DEFINE f == req[r].from
           n == req[r].id
<1>1. /\ f \in Accounts /\ req[r].key \in Keys /\ n \in 1..made /\ made \in 0..MaxClaims
      /\ Payment(r) \in Payments /\ SawOK(Payment(r)) /\ Payment(r).by = {n}
      /\ Payment(r).key = req[r].key
  <2>1. req[r] \in Run /\ ShapeOK(req[r]) /\ ~At(r, "idle")
    BY DEF FaucetInv, RunsOK, At
  <2>2. req[r].id \in 1..made /\ SawOK(req[r]) /\ made \in 0..MaxClaims
    BY <2>1 DEF FaucetInv, ClaimsOK, TypesOK
  <2>3. {req[r].id} \subseteq 1..MaxClaims
    BY <2>2, FaucetAssumption
  <2>4. QED
    BY <2>1, <2>2, <2>3 DEF Payment, Payments, Run, ShapeOK, SawOK, At
<1>2. PICK p \in Payments :
        /\ pool' = [pool EXCEPT ![f] = p]
        /\ SawOK(p) /\ (\A m \in p.by : m <= made) /\ p.key = req[r].key
        /\ p.by = {n} \/ (\E o \in Pays : p.by = o.by \cup {n} /\ o.key = p.key)
  <2>1. CASE pool[f] = None /\ pool' = [pool EXCEPT ![f] = Payment(r)]
    <3>1. \A m \in {n} : m <= made
      BY <1>1, FaucetAssumption
    <3> HIDE DEF f, n
    <3>2. QED
      BY <1>1, <2>1, <3>1
  <2>2. CASE /\ pool[f] # None /\ pool[f].key = req[r].key
             /\ pool' = [pool EXCEPT ![f].by = @ \cup {n}]
    <3> DEFINE o == pool[f]
               p == [o EXCEPT !.by = @ \cup {n}]
    <3>1. o \in Payments /\ o \in Pays /\ SawOK(o) /\ (\A m \in o.by : m <= made)
      BY <1>1, <2>2 DEF FaucetInv, TypesOK, Pays, PaysOK
    <3>2. /\ p \in Payments /\ p.by = o.by \cup {n} /\ p.key = o.key
          /\ p.saw = o.saw /\ p.began = o.began
      BY <1>1, <3>1, FaucetAssumption DEF Payments
    <3>3. pool' = [pool EXCEPT ![f] = p]
      BY <1>1, <2>2 DEF FaucetInv, TypesOK
    <3>4. SawOK(p) /\ \A m \in p.by : m <= made
      BY <1>1, <3>1, <3>2 DEF SawOK
    <3> HIDE DEF o, p
    <3>5. o.key = req[r].key
      BY <2>2 DEF o
    <3>6. QED
      BY <3>1, <3>2, <3>3, <3>4, <3>5
  <2>3. QED
    BY <2>1, <2>2 DEF Taken
<1> HIDE DEF f, n
<1>3. pool' \in [Accounts -> Payments \cup {None}] /\ Pays' \subseteq Pays \cup {p}
  BY <1>1, <1>2 DEF FaucetInv, TypesOK, Pays
<1>4. TypesOK' /\ FileOK' /\ RecordedIsPaid'
  BY <1>3 DEF FaucetInv, TypesOK, FileOK, RecordedIsPaid, FilesKept, fileVars
<1>5. PaysOK'
  BY <1>2, <1>3 DEF FaucetInv, PaysOK, SawOK, FilesKept, fileVars
<1>6. ASSUME NEW q \in Requests, ~At(q, "idle")' PROVE ~At(q, "idle") /\ SameClaim(req'[q], req[q])
  BY <1>6 DEF Keeps, At, Free, SameClaim
<1>7. ASSUME NEW q \in Requests, ~At(q, "idle"), req[q].id \in p.by PROVE p.key = req[q].key
  <2>1. CASE q = r
    BY <1>2, <2>1
  <2>2. CASE q # r
    <3>1. req[q].id # n
      BY <1>7, <2>2 DEF FaucetInv, ClaimsOK, n, At
    <3>2. QED
      BY <1>2, <1>7, <3>1 DEF FaucetInv, ClaimsOK
  <2>3. QED
    BY <2>1, <2>2
<1>8. ClaimsOK'
  BY <1>3, <1>6, <1>7 DEF FaucetInv, ClaimsOK, FilesKept, fileVars, SameClaim, SawOK
<1>9. QED
  BY <1>4, <1>5, <1>8 DEF FaucetInv

-----------------------------------------------------------------------------
(* Beginning, recording, restarting.                                       *)

LEMMA ClaimInv ==
    ASSUME FaucetInv, NEW r \in Requests, NEW k \in Keys, Claim(r, k) PROVE FaucetInv'
<1> DEFINE x == [Free EXCEPT !.pc = IF k.asset = "treasury" THEN "send" ELSE "pick", !.key = k,
                             !.from = Admin, !.id = made + 1, !.began = now,
                             !.saw = (torn + 1)..Len(confirmed)]
<1>1. /\ now \in 0..MaxTime /\ made \in Nat /\ made + 1 \in 0..MaxClaims
      /\ torn \in Nat /\ Len(confirmed) \in Nat /\ DOMAIN confirmed = 1..Len(confirmed)
      /\ confirmed \in Seq(Record)
      /\ claims \in [Keys -> (0..MaxTime) \cup {None}]
  <2>1. TypesOK /\ made < MaxClaims /\ MaxClaims \in Nat
    BY FaucetAssumption DEF FaucetInv, Claim
  <2>2. confirmed \in Seq(Record)
    BY <2>1 DEF TypesOK
  <2>3. Len(confirmed) \in Nat /\ DOMAIN confirmed = 1..Len(confirmed)
    BY <2>2
  <2>4. made \in Nat /\ made + 1 \in 0..MaxClaims
    BY <2>1 DEF TypesOK
  <2>5. torn \in Nat
    BY <2>1, <2>3 DEF TypesOK
  <2>6. QED
    BY <2>1, <2>2, <2>3, <2>4, <2>5 DEF TypesOK
<1>2. /\ x \in Run /\ x.key = k /\ x.id = made + 1 /\ x.began = now
      /\ x.saw = (torn + 1)..Len(confirmed) /\ x.pc # "idle"
  <2>1. (torn + 1)..Len(confirmed) \in SUBSET Nat
    BY <1>1
  <2>2. QED
    BY <1>1, <2>1, AccountsAre DEF Free, Run
<1>3. ShapeOK(x)
  BY AccountsAre, FaucetAssumption DEF Free, ShapeOK, Keys
<1>4. req' = [req EXCEPT ![r] = x] /\ At(r, "idle")
  BY DEF Claim
<1> HIDE DEF x
<1>5. /\ req' \in [Requests -> Run] /\ req'[r] = x
      /\ \A q \in Requests \ {r} : req'[q] = req[q]
  BY <1>2, <1>4 DEF FaucetInv, RunsOK
<1>6. RunsOK'
  BY <1>3, <1>5 DEF FaucetInv, RunsOK
<1>7. SawOK(x)
  <2>1. SUFFICES ASSUME NEW j \in (torn + 1)..Len(confirmed), confirmed[j].key = k
                 PROVE  now - confirmed[j].at >= Cooldown
    BY <1>1, <1>2 DEF SawOK
  <2>2. j \in DOMAIN confirmed /\ j > torn /\ confirmed[j].at \in Nat
    <3>1. j \in 1..Len(confirmed) /\ j > torn
      BY <1>1
    <3>2. confirmed[j] \in Record
      BY <1>1, <3>1, ElementOfSeq
    <3>3. QED
      BY <1>1, <3>1, <3>2 DEF Record
  <2>3. claims[k] # None /\ confirmed[j].at <= claims[k]
    BY <2>1, <2>2 DEF FaucetInv, FileOK
  <2>4. now - claims[k] >= Cooldown /\ claims[k] \in Nat
    BY <1>1, <2>3 DEF Claim, Available
  <2> DEFINE then == confirmed[j].at
             last == claims[k]
  <2>5. /\ then \in Nat /\ last \in Nat /\ now \in Nat /\ Cooldown \in Nat
        /\ then <= last /\ now - last >= Cooldown
    BY <1>1, <2>2, <2>3, <2>4, FaucetAssumption
  <2> HIDE DEF then, last
  <2>6. now - then >= Cooldown
    BY <2>5
  <2>7. QED
    BY <2>6 DEF then
<1>8. made' = made + 1 /\ UNCHANGED <<now, sac, classic, pool, paid, claims, confirmed, torn>>
  BY DEF Claim, chainVars, fileVars
<1>9. TypesOK' /\ FileOK' /\ RecordedIsPaid'
  BY <1>1, <1>8 DEF FaucetInv, TypesOK, FileOK, RecordedIsPaid
<1>10. Pays' = Pays /\ \A p \in Pays : \A m \in p.by : m \in Nat /\ m <= made
  BY <1>8 DEF Pays, FaucetInv, PaysOK, TypesOK, Payments
<1>11. PaysOK'
  BY <1>1, <1>8, <1>10 DEF FaucetInv, PaysOK, SawOK
<1>12. ClaimsOK'
  <2>1. ASSUME NEW q \in Requests, ~At(q, "idle")'
        PROVE  /\ req'[q].id \in 1..made' /\ SawOK(req[q])'
               /\ \A p \in Pays : req'[q].id \in p.by => p.key = req'[q].key
               /\ q # r => req'[q] = req[q] /\ req[q].id \in 1..made
    <3>1. CASE q = r
      BY <1>1, <1>2, <1>5, <1>7, <1>8, <1>10, <3>1 DEF SawOK
    <3>2. CASE q # r
      BY <1>1, <1>5, <1>8, <2>1, <3>2 DEF FaucetInv, ClaimsOK, At, SawOK
    <3>3. QED
      BY <3>1, <3>2
  <2>2. ASSUME NEW q \in Requests, ~At(q, "idle")', NEW s \in Requests \ {q}, ~At(s, "idle")'
        PROVE  req'[s].id # req'[q].id
    <3>1. CASE q = r \/ s = r
      BY <1>1, <1>2, <1>5, <2>1, <2>2, <3>1
    <3>2. CASE q # r /\ s # r
      BY <1>5, <2>2, <3>2 DEF FaucetInv, ClaimsOK, At
    <3>3. QED
      BY <3>1, <3>2
  <2>3. QED
    BY <1>10, <2>1, <2>2 DEF ClaimsOK
<1>13. QED
  BY <1>6, <1>9, <1>11, <1>12 DEF FaucetInv

LEMMA ConfirmInv ==
    ASSUME FaucetInv, NEW r \in Requests, Confirm(r) PROVE FaucetInv'
<1> DEFINE e == [key |-> req[r].key, at |-> now, id |-> req[r].id]
           n == Len(confirmed) + 1
           k == req[r].key
<1>1. /\ k \in Keys /\ e \in Record /\ e.key = k /\ e.at = now /\ e.id = req[r].id
      /\ now \in Nat /\ now \in 0..MaxTime
  <2>1. req[r] \in Run /\ ShapeOK(req[r]) /\ req[r].pc # "idle"
    BY DEF FaucetInv, RunsOK, Confirm, At
  <2>2. req[r].key \in Keys /\ req[r].id \in Nat /\ now \in 0..MaxTime
    BY <2>1 DEF Run, ShapeOK, FaucetInv, TypesOK
  <2>3. QED
    BY <2>2 DEF Record
<1>2. /\ confirmed' = Append(confirmed, e) /\ confirmed' \in Seq(Record)
      /\ Len(confirmed) \in Nat /\ Len(confirmed') = n
      /\ DOMAIN confirmed = 1..Len(confirmed) /\ DOMAIN confirmed' = 1..n
      /\ \A j \in 1..Len(confirmed) : confirmed'[j] = confirmed[j]
      /\ confirmed'[n] = e
  <2>1. confirmed \in Seq(Record) /\ confirmed' = Append(confirmed, e)
    BY DEF FaucetInv, TypesOK, Confirm, Recorded
  <2> HIDE DEF e
  <2>2. QED
    BY <1>1, <2>1, AppendProperties, LenProperties
<1>3. /\ claims' = [c \in Keys |-> IF c = k THEN now ELSE claims[c]]
      /\ UNCHANGED <<now, sac, classic, pool, paid, made, torn>>
  BY DEF Confirm, Recorded, chainVars
<1>4. RunsOK' /\ Keeps(r)
  BY FailStep DEF FaucetInv, Confirm, Recorded
<1>5. /\ torn \in 0..Len(confirmed) /\ claims \in [Keys -> (0..MaxTime) \cup {None}]
      /\ \A j \in 1..Len(confirmed) : confirmed[j].key \in Keys /\ confirmed[j].at \in Nat
  <2>1. \A j \in 1..Len(confirmed) : confirmed[j] \in Record
    BY <1>2, ElementOfSeq DEF FaucetInv, TypesOK
  <2>2. QED
    BY <2>1 DEF FaucetInv, TypesOK, Record
<1> HIDE DEF e, n, k
<1>6. TypesOK'
  <2>1. claims' \in [Keys -> (0..MaxTime) \cup {None}]
    BY <1>1, <1>3, <1>5
  <2>2. torn' \in 0..Len(confirmed')
    BY <1>2, <1>3, <1>5 DEF n
  <2>3. QED
    BY <1>2, <1>3, <2>1, <2>2 DEF FaucetInv, TypesOK
<1>7. FileOK'
  <2> SUFFICES ASSUME NEW j \in 1..n
               PROVE  /\ confirmed'[j].at <= now
                      /\ j > torn => /\ claims'[confirmed'[j].key] # None
                                     /\ confirmed'[j].at <= claims'[confirmed'[j].key]
    BY <1>2, <1>3 DEF FileOK
  <2>1. now # None
    BY <1>1, NoneAssumption
  <2>2. CASE j = n
    BY <1>1, <1>2, <1>3, <2>1, <2>2
  <2>3. CASE j # n
    <3>1. j \in 1..Len(confirmed)
      BY <1>2, <2>3 DEF n
    <3>2. /\ confirmed[j].at <= now
          /\ j > torn => /\ claims[confirmed[j].key] # None
                         /\ confirmed[j].at <= claims[confirmed[j].key]
      BY <1>2, <3>1 DEF FaucetInv, FileOK
    <3>3. QED
      BY <1>2, <1>3, <1>5, <2>1, <3>1, <3>2
  <2>4. QED
    BY <2>2, <2>3
<1>8. \A x : SawOK(x) => SawOK(x)'
  BY <1>2 DEF SawOK, n
<1>9. PaysOK'
  BY <1>3, <1>8 DEF FaucetInv, PaysOK, Pays
<1>10. ClaimsOK'
  <2>1. Pays' = Pays
    BY <1>3 DEF Pays
  <2>2. ASSUME NEW q \in Requests, ~At(q, "idle")' PROVE q # r /\ req'[q] = req[q]
    BY <2>2, <1>4 DEF Confirm, Recorded, Fail, At, Free, Keeps, FaucetInv, RunsOK
  <2>3. \A q \in Requests : ~At(q, "idle")' => (SawOK(req[q]) => SawOK(req[q])')
    BY <1>8, <2>2 DEF SawOK
  <2>4. QED
    BY <1>3, <2>1, <2>2, <2>3 DEF FaucetInv, ClaimsOK, At
<1>11. RecordedIsPaid'
  <2> SUFFICES ASSUME NEW c \in Keys, claims'[c] # None
               PROVE  \E j \in DOMAIN confirmed' : \E p \in paid :
                        /\ confirmed'[j].key = c /\ confirmed'[j].at = claims'[c]
                        /\ p.key = c /\ confirmed'[j].id \in p.by
    BY <1>3 DEF RecordedIsPaid
  <2>1. CASE c = k
    <3>1. PICK p \in paid : req[r].id \in p.by
      BY DEF Confirm, PaidFor
    <3>2. p.key = k
      <4>1. p \in Pays
        BY NoneAssumption DEF FaucetInv, TypesOK, Pays
      <4>2. QED
        BY <3>1, <4>1 DEF FaucetInv, ClaimsOK, Confirm, At, k
    <3>3. n \in DOMAIN confirmed' /\ claims'[c] = now
      BY <1>2, <1>3, <2>1 DEF n
    <3>4. QED
      BY <1>1, <1>2, <2>1, <3>1, <3>2, <3>3
  <2>2. CASE c # k
    <3>1. claims'[c] = claims[c]
      BY <1>3, <2>2
    <3>2. PICK j \in DOMAIN confirmed, p \in paid :
            /\ confirmed[j].key = c /\ confirmed[j].at = claims[c]
            /\ p.key = c /\ confirmed[j].id \in p.by
      BY <3>1 DEF FaucetInv, RecordedIsPaid
    <3>3. j \in DOMAIN confirmed' /\ confirmed'[j] = confirmed[j]
      BY <1>2 DEF n
    <3>4. QED
      BY <3>1, <3>2, <3>3
  <2>3. QED
    BY <2>1, <2>2
<1>12. QED
  BY <1>4, <1>6, <1>7, <1>9, <1>10, <1>11 DEF FaucetInv

LEMMA CrashInv == ASSUME FaucetInv, Crash PROVE FaucetInv'
<1>1. /\ req' = [r \in Requests |-> Free] /\ confirmed' = confirmed
      /\ UNCHANGED <<now, sac, classic, pool, paid, made>>
  BY DEF Crash, chainVars, fileVars
<1>2. RunsOK' /\ ClaimsOK'
  BY <1>1, FreeIs DEF RunsOK, ClaimsOK, At, Free
<1>3. Len(confirmed) \in Nat /\ DOMAIN confirmed = 1..Len(confirmed)
  BY DEF FaucetInv, TypesOK
<1>4. PaysOK'
  BY <1>1 DEF FaucetInv, PaysOK, Pays, SawOK
<1>5. CASE UNCHANGED fileVars
  BY <1>1, <1>2, <1>4, <1>5 DEF FaucetInv, TypesOK, FileOK, RecordedIsPaid, fileVars
<1>6. CASE claims' = [k \in Keys |-> None] /\ torn' = Len(confirmed)
  <2>1. TypesOK' /\ RecordedIsPaid'
    BY <1>1, <1>3, <1>6 DEF FaucetInv, TypesOK, RecordedIsPaid
  <2>2. FileOK'
    BY <1>1, <1>3, <1>6 DEF FaucetInv, FileOK
  <2>3. QED
    BY <1>2, <1>4, <2>1, <2>2 DEF FaucetInv
<1>7. QED
  BY <1>5, <1>6 DEF Crash

LEMMA TickInv == ASSUME FaucetInv, Tick PROVE FaucetInv'
<1>1. /\ now' = now + 1 /\ now' \in 0..MaxTime /\ now \in Nat
      /\ UNCHANGED <<sac, classic, pool, paid, claims, confirmed, torn, req, made>>
  BY FaucetAssumption DEF Tick, chainVars, fileVars, FaucetInv, TypesOK
<1>2. \A j \in DOMAIN confirmed : confirmed[j].at \in Nat
  <2>1. confirmed \in Seq(Record) /\ DOMAIN confirmed = 1..Len(confirmed)
    BY DEF FaucetInv, TypesOK
  <2>2. \A j \in DOMAIN confirmed : confirmed[j] \in Record
    BY <2>1, ElementOfSeq
  <2>3. QED
    BY <2>2 DEF Record
<1>3. FileOK'
  BY <1>1, <1>2 DEF FaucetInv, FileOK
<1>4. TypesOK' /\ RunsOK' /\ PaysOK' /\ RecordedIsPaid'
  BY <1>1 DEF FaucetInv, TypesOK, RunsOK, PaysOK, Pays, SawOK, RecordedIsPaid
<1>5. ClaimsOK'
  BY <1>1 DEF FaucetInv, ClaimsOK, Pays, SawOK, At
<1>6. QED
  BY <1>3, <1>4, <1>5 DEF FaucetInv

LEMMA StepInv == ASSUME FaucetInv, NEW r \in Requests, Step(r) PROVE FaucetInv'
<1>1. TypesOK /\ RunsOK /\ sac \in Sacs /\ classic \in [Accounts -> Nat]
  BY DEF FaucetInv, TypesOK
<1>2. CASE Pick(r)
  BY <1>1, <1>2, PickStep, KeepsInv DEF Pick, chainVars, FilesKept
<1>3. CASE BootEurc(r) \/ Mint(r)
  BY <1>1, <1>3, BootEurcStep, KeepsInv DEF BootEurc, Mint, chainVars, FilesKept
<1>4. CASE BootXlm(r)
  BY <1>1, <1>4, BootXlmStep, KeepsInv DEF BootXlm, FilesKept
<1>5. CASE BootUsdc(r)
  BY <1>1, <1>5, BootUsdcStep, KeepsInv DEF BootUsdc, FilesKept
<1>6. CASE Deposit(r)
  BY <1>1, <1>6, DepositStep, KeepsInv DEF Deposit, FilesKept
<1>7. CASE Send(r)
  <2>1. RunsOK' /\ Keeps(r) /\ At(r, "send")
    BY <1>1, <1>7, FailStep, GoStep DEF Send
  <2>2. UNCHANGED <<sac, classic, paid>> /\ FilesKept
    BY <1>7 DEF Send, FilesKept
  <2>3. CASE Taken(r)
    BY <2>1, <2>2, <2>3, TakenInv
  <2>4. CASE UNCHANGED pool
    BY <1>1, <2>1, <2>2, <2>4, KeepsInv
  <2>5. QED
    BY <1>7, <2>3, <2>4 DEF Send
<1>8. CASE Confirm(r)
  BY <1>8, ConfirmInv
<1>9. CASE GiveUp(r)
  BY <1>1, <1>9, FailStep, KeepsInv DEF GiveUp, chainVars, FilesKept
<1>10. QED
  BY <1>2, <1>3, <1>4, <1>5, <1>6, <1>7, <1>8, <1>9 DEF Step

LEMMA FaucetInvInit == FaucetInit => FaucetInv
<1> SUFFICES ASSUME FaucetInit PROVE FaucetInv
  OBVIOUS
<1>1. PICK b \in Starts, c \in {0, Amount} :
        /\ sac = [a \in Assets \ {"treasury"} |-> [f \in Accounts |-> b]]
        /\ classic = [f \in Accounts |-> c]
  BY DEF FaucetInit
<1>2. b \in Nat /\ c \in Nat
  BY FaucetAssumption DEF Amount
<1>3. sac \in Sacs /\ classic \in [Accounts -> Nat]
  BY <1>1, <1>2 DEF Sacs
<1>4. /\ confirmed = <<>> /\ confirmed \in Seq(Record) /\ Len(confirmed) = 0
      /\ DOMAIN confirmed = {}
  BY DEF FaucetInit
<1>5. TypesOK
  BY <1>3, <1>4, FaucetAssumption DEF FaucetInit, TypesOK
<1>6. RunsOK /\ ClaimsOK
  BY FreeIs DEF FaucetInit, RunsOK, ClaimsOK, At, Free
<1>7. Pays = {}
  BY NoneAssumption DEF FaucetInit, Pays
<1>8. FileOK /\ PaysOK /\ RecordedIsPaid
  BY <1>4, <1>7 DEF FaucetInit, FileOK, PaysOK, RecordedIsPaid
<1>9. QED
  BY <1>5, <1>6, <1>8 DEF FaucetInv

LEMMA FaucetInvStep == FaucetInv /\ [FaucetNext]_faucetVars => FaucetInv'
<1> SUFFICES ASSUME FaucetInv, [FaucetNext]_faucetVars PROVE FaucetInv'
  OBVIOUS
<1>1. CASE UNCHANGED faucetVars
  BY <1>1 DEF FaucetInv, TypesOK, RunsOK, FileOK, PaysOK, Pays, SawOK, ClaimsOK, At, RecordedIsPaid,
              faucetVars, chainVars, fileVars
<1>2. QED
  BY <1>1, StepInv, ClaimInv, NetworkInv, CrashInv, TickInv DEF FaucetNext

-----------------------------------------------------------------------------
(* Theorems.                                                               *)

\* What the faucet's file, its handlers and the network's payments are to one
\* another in every behaviour (faucet.js, sacLiquidity.js).
THEOREM FaucetInvariant == FaucetSpec => []FaucetInv
BY FaucetInvInit, FaucetInvStep, PTL DEF FaucetSpec

\* No account the faucet pays from ever owes, whatever is deposited, minted and
\* paid at once (depositAvailableClassicToSac).
THEOREM FaucetTypeCorrect == FaucetSpec => []FaucetTypeOK
<1>1. FaucetInv => FaucetTypeOK
  BY DEF FaucetInv, TypesOK, RunsOK, ShapeOK, FaucetTypeOK, Sacs
<1>2. QED
  BY <1>1, FaucetInvariant, PTL

\* What stands in the file as claimed was paid, also when two handlers shared a
\* transaction (claimTestnetFunds).
THEOREM RecordedIsPaidHolds == FaucetSpec => []RecordedIsPaid
<1>1. FaucetInv => RecordedIsPaid
  BY DEF FaucetInv
<1>2. QED
  BY <1>1, FaucetInvariant, PTL

\* A payment is of a claim that began a cooldown or more after every claim of its
\* kind that the file held (getClaimStatus).
THEOREM OncePerCooldownHolds == FaucetSpec => []OncePerCooldown
<1>1. FaucetInv => OncePerCooldown
  <2> SUFFICES ASSUME FaucetInv PROVE OncePerCooldown
    OBVIOUS
  <2>1. paid \subseteq Pays
    BY NoneAssumption DEF FaucetInv, TypesOK, Pays
  <2>2. QED
    BY <2>1 DEF FaucetInv, PaysOK, SawOK, OncePerCooldown
<1>2. QED
  BY <1>1, FaucetInvariant, PTL

-----------------------------------------------------------------------------
(* Claims are short: what ClaimsEnd rests on besides the answers of the     *)
(* network.                                                                *)

\* Steps of the top-up loop for the candidates from the i-th on: two for each turn,
\* two more for each candidate.
Rounds(i) == ((Len(Funders) + 1) - i) * (2 * TopUps + 2)

\* What a claim may still do.
Fuel(x) ==
    LET n == Len(Funders)
    IN  CASE x.pc = "wait"    -> 1
          [] x.pc = "send"    -> 2
          [] x.pc = "pick"    -> IF x.booted THEN n + 4 - x.i ELSE Rounds(0) + 2 * n + 6 - x.i
          [] x.pc = "mint"    -> n + 4
          [] x.pc = "deposit" -> Rounds(x.i) + n + 5 + 2 * (TopUps - x.turn)
          [] x.pc = "boot"    -> Rounds(x.i) + n + 6 + 2 * (TopUps - x.turn)
          [] OTHER            -> 0

\* A step of a claim uses up fuel, whatever the others and the network do in
\* between, and nothing but a new claim provides any.
ClaimShrinks(r) ==
    /\ Fuel(req[r]) <= Rounds(0) + 2 * Len(Funders) + 5
    /\ Step(r) => Fuel(req'[r]) < Fuel(req[r])
    /\ ~At(r, "idle") => Fuel(req'[r]) <= Fuel(req[r])

LEMMA RoundsAre ==
    /\ Len(Funders) \in Nat /\ TopUps \in Nat
    /\ \A i \in 0..(Len(Funders) + 1) : Rounds(i) \in Nat
    /\ \A i \in 0..Len(Funders) : Rounds(i) = Rounds(i + 1) + 2 * TopUps + 2
    /\ \A i \in 1..(Len(Funders) + 1) : Rounds(i) + 2 * TopUps + 2 <= Rounds(0)
<1> DEFINE n == Len(Funders)
           k == 2 * TopUps + 2
<1>1. n \in Nat /\ TopUps \in Nat /\ k \in Nat
  BY AccountsAre, FaucetAssumption
<1>2. \A i : Rounds(i) = ((n + 1) - i) * k
  BY DEF Rounds
<1> HIDE DEF n, k
<1>3. \A a \in Nat : a * k \in Nat /\ (a + 1) * k = a * k + k
  BY <1>1
<1>4. \A a \in Nat, b \in Nat : (a + b) * k = a * k + b * k
  BY <1>1
<1>5. ASSUME NEW i \in 0..(n + 1) PROVE Rounds(i) \in Nat
  <2>1. (n + 1) - i \in Nat
    BY <1>1
  <2>2. QED
    BY <1>2, <1>3, <2>1
<1>6. ASSUME NEW i \in 0..n PROVE Rounds(i) = Rounds(i + 1) + k
  <2>1. n - i \in Nat /\ (n + 1) - i = (n - i) + 1 /\ (n + 1) - (i + 1) = n - i
    BY <1>1
  <2>2. QED
    BY <1>2, <1>3, <2>1
<1>7. ASSUME NEW i \in 1..(n + 1) PROVE Rounds(i) + k <= Rounds(0)
  <2> DEFINE a == (n + 1) - i
             b == i - 1
  <2>1. a \in Nat /\ b \in Nat /\ (n + 1) - 0 = (a + b) + 1 /\ a + b \in Nat
    BY <1>1
  <2>2. Rounds(i) = a * k /\ Rounds(0) = ((a + b) + 1) * k
    BY <1>2, <2>1
  <2> HIDE DEF a, b
  <2>3. Rounds(0) = (a * k + b * k) + k /\ a * k \in Nat /\ b * k \in Nat
    BY <1>3, <1>4, <2>1, <2>2
  <2>4. QED
    BY <1>1, <2>2, <2>3
<1>8. \A i \in 0..n : Rounds(i) = Rounds(i + 1) + 2 * TopUps + 2
  BY <1>1, <1>5, <1>6 DEF k
<1>9. \A i \in 1..(n + 1) : Rounds(i) + 2 * TopUps + 2 <= Rounds(0)
  <2>1. ASSUME NEW i \in 1..(n + 1) PROVE Rounds(i) + 2 * TopUps + 2 <= Rounds(0)
    <3>1. Rounds(i) \in Nat /\ Rounds(i) + k <= Rounds(0)
      BY <1>1, <1>5, <1>7
    <3>2. QED
      BY <1>1, <3>1 DEF k
  <2>2. QED
    BY <2>1
<1>10. QED
  BY <1>1, <1>5, <1>8, <1>9 DEF n

LEMMA FuelParts ==
    ASSUME NEW x
    PROVE  /\ x.pc = "wait" => Fuel(x) = 1
           /\ x.pc = "send" => Fuel(x) = 2
           /\ x.pc = "pick" /\ x.booted => Fuel(x) = Len(Funders) + 4 - x.i
           /\ x.pc = "pick" /\ ~ x.booted => Fuel(x) = Rounds(0) + 2 * Len(Funders) + 6 - x.i
           /\ x.pc = "mint" => Fuel(x) = Len(Funders) + 4
           /\ x.pc = "deposit" => Fuel(x) = Rounds(x.i) + Len(Funders) + 5 + 2 * (TopUps - x.turn)
           /\ x.pc = "boot" => Fuel(x) = Rounds(x.i) + Len(Funders) + 6 + 2 * (TopUps - x.turn)
           /\ x.pc = "idle" => Fuel(x) = 0
BY DEF Fuel

LEMMA FuelIs ==
    ASSUME NEW x \in Run, ShapeOK(x)
    PROVE  /\ Fuel(x) \in 0..(Rounds(0) + 2 * Len(Funders) + 5)
           /\ x.pc # "idle" => Fuel(x) > 0
           /\ x.pc = "idle" => Fuel(x) = 0
<1>1. /\ x.i \in 1..(Len(Funders) + 1) /\ x.turn \in 0..TopUps /\ Len(Funders) \in Nat /\ TopUps \in Nat
      /\ Rounds(x.i) \in Nat /\ Rounds(0) \in Nat /\ Rounds(x.i) + 2 * TopUps + 2 <= Rounds(0)
  BY RoundsAre DEF ShapeOK
<1>2. x.pc \in {"idle", "pick", "boot", "mint", "deposit", "send", "wait"} /\ x.booted \in BOOLEAN
  BY DEF Run
<1> DEFINE i == x.i
           t == x.turn
<1>3. CASE x.pc = "pick"
  <2>1. Fuel(x) \in {Len(Funders) + 4 - i, Rounds(0) + 2 * Len(Funders) + 6 - i}
    BY <1>2, <1>3, FuelParts
  <2>2. i \in Nat /\ 1 <= i /\ i <= Len(Funders) + 1 /\ Len(Funders) \in Nat /\ Rounds(0) \in Nat
    BY <1>1
  <2> HIDE DEF i
  <2>3. Fuel(x) \in 0..(Rounds(0) + 2 * Len(Funders) + 5) /\ Fuel(x) > 0
    BY <2>1, <2>2
  <2>4. QED
    BY <1>3, <2>3
<1>4. CASE x.pc \in {"boot", "deposit"}
  <2>1. Fuel(x) \in {Rounds(i) + Len(Funders) + 5 + 2 * (TopUps - t),
                     Rounds(i) + Len(Funders) + 6 + 2 * (TopUps - t)}
    BY <1>4, FuelParts
  <2>2. /\ t \in Nat /\ t <= TopUps /\ TopUps \in Nat /\ Len(Funders) \in Nat
        /\ Rounds(0) \in Nat /\ Rounds(i) \in Nat /\ Rounds(i) + 2 * TopUps + 2 <= Rounds(0)
    BY <1>1
  <2> HIDE DEF i, t
  <2>3. Fuel(x) \in 0..(Rounds(0) + 2 * Len(Funders) + 5) /\ Fuel(x) > 0
    <3> DEFINE n == Len(Funders)
               k == Rounds(i)
               z == Rounds(0)
    <3>1. /\ Fuel(x) \in {k + n + 5 + 2 * (TopUps - t), k + n + 6 + 2 * (TopUps - t)}
          /\ n \in Nat /\ k \in Nat /\ z \in Nat /\ t \in Nat /\ t <= TopUps /\ TopUps \in Nat
          /\ k + 2 * TopUps + 2 <= z
      BY <2>1, <2>2
    <3> HIDE DEF n, k, z
    <3>2. Fuel(x) \in 0..(z + 2 * n + 5) /\ Fuel(x) > 0
      BY <3>1
    <3>3. QED
      BY <3>2 DEF n, z
  <2>4. QED
    BY <1>4, <2>3
<1>5. CASE x.pc \in {"idle", "mint", "send", "wait"}
  <2>1. (x.pc = "idle" => Fuel(x) = 0) /\ (x.pc # "idle" => Fuel(x) \in {1, 2, Len(Funders) + 4})
    BY <1>5, FuelParts
  <2>2. Len(Funders) \in Nat /\ Len(Funders) # 0 /\ Rounds(0) \in Nat
    BY <1>1, AccountsAre
  <2> DEFINE n == Len(Funders)
             z == Rounds(0)
             w == Fuel(x)
  <2>3. (x.pc = "idle" => w = 0) /\ (x.pc # "idle" => w \in {1, 2, n + 4})
        /\ n \in Nat /\ n # 0 /\ z \in Nat
    BY <2>1, <2>2
  <2> HIDE DEF n, z, w
  <2>4. w \in 0..(z + 2 * n + 5) /\ (x.pc # "idle" => w > 0) /\ (x.pc = "idle" => w = 0)
    BY <2>3
  <2>5. QED
    BY <2>4 DEF n, z, w
<1>6. QED
  BY <1>2, <1>3, <1>4, <1>5

LEMMA FailShrinks ==
    ASSUME RunsOK, NEW r \in Requests, ~At(r, "idle"), Fail(r)
    PROVE  Fuel(req'[r]) < Fuel(req[r])
<1>1. req'[r] = Free /\ Fuel(Free) = 0
  BY DEF RunsOK, Fail, Free, Fuel
<1>2. QED
  BY <1>1, FuelIs DEF RunsOK, At

LEMMA PickAgainShrinks ==
    ASSUME RunsOK, NEW r \in Requests, At(r, "boot") \/ At(r, "mint"), PickAgain(r)
    PROVE  Fuel(req'[r]) < Fuel(req[r])
<1>1. req[r] \in Run /\ ShapeOK(req[r])
  BY DEF RunsOK
<1>2. req'[r].pc = "pick" /\ req'[r].i = 1 /\ req'[r].booted = TRUE
  BY <1>1 DEF RunsOK, PickAgain, Run
<1>3. /\ req[r].turn \in 0..TopUps /\ Len(Funders) \in Nat /\ TopUps \in Nat
      /\ Rounds(req[r].i) \in Nat
  BY <1>1, RoundsAre DEF ShapeOK
<1>4. Fuel(req'[r]) = Len(Funders) + 3
  BY <1>2, <1>3 DEF Fuel
<1> DEFINE n == Len(Funders)
           k == Rounds(req[r].i)
           t == req[r].turn
           w == Fuel(req[r])
<1>5. w \in {n + 4, k + n + 6 + 2 * (TopUps - t)}
  BY FuelParts DEF At
<1>6. n \in Nat /\ k \in Nat /\ t \in Nat /\ t <= TopUps /\ TopUps \in Nat
  BY <1>3
<1>7. Fuel(req'[r]) = n + 3
  BY <1>4
<1> HIDE DEF n, k, t, w
<1>8. Fuel(req'[r]) < w
  BY <1>5, <1>6, <1>7
<1>9. QED
  BY <1>8 DEF w

LEMMA GoShrinks ==
    ASSUME RunsOK, NEW r \in Requests, NEW pc, Go(r, pc),
           (At(r, "boot") /\ pc = "mint") \/ (At(r, "send") /\ pc = "wait")
    PROVE  Fuel(req'[r]) < Fuel(req[r])
<1>1. req[r] \in Run /\ ShapeOK(req[r])
  BY DEF RunsOK
<1>2. req'[r].pc = pc
  BY <1>1 DEF RunsOK, Go, Run
<1>3. /\ req[r].turn \in 0..TopUps /\ Len(Funders) \in Nat /\ TopUps \in Nat
      /\ Rounds(req[r].i) \in Nat
  BY <1>1, RoundsAre DEF ShapeOK
<1> DEFINE n == Len(Funders)
           k == Rounds(req[r].i)
           t == req[r].turn
           v == Fuel(req'[r])
           w == Fuel(req[r])
<1>4. (v = 1 /\ w = 2) \/ (v = n + 4 /\ w = k + n + 6 + 2 * (TopUps - t))
  BY <1>2, FuelParts DEF At
<1>5. n \in Nat /\ k \in Nat /\ t \in Nat /\ t <= TopUps /\ TopUps \in Nat
  BY <1>3
<1> HIDE DEF n, k, t, v, w
<1>6. v < w
  BY <1>4, <1>5
<1>7. QED
  BY <1>6 DEF v, w

LEMMA NextCandidateShrinks ==
    ASSUME RunsOK, NEW r \in Requests, At(r, "boot") \/ At(r, "deposit"),
           req[r].i <= Len(Funders), NextCandidate(r)
    PROVE  Fuel(req'[r]) < Fuel(req[r])
<1> DEFINE i == req[r].i
<1>1. req[r] \in Run /\ ShapeOK(req[r])
  BY DEF RunsOK
<1>2. req'[r].pc = "boot" /\ req'[r].i = i + 1 /\ req'[r].turn = 0
  BY <1>1 DEF RunsOK, NextCandidate, Run
<1>3. /\ i \in 1..Len(Funders) /\ req[r].turn \in 0..TopUps /\ Len(Funders) \in Nat /\ TopUps \in Nat
      /\ Rounds(i) = Rounds(i + 1) + 2 * TopUps + 2 /\ Rounds(i) \in Nat /\ Rounds(i + 1) \in Nat
  <2>1. i \in 1..(Len(Funders) + 1) /\ i <= Len(Funders) /\ req[r].turn \in 0..TopUps
    BY <1>1 DEF ShapeOK
  <2>2. Len(Funders) \in Nat /\ TopUps \in Nat
    BY RoundsAre
  <2> HIDE DEF i
  <2>3. i \in 1..Len(Funders) /\ i \in 0..Len(Funders) /\ i \in 0..(Len(Funders) + 1)
        /\ i + 1 \in 0..(Len(Funders) + 1)
    BY <2>1, <2>2
  <2>4. QED
    BY <2>1, <2>2, <2>3, RoundsAre
<1> DEFINE n == Len(Funders)
           k == Rounds(i)
           l == Rounds(i + 1)
           t == req[r].turn
           v == Fuel(req'[r])
           w == Fuel(req[r])
<1>4. v = l + n + 6 + 2 * (TopUps - 0)
  BY <1>2, FuelParts
<1>5. w \in {k + n + 5 + 2 * (TopUps - t), k + n + 6 + 2 * (TopUps - t)}
  BY FuelParts DEF At
<1>6. /\ n \in Nat /\ k \in Nat /\ l \in Nat /\ k = l + 2 * TopUps + 2
      /\ t \in Nat /\ t <= TopUps /\ TopUps \in Nat
  BY <1>3
<1> HIDE DEF i, n, k, l, t, v, w
<1>7. v < w
  BY <1>4, <1>5, <1>6
<1>8. QED
  BY <1>7 DEF v, w

LEMMA PickShrinks ==
    ASSUME RunsOK, NEW r \in Requests, Pick(r)
    PROVE  Fuel(req'[r]) < Fuel(req[r])
<1> DEFINE i == req[r].i
<1>1. req[r] \in Run /\ ShapeOK(req[r]) /\ req[r].pc = "pick" /\ ~At(r, "idle")
      /\ i \in 1..(Len(Funders) + 1) /\ req[r].turn \in 0..TopUps /\ req[r].booted \in BOOLEAN
  BY DEF RunsOK, Pick, At, ShapeOK, Run
<1>2. /\ Len(Funders) \in Nat /\ TopUps \in Nat /\ Rounds(0) \in Nat /\ Rounds(1) \in Nat
      /\ Rounds(0) = Rounds(1) + 2 * TopUps + 2
  BY RoundsAre
<1>3. CASE Fail(r)
  BY <1>1, <1>3, FailShrinks
<1>4. CASE ~ req[r].booted /\ req' = [req EXCEPT ![r].pc = "boot", ![r].i = 1]
  <2>1. req'[r].pc = "boot" /\ req'[r].i = 1 /\ req'[r].turn = req[r].turn
    BY <1>1, <1>4 DEF RunsOK, Run
  <2>2. QED
    <3>1. /\ Fuel(req'[r]) = Rounds(1) + Len(Funders) + 6 + 2 * (TopUps - req[r].turn)
          /\ Fuel(req[r]) = Rounds(0) + 2 * Len(Funders) + 6 - i
      BY <1>1, <1>4, <2>1, FuelParts
    <3>2. /\ req[r].turn \in Nat /\ req[r].turn <= TopUps /\ TopUps \in Nat /\ Len(Funders) \in Nat
          /\ i \in Nat /\ i <= Len(Funders) + 1
          /\ Rounds(1) \in Nat /\ Rounds(0) = Rounds(1) + 2 * TopUps + 2
      BY <1>1, <1>2
    <3> HIDE DEF i
    <3> DEFINE n == Len(Funders)
               k == Rounds(1)
               t == req[r].turn
    <3>3. /\ Fuel(req'[r]) = k + n + 6 + 2 * (TopUps - t)
          /\ Fuel(req[r]) = (k + 2 * TopUps + 2) + 2 * n + 6 - i
          /\ t \in Nat /\ t <= TopUps /\ TopUps \in Nat /\ n \in Nat /\ k \in Nat
          /\ i \in Nat /\ i <= n + 1
      BY <3>1, <3>2
    <3> HIDE DEF n, k, t
    <3>4. QED
      BY <3>3
<1>5. CASE i <= Len(Funders) /\ req' = [req EXCEPT ![r].pc = "send", ![r].from = Candidate(r)]
  <2>1. req'[r].pc = "send"
    BY <1>1, <1>5 DEF RunsOK, Run
  <2>2. QED
    <3>1. /\ Fuel(req'[r]) = 2
          /\ Fuel(req[r]) \in {Len(Funders) + 4 - i, Rounds(0) + 2 * Len(Funders) + 6 - i}
      BY <1>1, <2>1, FuelParts
    <3>2. Len(Funders) \in Nat /\ Rounds(0) \in Nat /\ i \in Nat /\ i <= Len(Funders)
      BY <1>1, <1>2, <1>5
    <3> DEFINE n == Len(Funders)
               z == Rounds(0)
               v == Fuel(req'[r])
               w == Fuel(req[r])
    <3>3. /\ v = 2 /\ w \in {n + 4 - i, z + 2 * n + 6 - i}
          /\ n \in Nat /\ z \in Nat /\ i \in Nat /\ i <= n
      BY <3>1, <3>2
    <3> HIDE DEF i, n, z, v, w
    <3>4. v < w
      BY <3>3
    <3>5. QED
      BY <3>4 DEF v, w
<1>6. CASE i <= Len(Funders) /\ req' = [req EXCEPT ![r].i = @ + 1]
  <2>1. req'[r].pc = "pick" /\ req'[r].i = i + 1 /\ req'[r].booted = req[r].booted
    BY <1>1, <1>6 DEF RunsOK, Run
  <2>2. QED
    <3>1. req[r].booted \in BOOLEAN /\ req[r].pc = "pick" /\ req'[r].pc = "pick" /\ req'[r].i = i + 1
          /\ (req'[r].booted <=> req[r].booted)
      BY <1>1, <2>1
    <3>2. \/ /\ Fuel(req'[r]) = Len(Funders) + 4 - (i + 1)
             /\ Fuel(req[r]) = Len(Funders) + 4 - i
          \/ /\ Fuel(req'[r]) = Rounds(0) + 2 * Len(Funders) + 6 - (i + 1)
             /\ Fuel(req[r]) = Rounds(0) + 2 * Len(Funders) + 6 - i
      BY <3>1, FuelParts
    <3>3. i \in Nat /\ Len(Funders) \in Nat /\ Rounds(0) \in Nat
      BY <1>1, <1>2
    <3> HIDE DEF i
    <3>4. QED
      BY <3>2, <3>3
<1>7. i <= Len(Funders) \/ i > Len(Funders)
  <2>1. i \in Nat /\ Len(Funders) \in Nat
    BY <1>1, <1>2
  <2> HIDE DEF i
  <2>2. QED
    BY <2>1
<1>8. QED
  BY <1>3, <1>4, <1>5, <1>6, <1>7 DEF Pick

\* Each turn counts, also one that deposits nothing.
LEMMA TopUpShrinks ==
    ASSUME RunsOK, NEW r \in Requests, BootUsdc(r) \/ Deposit(r)
    PROVE  Fuel(req'[r]) < Fuel(req[r])
<1>1. /\ req[r] \in Run /\ ShapeOK(req[r]) /\ ~At(r, "idle") /\ (At(r, "boot") \/ At(r, "deposit"))
      /\ req[r].i \in 1..(Len(Funders) + 1) /\ req[r].turn \in 0..TopUps
  BY DEF RunsOK, BootUsdc, Deposit, At, ShapeOK
<1>2. /\ Len(Funders) \in Nat /\ TopUps \in Nat /\ Rounds(req[r].i) \in Nat
  BY <1>1, RoundsAre
<1>3. CASE Fail(r)
  BY <1>1, <1>3, FailShrinks
<1>4. CASE At(r, "boot") /\ PickAgain(r)
  BY <1>4, PickAgainShrinks
<1>5. CASE req[r].i <= Len(Funders) /\ NextCandidate(r)
  BY <1>1, <1>5, NextCandidateShrinks
<1>6. CASE At(r, "boot") /\ req' = [req EXCEPT ![r].pc = "deposit", ![r].short = Short(r)]
  <2>1. req'[r].pc = "deposit" /\ req'[r].i = req[r].i /\ req'[r].turn = req[r].turn
    BY <1>1, <1>6 DEF RunsOK, Run
  <2>2. QED
    <3>1. /\ Fuel(req'[r]) = Rounds(req[r].i) + Len(Funders) + 5 + 2 * (TopUps - req[r].turn)
          /\ Fuel(req[r]) = Rounds(req[r].i) + Len(Funders) + 6 + 2 * (TopUps - req[r].turn)
      BY <1>6, <2>1, FuelParts DEF At
    <3>2. /\ req[r].turn \in Nat /\ req[r].turn <= TopUps /\ TopUps \in Nat /\ Len(Funders) \in Nat
          /\ Rounds(req[r].i) \in Nat
      BY <1>1, <1>2
    <3>3. QED
      BY <3>1, <3>2
<1>7. CASE At(r, "deposit") /\ req' = [req EXCEPT ![r].pc = "boot", ![r].turn = @ + 1]
  <2>1. req'[r].pc = "boot" /\ req'[r].i = req[r].i /\ req'[r].turn = req[r].turn + 1
    BY <1>1, <1>7 DEF RunsOK, Run
  <2>2. QED
    <3>1. /\ Fuel(req'[r]) = Rounds(req[r].i) + Len(Funders) + 6 + 2 * (TopUps - (req[r].turn + 1))
          /\ Fuel(req[r]) = Rounds(req[r].i) + Len(Funders) + 5 + 2 * (TopUps - req[r].turn)
      BY <1>7, <2>1, FuelParts DEF At
    <3>2. /\ req[r].turn \in Nat /\ req[r].turn <= TopUps /\ TopUps \in Nat /\ Len(Funders) \in Nat
          /\ Rounds(req[r].i) \in Nat
      BY <1>1, <1>2
    <3> DEFINE n == Len(Funders)
               k == Rounds(req[r].i)
               t == req[r].turn
    <3>3. /\ Fuel(req'[r]) = k + n + 6 + 2 * (TopUps - (t + 1))
          /\ Fuel(req[r]) = k + n + 5 + 2 * (TopUps - t)
          /\ t \in Nat /\ t <= TopUps /\ TopUps \in Nat /\ n \in Nat /\ k \in Nat
      BY <3>1, <3>2
    <3> HIDE DEF n, k, t
    <3>4. QED
      BY <3>3
<1>8. At(r, "deposit") => req[r].i <= Len(Funders)
  BY <1>1 DEF ShapeOK, At
<1>9. QED
  BY <1>1, <1>3, <1>4, <1>5, <1>6, <1>7, <1>8 DEF BootUsdc, Deposit

LEMMA StepShrinks ==
    ASSUME FaucetInv, NEW r \in Requests, Step(r)
    PROVE  Fuel(req'[r]) < Fuel(req[r]) /\ \A s \in Requests \ {r} : req'[s] = req[s]
<1>1. RunsOK
  BY DEF FaucetInv
<1>2. \A s \in Requests \ {r} : req'[s] = req[s]
  BY <1>1 DEF Step, RunsOK, Pick, BootEurc, Mint, BootXlm, BootUsdc, Deposit, Send, Confirm, GiveUp,
              PickAgain, NextCandidate, Go, Fail, Recorded
<1>3. CASE BootEurc(r) \/ Mint(r) \/ BootXlm(r)
  <2>1. (At(r, "boot") \/ At(r, "mint")) /\ ~At(r, "idle")
    BY <1>3 DEF BootEurc, Mint, BootXlm, At
  <2>2. PickAgain(r) \/ Fail(r) \/ (At(r, "boot") /\ Go(r, "mint"))
    BY <1>3 DEF BootEurc, Mint, BootXlm
  <2>3. QED
    BY <1>1, <1>2, <2>1, <2>2, PickAgainShrinks, FailShrinks, GoShrinks
<1>4. CASE Send(r) \/ Confirm(r) \/ GiveUp(r)
  <2>1. ~At(r, "idle") /\ (Fail(r) \/ (At(r, "send") /\ Go(r, "wait")))
    BY <1>4 DEF Send, Confirm, GiveUp, Recorded, At
  <2>2. QED
    BY <1>1, <1>2, <2>1, FailShrinks, GoShrinks
<1>5. QED
  BY <1>1, <1>2, <1>3, <1>4, PickShrinks, TopUpShrinks DEF Step

LEMMA ActionShrinks == FaucetInv /\ [FaucetNext]_faucetVars => \A r \in Requests : ClaimShrinks(r)
<1> SUFFICES ASSUME FaucetInv, [FaucetNext]_faucetVars, NEW r \in Requests PROVE ClaimShrinks(r)
  OBVIOUS
<1>1. /\ Fuel(req[r]) \in 0..(Rounds(0) + 2 * Len(Funders) + 5) /\ Rounds(0) \in Nat /\ Len(Funders) \in Nat
      /\ Fuel(req'[r]) \in 0..(Rounds(0) + 2 * Len(Funders) + 5)
  BY FuelIs, FaucetInvStep, RoundsAre DEF FaucetInv, RunsOK
<1>2. req'[r] = req[r] => Fuel(req'[r]) <= Fuel(req[r])
  BY <1>1
<1>3. Step(r) => Fuel(req'[r]) < Fuel(req[r])
  BY StepShrinks
<1>4. ~At(r, "idle") => Fuel(req'[r]) <= Fuel(req[r])
  <2>1. CASE \E s \in Requests : Step(s)
    <3>1. PICK s \in Requests : Step(s)
      BY <2>1
    <3>2. s = r \/ req'[r] = req[r]
      BY <3>1, StepShrinks
    <3>3. QED
      BY <1>1, <1>2, <1>3, <3>1, <3>2
  <2>2. CASE \E s \in Requests, k \in Keys : Claim(s, k)
    <3>1. PICK s \in Requests, k \in Keys : Claim(s, k)
      BY <2>2
    <3>2. ~At(r, "idle") => r # s
      BY <3>1 DEF Claim
    <3>3. r # s => req'[r] = req[r]
      BY <3>1 DEF Claim, FaucetInv, RunsOK
    <3>4. QED
      BY <1>2, <3>2, <3>3
  <2>3. CASE Crash
    <3>1. req'[r] = Free
      BY <2>3 DEF Crash
    <3>2. Fuel(Free) = 0
      BY DEF Free, Fuel
    <3>3. QED
      BY <1>1, <3>1, <3>2
  <2>4. CASE (\E f \in Accounts : Apply(f) \/ Drop(f)) \/ Tick \/ UNCHANGED faucetVars
    BY <1>2, <2>4 DEF Apply, Drop, Tick, faucetVars
  <2>5. QED
    BY <2>1, <2>2, <2>3, <2>4 DEF FaucetNext
<1>5. Fuel(req[r]) <= Rounds(0) + 2 * Len(Funders) + 5
  BY <1>1
<1>6. QED
  BY <1>3, <1>4, <1>5 DEF ClaimShrinks

\* A claim ends after a number of its own steps that only the number of candidates
\* and of top-ups set, whoever else drains or fills the accounts: the safety half of
\* ClaimsEnd (pickSacFunder, depositAvailableClassicToSac).
THEOREM ClaimsAreShort == FaucetSpec => [][\A r \in Requests : ClaimShrinks(r)]_faucetVars
<1>1. FaucetInv /\ [FaucetNext]_faucetVars => [\A r \in Requests : ClaimShrinks(r)]_faucetVars
  BY ActionShrinks
<1>2. QED
  BY <1>1, FaucetInvariant, PTL DEF FaucetSpec
=============================================================================
