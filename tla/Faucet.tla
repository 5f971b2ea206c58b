------------------------------- MODULE Faucet -------------------------------
(***************************************************************************)
(* The testnet faucet of the issuer service: POST /faucet/claim            *)
(* (issuer-service/lib/faucet.js), the accounts it pays from and how they  *)
(* are topped up (sacLiquidity.js).  The time of a claim is looked up in   *)
(* faucet_claims.json before the payment and written after it, and every   *)
(* call to the network in between is awaited.  An amount of 2 is one claim *)
(* of any asset and 1 is the dollar kept on a classic account.             *)
(***************************************************************************)
EXTENDS Naturals, Sequences, FiniteSets, Functions

CONSTANTS
    Requests,               \* handlers that may run at once
    Holders,                \* smart accounts
    Assets,                 \* of LIMITS
    Funders,                \* fundingCandidates, in order; the admin is the first
    Cooldown,               \* CLAIM_COOLDOWN_MS
    MintClaims,             \* claims minted when the EURC treasury is empty (20)
    TopUps,                 \* turns of the deposit loop (6)
    Starts,                 \* balances an account may start with
    MaxTime, MaxClaims, MaxCrashes, MaxBalance,     \* bounds
    None

Accounts == {Funders[i] : i \in DOMAIN Funders}

ASSUME FaucetAssumption ==
    /\ Assets \subseteq {"usdc", "eurc", "xlm", "treasury"}
    /\ Funders \in Seq(Accounts) /\ Funders # <<>>
    /\ {Cooldown, MintClaims, TopUps, MaxTime, MaxClaims, MaxCrashes, MaxBalance} \subseteq Nat
    /\ Starts \subseteq 0..MaxBalance

\* What a claim is of, and what the network is asked to pay: the claims whose
\* transaction it is, when they began and the recorded claims they looked at.
Keys     == [to : Holders, asset : Assets]
Payments == [key : Keys, by : SUBSET (1..MaxClaims), began : 0..MaxTime, saw : SUBSET Nat]

ASSUME NoneAssumption == None \notin Nat \cup Keys \cup Payments

VARIABLES
    now,
    claims,     \* faucet_claims.json: holder and asset -> time of the last claim
    sac,        \* balances on the asset's contract
    classic,    \* classic USDC of the accounts
    pool,       \* account -> the payment the network holds of it
    req,        \* request -> its run of claimTestnetFunds
    paid,       \* payments applied
    confirmed,  \* history: the claims recorded
    made, crashes, torn     \* torn: confirmed claims the file has lost

chainVars  == <<sac, classic, pool, paid>>
fileVars   == <<claims, confirmed, torn>>
faucetVars == <<now, chainVars, fileVars, req, made, crashes>>

Amount == 2
Dollar == 1
Admin  == Funders[1]
Free   == [pc |-> "idle", key |-> None, from |-> None, i |-> 1, turn |-> 0, short |-> 0,
           booted |-> FALSE, id |-> 0, began |-> 0, saw |-> 1..0]

At(r, pc)   == req[r].pc = pc
Go(r, pc)   == req' = [req EXCEPT ![r].pc = pc]
Fail(r)     == req' = [req EXCEPT ![r] = Free]
AssetOf(r)  == req[r].key.asset
Candidate(r) == Funders[req[r].i]

Payment(r) == [key |-> req[r].key, by |-> {req[r].id}, began |-> req[r].began, saw |-> req[r].saw]

-----------------------------------------------------------------------------
(* The claim.                                                              *)

\* getClaimStatus
Available(k) == claims[k] # None => now - claims[k] >= Cooldown

\* claimTestnetFunds up to its first await; treasury units need no funder.
Claim(r, k) ==
    /\ At(r, "idle") /\ made < MaxClaims
    /\ Available(k)
    /\ made' = made + 1
    /\ req' = [req EXCEPT ![r] =
           [Free EXCEPT !.pc = IF k.asset = "treasury" THEN "send" ELSE "pick", !.key = k,
                        !.from = Admin, !.id = made + 1, !.began = now,
                        !.saw = (torn + 1)..Len(confirmed)]]
    /\ UNCHANGED <<now, chainVars, fileVars, crashes>>

\* pickSacFunder reads the candidates' balances in turn; a read that fails
\* counts as nothing.  When none has enough the treasury is topped up, once.
Pick(r) ==
    /\ At(r, "pick")
    /\ IF req[r].i > Len(Funders)
       THEN IF req[r].booted THEN Fail(r)
            ELSE req' = [req EXCEPT ![r].pc = "boot", ![r].i = 1]
       ELSE \/ /\ sac[AssetOf(r)][Candidate(r)] >= Amount
               /\ req' = [req EXCEPT ![r].pc = "send", ![r].from = Candidate(r)]
            \/ req' = [req EXCEPT ![r].i = @ + 1]
    /\ UNCHANGED <<now, chainVars, fileVars, made, crashes>>

PickAgain(r) == req' = [req EXCEPT ![r].pc = "pick", ![r].i = 1, ![r].booted = TRUE]

-----------------------------------------------------------------------------
(* Topping up.                                                             *)

Credit(a, f, x) == sac' = [sac EXCEPT ![a][f] = @ + x]

\* ensureDeployerIssuedEurcLiquidity: the admin's balance is read, and the
\* mint is confirmed, or its answer is lost, or it fails.
BootEurc(r) ==
    /\ At(r, "boot") /\ AssetOf(r) = "eurc"
    /\ IF sac["eurc"][Admin] >= Amount THEN PickAgain(r) ELSE Go(r, "mint") \/ Fail(r)
    /\ UNCHANGED <<now, chainVars, fileVars, made, crashes>>

Mint(r) ==
    /\ At(r, "mint")
    /\ \/ /\ sac["eurc"][Admin] + MintClaims * Amount <= MaxBalance
          /\ Credit("eurc", Admin, MintClaims * Amount)
          /\ PickAgain(r) \/ Fail(r)
       \/ Fail(r) /\ UNCHANGED sac
    /\ UNCHANGED <<now, classic, pool, paid, fileVars, made, crashes>>

\* ensureNativeSacLiquidity: what the candidates have together is compared
\* with the claim; Friendbot pays any of them, in up to 24 rounds.
BootXlm(r) ==
    /\ At(r, "boot") /\ AssetOf(r) = "xlm"
    /\ IF SumFunction(sac["xlm"]) >= Amount
       THEN PickAgain(r) /\ UNCHANGED sac
       ELSE \E lucky \in SUBSET Accounts :
              /\ sac' = [sac EXCEPT !["xlm"] =
                     [f \in Accounts |-> IF f \in lucky THEN @[f] + Amount ELSE @[f]]]
              /\ IF SumFunction(sac'["xlm"]) >= Amount THEN PickAgain(r) ELSE Fail(r)
    /\ UNCHANGED <<now, classic, pool, paid, fileVars, made, crashes>>

NextCandidate(r) == req' = [req EXCEPT ![r].pc = "boot", ![r].i = @ + 1, ![r].turn = 0]

Short(r) == Amount - sac["usdc"][Candidate(r)]

\* depositAvailableClassicToSac: a turn of its loop, up to the deposit.  Classic
\* USDC is bought if the candidate has less than it is short of.
BootUsdc(r) ==
    /\ At(r, "boot") /\ AssetOf(r) = "usdc"
    /\ \/ req[r].i > Len(Funders) /\ Fail(r) /\ UNCHANGED classic
       \/ /\ req[r].i <= Len(Funders) /\ sac["usdc"][Candidate(r)] >= Amount
          /\ PickAgain(r) /\ UNCHANGED classic
       \/ /\ req[r].i <= Len(Funders) /\ sac["usdc"][Candidate(r)] < Amount
          /\ \/ NextCandidate(r) /\ UNCHANGED classic
             \/ /\ req[r].turn < TopUps
                /\ req' = [req EXCEPT ![r].pc = "deposit", ![r].short = Short(r)]
                /\ \E x \in 0..Amount :
                     /\ x >= classic[Candidate(r)]
                     /\ classic[Candidate(r)] >= Short(r) => x = classic[Candidate(r)]
                     /\ classic' = [classic EXCEPT ![Candidate(r)] = x]
    /\ UNCHANGED <<now, sac, pool, paid, fileVars, made, crashes>>

\* What may be deposited: a dollar of classic USDC is kept.
Deposited(r) ==
    LET f == Candidate(r)
        free == IF classic[f] > Dollar THEN classic[f] - Dollar ELSE 0
    IN  IF free < req[r].short THEN free ELSE req[r].short

\* Fault: all that lacks is deposited.
DepositShort(r) ==
    /\ At(r, "deposit")
    /\ classic' = [classic EXCEPT ![Candidate(r)] = @ - req[r].short]
    /\ Credit("usdc", Candidate(r), req[r].short)
    /\ req' = [req EXCEPT ![r].pc = "boot", ![r].turn = @ + 1]
    /\ UNCHANGED <<now, pool, paid, fileVars, made, crashes>>

\* Fault: nothing is deposited too, and its turn does not count.
DepositNothing(r) ==
    /\ At(r, "deposit")
    /\ LET f == Candidate(r)
       IN  /\ classic' = [classic EXCEPT ![f] = @ - Deposited(r)]
           /\ Credit("usdc", f, Deposited(r))
    /\ Go(r, "boot")
    /\ UNCHANGED <<now, pool, paid, fileVars, made, crashes>>

\* The deposit, its answer received or lost; nothing to deposit, or an error.
Deposit(r) ==
    /\ At(r, "deposit")
    /\ \/ /\ Deposited(r) > 0
          /\ classic' = [classic EXCEPT ![Candidate(r)] = @ - Deposited(r)]
          /\ Credit("usdc", Candidate(r), Deposited(r))
          /\ req' = [req EXCEPT ![r].pc = "boot", ![r].turn = @ + 1] \/ NextCandidate(r)
       \/ NextCandidate(r) /\ UNCHANGED <<sac, classic>>
    /\ UNCHANGED <<now, pool, paid, fileVars, made, crashes>>

-----------------------------------------------------------------------------
(* The payment: sacTransferFromKeypair, or invokeAdminContract.            *)

Covered(k, f) == k.asset # "treasury" => sac[k.asset][f] >= Amount

\* The network takes the payment; one built alike in the same second is the
\* same transaction.
Taken(r) ==
    LET f == req[r].from
    IN  /\ Covered(req[r].key, f)
        /\ \/ pool[f] = None /\ pool' = [pool EXCEPT ![f] = Payment(r)]
           \/ /\ pool[f] # None /\ pool[f].key = req[r].key
              /\ pool' = [pool EXCEPT ![f].by = @ \cup {req[r].id}]

\* The transaction is taken and awaited; or the answer is lost, or it was not
\* taken, which only the treasury's call retries.
Send(r) ==
    /\ At(r, "send")
    /\ \/ Taken(r) /\ (Go(r, "wait") \/ Fail(r))
       \/ UNCHANGED pool /\ (Go(r, "wait") \/ Fail(r))
    /\ UNCHANGED <<now, sac, classic, paid, fileVars, made, crashes>>

\* The network applies a payment that is still covered, or lets it go.
Apply(f) ==
    /\ pool[f] # None
    /\ Covered(pool[f].key, f)
    /\ pool' = [pool EXCEPT ![f] = None]
    /\ paid' = paid \cup {pool[f]}
    /\ sac' = IF pool[f].key.asset = "treasury" THEN sac
              ELSE [sac EXCEPT ![pool[f].key.asset][f] = @ - Amount]
    /\ UNCHANGED <<now, classic, fileVars, req, made, crashes>>

Drop(f) ==
    /\ pool[f] # None
    /\ pool' = [pool EXCEPT ![f] = None]
    /\ UNCHANGED <<now, sac, classic, paid, fileVars, req, made, crashes>>

-----------------------------------------------------------------------------
(* The file.                                                               *)

Recorded(r, key) ==
    /\ claims' = [k \in Keys |-> IF k = key THEN now ELSE claims[k]]
    /\ confirmed' = Append(confirmed, [key |-> req[r].key, at |-> now, id |-> req[r].id])
    /\ Fail(r)
    /\ UNCHANGED <<now, chainVars, made, crashes, torn>>

PaidFor(r) == \E p \in paid : req[r].id \in p.by

\* Fault: a payment that was sent is recorded whether or not it was applied.
ConfirmSent(r) == At(r, "wait") /\ Recorded(r, req[r].key)

\* Fault: a claim is recorded under another spelling of the address.
ConfirmElsewhere(r) ==
    /\ At(r, "wait") /\ PaidFor(r)
    /\ Recorded(r, None)

\* waitForTransactionSuccess, and the claim is written with those there are.
Confirm(r) == At(r, "wait") /\ PaidFor(r) /\ Recorded(r, req[r].key)

\* The payment failed, or two minutes passed: it may still be applied.
GiveUp(r) == At(r, "wait") /\ Fail(r) /\ UNCHANGED <<now, chainVars, fileVars, made, crashes>>

\* The service stops; inside writeFileSync it leaves a file that loadClaims
\* reads as no claims at all.
Crash ==
    /\ crashes < MaxCrashes
    /\ crashes' = crashes + 1
    /\ req' = [r \in Requests |-> Free]
    /\ \/ UNCHANGED fileVars
       \/ /\ \E r \in Requests : At(r, "wait") /\ PaidFor(r)
          /\ claims' = [k \in Keys |-> None]
          /\ torn' = Len(confirmed)
          /\ UNCHANGED confirmed
    /\ UNCHANGED <<now, chainVars, made>>

Tick == now < MaxTime /\ now' = now + 1 /\ UNCHANGED <<chainVars, fileVars, req, made, crashes>>

-----------------------------------------------------------------------------
Step(r) ==
    \/ Pick(r) \/ BootEurc(r) \/ Mint(r) \/ BootXlm(r) \/ BootUsdc(r)
    \/ Deposit(r) \/ Send(r) \/ Confirm(r) \/ GiveUp(r)

FaucetInit ==
    /\ now = 0 /\ made = 0 /\ crashes = 0 /\ torn = 0
    /\ claims = [k \in Keys |-> None] /\ confirmed = <<>> /\ paid = {}
    /\ \E b \in Starts : sac = [a \in Assets \ {"treasury"} |-> [f \in Accounts |-> b]]
    /\ \E c \in {0, Amount} : classic = [f \in Accounts |-> c]
    /\ pool = [f \in Accounts |-> None]
    /\ req = [r \in Requests |-> Free]

FaucetNext ==
    \/ \E r \in Requests : Step(r) \/ (\E k \in Keys : Claim(r, k))
    \/ \E f \in Accounts : Apply(f) \/ Drop(f)
    \/ Crash \/ Tick

\* Requests to the network are answered or fail.
FaucetSpec ==
    /\ FaucetInit /\ [][FaucetNext]_faucetVars
    /\ \A r \in Requests : WF_faucetVars(Step(r))

-----------------------------------------------------------------------------
(* Properties.                                                             *)

\* The accounts never owe, and the file holds times of claims.
FaucetTypeOK ==
    /\ now \in 0..MaxTime
    /\ claims \in [Keys -> (0..MaxTime) \cup {None}]
    /\ \A a \in DOMAIN sac : sac[a] \in [Accounts -> Nat]
    /\ classic \in [Accounts -> Nat]
    /\ pool \in [Accounts -> Payments \cup {None}]
    /\ paid \subseteq Payments
    /\ \A r \in Requests : req[r].i \in 1..(Len(Funders) + 1) /\ req[r].turn \in 0..TopUps

\* A claim that cannot be made again yet was paid: a payment that failed, or
\* was never taken, uses no one's day up (txHash is awaited before saveClaims).
RecordedIsPaid ==
    \A k \in Keys : claims[k] # None =>
        \E i \in DOMAIN confirmed : \E p \in paid :
            /\ confirmed[i].key = k /\ confirmed[i].at = claims[k]
            /\ p.key = k /\ confirmed[i].id \in p.by

\* "Claim available once every 24 hours per asset": no payment is made for a
\* claim that began less than a cooldown after another one of its kind was
\* recorded, whatever claims were written since, unless the file was lost.
OncePerCooldown ==
    \A p \in paid : \A i \in p.saw :
        confirmed[i].key = p.key => p.began - confirmed[i].at >= Cooldown

\* A claim is answered, however often its treasury has to be topped up.
ClaimsEnd == \A r \in Requests : ~At(r, "idle") ~> At(r, "idle")

=============================================================================
