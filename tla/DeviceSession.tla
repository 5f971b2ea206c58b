--------------------------- MODULE DeviceSession ---------------------------
(***************************************************************************)
(* The trusted-device session of one smart account in the browser          *)
(* (app/src/lib/smartAccount.ts): a key kept in localStorage, and context  *)
(* rules of the account that let it sign.  The app keeps no list of the    *)
(* account's rules.  It asks an RPC server for one id after another        *)
(* (onChainContextRules.ts), and an error, a timeout and a rule that is    *)
(* not there are one answer to it; the server may lag behind the ledger.   *)
(* Pages of one browser share the key; each runs one handler at a time.    *)
(***************************************************************************)
EXTENDS Naturals, FiniteSets, FiniteSetsExt

CONSTANTS
    Pages,
    Passkey,                    \* the signer of the constructor's rule
    Forever,                    \* valid_until of that rule
    None,
    Lifetime,                   \* LUMENGATE_SESSION_LEDGERS (120960)
    Margin,                     \* ledgers a rule must still have (100)
    MaxRuleId, MaxMisses,       \* of listSessionContextRules (24 and 3)
    Pasts,                      \* what the account and the device did before,
                                \* and how much of each bound is used up
    MaxRules, MaxLedger, MaxKeys, MaxStarts, MaxFails      \* bounds

ASSUME SessionAssumption ==
    /\ {Passkey, Forever, None} \cap Nat = {}
    /\ {Lifetime, Margin, MaxRuleId, MaxRules, MaxLedger, MaxKeys, MaxStarts, MaxFails}
         \subseteq Nat
    /\ MaxMisses \in Nat \ {0}

\* Ids are given out from 0, and a rule of a session key expires.
ASSUME PastsAssumption ==
    \A past \in Pasts :
        /\ IsFiniteSet(DOMAIN past.rules)
        /\ DOMAIN past.rules = 0 .. Cardinality(DOMAIN past.rules) - 1
        /\ \A i \in DOMAIN past.rules :
              /\ past.rules[i].live \in BOOLEAN /\ past.rules[i].until \in Nat \cup {Forever}
              /\ past.rules[i].signer \in Nat => past.rules[i].until # Forever
        /\ past.key = None \/ past.key \in [no : Nat, exp : Nat]
        /\ past.used \in [starts : Nat, fails : Nat, keys : Nat]

VARIABLES
    ledger,
    rules,      \* context rules of the account, by id
    rpc,        \* the rules and the ledger the RPC server answers
    key,        \* lumengate.smartAccount.session.v1, or None
    run,        \* page -> its handler
    pool,       \* page -> the transaction the network has of it
    used        \* what the bounds count

chainVars   == <<ledger, rules>>
sessionVars == <<chainVars, rpc, key, run, pool, used>>

Free == [pc |-> "idle", goal |-> "none", stage |-> "none", key |-> None, told |-> 0,
         i |-> 0, misses |-> 0, top |-> 0, got |-> {}, op |-> None, clean |-> FALSE, blind |-> 0]

At(p, pc) == run[p].pc = pc
Set(p, r) == run' = [run EXCEPT ![p] = r]
Throw(p)  == Set(p, Free)

\* A read goes unanswered, or not in time.
Unanswered == used.fails < MaxFails /\ used' = [used EXCEPT !.fails = @ + 1]
ReadsIf(ok) == IF ok THEN UNCHANGED used ELSE Unanswered

-----------------------------------------------------------------------------
(* Handlers begin.                                                         *)

\* loadLumengateSession
Loaded == key # None /\ key.exp > ledger

\* (Bound: nothing is begun while an abandoned transaction is undecided.)
Begin(p, r) ==
    /\ At(p, "idle") /\ pool[p] = None /\ used.starts < MaxStarts
    /\ used' = [used EXCEPT !.starts = @ + 1]
    /\ Set(p, r)
    /\ UNCHANGED <<chainVars, rpc, key, pool>>

Op(kind, signer, rule) == [kind |-> kind, signer |-> signer, rule |-> rule, for |-> None, until |-> 0,
                           saw |-> 0, clean |-> FALSE, blind |-> 0, landed |-> FALSE]

\* createPersonalSmartAccount: the account is deployed with rule 0, and the
\* wait for that rule takes one that cannot be read yet for one that is there.
Create(p) ==
    /\ DOMAIN rules = {} /\ \A q \in Pages : pool[q] = None
    /\ Begin(p, [Free EXCEPT !.goal = "create", !.pc = "send", !.op = Op("deploy", None, 0)])

Enable(p) == 0 \in DOMAIN rules /\ Begin(p, [Free EXCEPT !.goal = "enable", !.pc = "key"])

\* A handler enters assertSmartAccountReadyForSettlement.
Gate(r, stage) == [r EXCEPT !.pc = "gate", !.stage = stage, !.blind = 0]

\* signAndSubmitSettlement
Settle(p) ==
    /\ 0 \in DOMAIN rules
    /\ Begin(p, Gate([Free EXCEPT !.goal = "settle"], "first"))

\* getLumengateSessionStatus, of the key that is stored.
Status(r) == [r EXCEPT !.pc = "ledger", !.stage = "status", !.key = key.no]

\* submitSmartAccountOperation
Operate(p) ==
    /\ 0 \in DOMAIN rules
    /\ LET r == [Free EXCEPT !.goal = "operate"]
       IN  Begin(p, IF Loaded THEN Status(r) ELSE Gate(r, "passkey"))

\* getOrCreateLumengateSession
OpenKey(p) ==
    /\ At(p, "key")
    /\ IF Loaded THEN UNCHANGED <<key, used>>
       ELSE /\ used.keys < MaxKeys
            /\ key' = [no |-> used.keys + 1, exp |-> ledger + Lifetime]
            /\ used' = [used EXCEPT !.keys = @ + 1]
    /\ Set(p, [run[p] EXCEPT !.pc = "fund", !.stage = "find", !.key = key'.no])
    /\ UNCHANGED <<chainVars, rpc, pool>>

\* ensureDelegatedSessionAccountExists: the key's account is there, or friendbot
\* opens it and an RPC server is asked until it sees it; if not the handler fails.
Fund(p) ==
    /\ At(p, "fund")
    /\ Set(p, [run[p] EXCEPT !.pc = IF run[p].stage = "find" THEN "ledger" ELSE "count"])
    /\ UNCHANGED <<chainVars, rpc, key, pool, used>>

\* revokeLumengateSession: the key goes and its rules stay.
Revoke ==
    /\ key # None
    /\ key' = None
    /\ UNCHANGED <<chainVars, rpc, run, pool, used>>

-----------------------------------------------------------------------------
(* Listing rules: listOnChainContextRules.                                 *)

AskLedger(p) ==
    /\ At(p, "ledger")
    /\ Set(p, [run[p] EXCEPT !.pc = "count", !.told = rpc.ledger])
    /\ UNCHANGED <<chainVars, rpc, key, pool, used>>

Served(i) == i \in DOMAIN rpc.rules /\ rpc.rules[i].live
Count == Cardinality({i \in DOMAIN rpc.rules : Served(i)})

\* The count of the rules there are bounds the ids to ask for; unanswered it is 0.
CountRules(p) ==
    /\ At(p, "count")
    /\ \E n \in {0, Count} :
         /\ ReadsIf(n = Count)
         /\ Set(p, [run[p] EXCEPT !.pc = "probe", !.i = 0, !.misses = 0, !.got = {},
                        !.top = Min({MaxRuleId, n + MaxMisses}),
                        !.clean = (n = Count /\ rpc.rules = rules)])
    /\ UNCHANGED <<chainVars, rpc, key, pool>>

\* defaultSessionRuleIsUsable
Usable(i, k, now) ==
    /\ rules[i].signer = k /\ rules[i].policy = "current"
    /\ rules[i].until > now + Margin

UsableOf(r) == {i \in r.got : Usable(i, r.key, r.told)}

Install(r) == [Op("install", Passkey, 0) EXCEPT !.for = r.key, !.until = r.told + Lifetime,
                                                !.clean = r.clean]

\* What a handler does with the rules it has listed.
Listed(r) ==
    CASE r.stage = "find" ->
           IF UsableOf(r) # {} THEN Free ELSE [r EXCEPT !.pc = "prompt", !.op = Install(r)]
      [] r.stage = "status" ->
           IF UsableOf(r) # {} THEN Gate(r, "sign")
           ELSE IF r.goal = "operate" THEN Gate(r, "passkey") ELSE Free
      [] r.stage = "sign" -> [r EXCEPT !.pc = "choose"]

\* Fault: misses add up although rules were found in between.
ProbeOnce(p) ==
    /\ At(p, "probe")
    /\ \E hit \in {FALSE, Served(run[p].i)} :
         LET r == [run[p] EXCEPT !.i = @ + 1, !.clean = @ /\ hit = Served(run[p].i) /\ rpc.rules = rules,
                                 !.misses = IF hit THEN @ ELSE @ + 1,
                                 !.got = IF hit THEN @ \cup {run[p].i} ELSE @]
         IN  /\ ReadsIf(hit = Served(run[p].i))
             /\ Set(p, IF r.misses = MaxMisses \/ r.i > r.top THEN Listed(r) ELSE r)
    /\ UNCHANGED <<chainVars, rpc, key, pool>>

\* get_context_rule of the next id; some misses in a row end the listing.
Probe(p) ==
    /\ At(p, "probe")
    /\ \E hit \in {FALSE, Served(run[p].i)} :
         LET r == [run[p] EXCEPT !.i = @ + 1, !.clean = @ /\ hit = Served(run[p].i) /\ rpc.rules = rules,
                                 !.misses = IF hit THEN 0 ELSE @ + 1,
                                 !.got = IF hit THEN @ \cup {run[p].i} ELSE @]
         IN  /\ ReadsIf(hit = Served(run[p].i))
             /\ Set(p, IF r.misses = MaxMisses \/ r.i > r.top THEN Listed(r) ELSE r)
    /\ UNCHANGED <<chainVars, rpc, key, pool>>

-----------------------------------------------------------------------------
(* assertSmartAccountReadyForSettlement, by three reads of rule 0.         *)

\* readContextRule0: of ids 0 and 1, the first that is answered.
Rule0 == IF Served(0) THEN 0 ELSE IF Served(1) THEN 1 ELSE None
Answers == {None} \cup {i \in {0, 1} : Served(i)}

Policy(a) == IF a = None THEN "unknown" ELSE rpc.rules[a].policy

\* The account may sign: the session key is loaded once more.
Passed(r) ==
    CASE r.stage = "first" -> IF Loaded THEN Status(r) ELSE Free
      [] r.stage = "sign" -> IF Loaded THEN [r EXCEPT !.pc = "fund", !.key = key.no] ELSE Free
      [] r.stage = "passkey" ->
           [r EXCEPT !.pc = "prompt", !.op = [Op("op", Passkey, 0) EXCEPT !.blind = r.blind]]

\* Fault: a policy that cannot be read is taken for the current one.
GateOpen(r, a) ==
    CASE Policy(a) = "legacy" -> Free
      [] Policy(a) = "unknown" -> Passed(r)
      [] OTHER -> [r EXCEPT !.pc = "stale"]

\* The first read; it is repeated while the policy is unknown, twelve times.
Gated(r, a) ==
    CASE Policy(a) = "legacy" -> Free
      [] Policy(a) = "unknown" -> [r EXCEPT !.blind = 0]
      [] OTHER -> [r EXCEPT !.pc = "stale"]

\* isSmartAccountPolicyStaleOnChain: what is unknown is not stale.
Stale(r, a) ==
    CASE Policy(a) = "legacy" -> Free
      [] Policy(a) = "unknown" -> Passed(r)
      [] OTHER -> [r EXCEPT !.pc = "signer"]

\* The passkey signs in the rule that was read.
Signer(r, a) ==
    IF a = None \/ rpc.rules[a].signer = Passkey THEN Passed(r) ELSE Free

Ready(p) ==
    /\ run[p].pc \in {"gate", "stale", "signer"}
    /\ \E a \in Answers :
         LET r == [run[p] EXCEPT !.blind = IF a = 0 THEN @ ELSE @ + 1]
         IN  /\ ReadsIf(a = Rule0)
             /\ Set(p, CASE At(p, "gate") -> Gated(r, a)
                         [] At(p, "stale") -> Stale(r, a)
                         [] At(p, "signer") -> Signer(r, a))
    /\ UNCHANGED <<chainVars, rpc, key, pool>>

-----------------------------------------------------------------------------
(* Signing and sending.                                                    *)

\* Fault: rules are chosen by the ledger the status was computed for.
ChooseByStatus(p) ==
    /\ At(p, "choose")
    /\ UsableOf(run[p]) # {}
    /\ Set(p, [run[p] EXCEPT !.pc = "send",
                  !.op = [Op("op", run[p].key, Max(UsableOf(run[p])))
                           EXCEPT !.saw = rpc.ledger, !.blind = run[p].blind]])
    /\ UNCHANGED <<chainVars, rpc, key, pool, used>>

\* bestDefaultSessionRuleId, by the ledger there is after the listing.
Choose(p) ==
    /\ At(p, "choose")
    /\ LET r == [run[p] EXCEPT !.told = rpc.ledger]
           best == {i \in UsableOf(r) : \A j \in UsableOf(r) : rules[j].until <= rules[i].until}
       IN  Set(p, IF best = {} THEN Free
                  ELSE [r EXCEPT !.pc = "send",
                            !.op = [Op("op", r.key, Max(best))
                                       EXCEPT !.saw = rpc.ledger, !.blind = r.blind]])
    /\ UNCHANGED <<chainVars, rpc, key, pool, used>>

\* The user approves the passkey prompt, or dismisses it.
Prompt(p) ==
    /\ At(p, "prompt")
    /\ Set(p, [run[p] EXCEPT !.pc = "send"]) \/ Throw(p)
    /\ UNCHANGED <<chainVars, rpc, key, pool, used>>

\* The network takes the transaction; the answer may be lost.
Send(p) ==
    /\ At(p, "send") /\ pool[p] = None
    /\ pool' = [pool EXCEPT ![p] = run[p].op]
    /\ Set(p, [run[p] EXCEPT !.pc = "wait", !.op = None]) \/ Throw(p)
    /\ UNCHANGED <<chainVars, rpc, key, used>>

\* do_check_auth: the rule that was chosen is there, its signer has signed, and
\* it has not expired.  An account is deployed once.
Authorized(op) ==
    IF op.kind = "deploy" THEN DOMAIN rules = {}
    ELSE
        /\ rules[op.rule].live /\ rules[op.rule].signer = op.signer
        /\ rules[op.rule].until # Forever => rules[op.rule].until >= ledger

Rule(signer, policy, until) == [signer |-> signer, policy |-> policy, until |-> until, live |-> TRUE]

\* The rules are no longer those a handler may have listed.
UncleanRun(r) == [r EXCEPT !.clean = FALSE, !.op = IF @ = None THEN None ELSE [@ EXCEPT !.clean = FALSE]]
UncleanOp(op) == IF op = None THEN None ELSE [op EXCEPT !.clean = FALSE]

\* A transaction is applied: a deployment and add_context_rule take the next id.
Land(p) ==
    /\ pool[p] # None /\ ~pool[p].landed /\ Authorized(pool[p])
    /\ LET op   == pool[p]
           next == Cardinality(DOMAIN rules)
           new  == IF op.kind = "deploy" THEN Rule(Passkey, "current", Forever)
                                         ELSE Rule(op.for, "current", op.until)
           left == [pool EXCEPT ![p] = IF At(p, "wait") THEN [@ EXCEPT !.landed = TRUE] ELSE None]
       IN  IF op.kind = "op"
           THEN /\ pool' = left
                /\ UNCHANGED <<rules, run>>
           ELSE /\ next < MaxRules
                /\ rules' = [i \in 0 .. next |-> IF i = next THEN new ELSE rules[i]]
                /\ pool' = [q \in Pages |-> UncleanOp(left[q])]
                /\ run' = [q \in Pages |-> UncleanRun(run[q])]
    /\ UNCHANGED <<ledger, rpc, key, used>>

\* A transaction is refused, or not applied in time.
Drop(p) ==
    /\ pool[p] # None /\ ~pool[p].landed
    /\ pool' = [pool EXCEPT ![p] = None]
    /\ IF At(p, "wait") THEN Throw(p) ELSE UNCHANGED run
    /\ UNCHANGED <<chainVars, rpc, key, used>>

\* submitResultOrThrow finds the transaction applied.
Answer(p) ==
    /\ At(p, "wait") /\ pool[p].landed
    /\ Set(p, Free)
    /\ pool' = [pool EXCEPT ![p] = None]
    /\ UNCHANGED <<chainVars, rpc, key, used>>

\* An await throws, or the page is closed.  withRetry starts the submission of
\* a settlement once more when what failed was the network.
Fail(p) ==
    /\ ~At(p, "idle") /\ Unanswered
    /\ \/ Throw(p)
       \/ /\ run[p].goal = "settle" /\ run[p].stage = "sign"
          /\ Set(p, Gate([Free EXCEPT !.goal = "settle"], "sign"))
    /\ pool' = [pool EXCEPT ![p] = IF @ # None /\ @.landed THEN None ELSE @]
    /\ UNCHANGED <<chainVars, rpc, key>>

CloseLedger ==
    /\ ledger < MaxLedger
    /\ ledger' = ledger + 1
    /\ UNCHANGED <<rules, rpc, key, run, pool, used>>

RpcCatchesUp ==
    /\ rpc' = [rules |-> rules, ledger |-> ledger]
    /\ rpc' # rpc
    /\ UNCHANGED <<chainVars, key, run, pool, used>>

SessionInit ==
    \E past \in Pasts :
        /\ ledger = 0
        /\ rules = past.rules
        /\ rpc = [rules |-> past.rules, ledger |-> 0]
        /\ key = past.key
        /\ run = [p \in Pages |-> Free]
        /\ pool = [p \in Pages |-> None]
        /\ used = past.used

SessionNext ==
    \/ \E p \in Pages : \/ Create(p) \/ Enable(p) \/ Settle(p) \/ Operate(p) \/ OpenKey(p) \/ Fund(p)
                        \/ AskLedger(p) \/ CountRules(p) \/ Probe(p) \/ Ready(p) \/ Choose(p)
                        \/ Prompt(p) \/ Send(p) \/ Land(p) \/ Drop(p) \/ Answer(p) \/ Fail(p)
    \/ Revoke \/ CloseLedger \/ RpcCatchesUp

SessionSpec == SessionInit /\ [][SessionNext]_sessionVars

-----------------------------------------------------------------------------
(* Properties.                                                             *)

InPool(kind) == {pool[p] : p \in {q \in Pages : pool[q] # None /\ pool[q].kind = kind /\ ~pool[q].landed}}

Gone(i) == {j \in 0 .. i : ~rules[j].live}

\* The listing gets to a rule unless its id is too great, MaxMisses ids in a row
\* are gone before it, or so many that the count of the rules is short of it.
Reachable(i) ==
    /\ i <= MaxRuleId /\ i <= Cardinality({j \in DOMAIN rules : rules[j].live}) + MaxMisses
    /\ \A j \in 0 .. i : ~(j .. j + MaxMisses - 1 \subseteq Gone(i))

\* The user is asked for a passkey to install a session rule, and pays for it,
\* only when no rule of the account lets the same key sign: if every read was
\* answered and no rule was added since, no rule the listing can get to is
\* usable (ensureLumengateSessionRule over listOnChainContextRules).
NoSpareRule ==
    \A op \in InPool("install") : op.clean =>
        ~ \E i \in DOMAIN rules : rules[i].live /\ Reachable(i) /\ Usable(i, op.for, ledger)

\* What a session signs is accepted: for Margin ledgers after the one the rules
\* were judged by, the chosen rule still authorizes the key
\* (resolveSessionContextRuleIdsForEntry and the + 100 of defaultSessionRuleIsUsable).
SessionSigns ==
    \A op \in InPool("op") :
        op.signer # Passkey /\ ledger <= op.saw + Margin => Authorized(op)

\* An account whose rule 0 carries a superseded policy sends nothing unless at
\* least two reads of that rule in a row went unanswered: one that is answered
\* stops it, one that is not is asked again (assertSmartAccountReadyForSettlement).
LegacyIsBlocked ==
    0 \in DOMAIN rules /\ rules[0].policy = "legacy" =>
        \A op \in InPool("op") : op.blind >= 2
=============================================================================
