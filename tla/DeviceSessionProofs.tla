------------------------ MODULE DeviceSessionProofs ------------------------
(* Theorems about the trusted-device session, for any number of pages, any  *)
(* account and device before, and any values of the app's parameters.       *)
EXTENDS DeviceSession, FiniteSetTheorems, WellFoundedInduction, TLAPS

-----------------------------------------------------------------------------
(* The inductive invariant.                                                *)

Pcs    == {"idle", "send", "key", "gate", "ledger", "fund", "count", "probe", "prompt", "stale",
           "signer", "choose", "wait"}
Stages == {"none", "find", "status", "sign", "first", "passkey"}
Goals  == {"none", "create", "enable", "settle", "operate"}

Operation ==
    [kind : {"deploy", "install", "op"}, signer : Nat \cup {None, Passkey}, rule : Nat,
     for : Nat \cup {None}, until : Nat, saw : Nat, clean : BOOLEAN, blind : Nat,
     landed : BOOLEAN]

Handler ==
    [pc : Pcs, goal : Goals, stage : Stages, key : Nat \cup {None}, told : Nat, i : Nat,
     misses : Nat, top : Nat, got : SUBSET Nat, op : Operation \cup {None}, clean : BOOLEAN,
     blind : Nat]

TypesOK ==
    /\ ledger \in Nat
    /\ key = None \/ key \in [no : Nat, exp : Nat]
    /\ run \in [Pages -> Handler]
    /\ pool \in [Pages -> Operation \cup {None}]
    /\ used \in [starts : Nat, fails : Nat, keys : Nat]

\* The RPC server answers what the account was like at an earlier ledger: ids
\* are never given out twice and a rule is never changed.
ChainOK ==
    /\ IsFiniteSet(DOMAIN rules)
    /\ DOMAIN rules = 0 .. Cardinality(DOMAIN rules) - 1
    /\ \A i \in DOMAIN rules :
          /\ rules[i].live \in BOOLEAN /\ rules[i].until \in Nat \cup {Forever}
          /\ rules[i].signer \in Nat => rules[i].until # Forever
    /\ DOMAIN rpc.rules \subseteq DOMAIN rules
    /\ \A i \in DOMAIN rpc.rules : rpc.rules[i] = rules[i]
    /\ rpc.ledger \in Nat /\ rpc.ledger <= ledger

Live   == {i \in DOMAIN rules : rules[i].live}
Legacy == 0 \in DOMAIN rules /\ rules[0].policy = "legacy"

\* What was signed outlives the margin it was judged with.
Chosen(op) ==
    /\ op.rule \in Live /\ rules[op.rule].signer = op.signer
    /\ rules[op.rule].until # Forever => rules[op.rule].until > op.saw + Margin

Spare(op) == \E i \in Live : Reachable(i) /\ Usable(i, op.for, ledger)

OperationOK(op) ==
    /\ op.kind = "install" => op.for \in Nat /\ (op.clean => ~Spare(op))
    /\ op.kind = "op" /\ op.signer # Passkey => Chosen(op)
    /\ op.kind = "op" /\ Legacy => op.blind >= 2

\* A listing whose reads were all answered has missed nothing so far.
Swept(r) ==
    /\ r.misses <= r.i
    /\ r.top = Min({MaxRuleId, Cardinality(Live) + MaxMisses})
    /\ \A j \in 0 .. r.i - 1 : j \in Live => j \in r.got
    /\ \A j \in r.i - r.misses .. r.i - 1 : j \notin Live

\* The readings of a superseded rule 0 that went unanswered.
Blind(r) ==
    CASE r.pc = "stale" -> r.blind >= 1
      [] r.pc = "signer" -> r.blind >= 2
      [] r.pc \in {"fund", "count", "probe", "choose"} /\ r.stage = "sign" -> r.blind >= 2
      [] OTHER -> TRUE

HandlerOK(r) ==
    /\ r.pc = "probe" => r.stage \in {"find", "status", "sign"}
    /\ r.pc = "ledger" => r.stage \in {"find", "status"}
    /\ r.pc = "count" => r.stage \in {"find", "status", "sign"}
    /\ r.pc \in {"gate", "stale", "signer"} => r.stage \in {"first", "sign", "passkey"}
    /\ r.pc = "fund" => r.stage \in {"find", "sign"}
    /\ r.pc = "choose" => r.stage = "sign"
    /\ r.stage = "find" => r.key \in Nat
    /\ r.told <= ledger
    /\ r.got \subseteq Live
    /\ r.pc = "probe" /\ r.clean => Swept(r)
    /\ Legacy => Blind(r)
    /\ r.op # None => OperationOK(r.op)

DeviceInv ==
    /\ TypesOK /\ ChainOK
    /\ \A q \in Pages : HandlerOK(run[q])
    /\ \A q \in Pages : pool[q] # None => OperationOK(pool[q])

-----------------------------------------------------------------------------
(* Lemmas about the operators.                                             *)

LEMMA MinOfTwo ==
    ASSUME NEW a \in Nat, NEW b \in Nat
    PROVE  Min({a, b}) \in Nat /\ Min({a, b}) <= a /\ Min({a, b}) <= b
           /\ (Min({a, b}) = a \/ Min({a, b}) = b)
<1>1. \E x \in {a, b} : \A y \in {a, b} : x =< y
  OBVIOUS
<1>2. Min({a, b}) \in {a, b} /\ \A y \in {a, b} : Min({a, b}) =< y
  BY <1>1, Zenon DEF Min
<1>3. QED
  BY <1>2

\* A bounded set of ids has a greatest one.
LEMMA MaxIsMember ==
    ASSUME NEW n \in Nat, NEW S \in SUBSET (0 .. n), S # {}
    PROVE  Max(S) \in S
<1> DEFINE R == {ss \in Nat \X Nat : ss[1] < ss[2]}
           T == {x \in 0 .. n : n - x \in S}
<1>1. T \subseteq Nat /\ T # {}
  <2>1. PICK s \in S : TRUE
    OBVIOUS
  <2>2. n - s \in T
    BY <2>1
  <2>3. QED
    BY <2>2
<1>2. PICK x \in T : \A y \in T : ~ (<<y, x>> \in R)
  <2> HIDE DEF T, R
  <2>1. IsWellFoundedOn(R, Nat)
    BY NatLessThanWellFounded DEF R, OpToRel
  <2>2. QED
    BY <1>1, <2>1, WFMin
<1>3. \A y \in T : ~ (y < x)
  <2>1. SUFFICES ASSUME NEW y \in T, y < x PROVE FALSE
    OBVIOUS
  <2>2. <<y, x>> \in R
    BY <2>1, <1>1, <1>2
  <2>3. QED
    BY <2>2, <1>2
<1>4. n - x \in S /\ \A s \in S : n - x >= s
  <2>1. SUFFICES ASSUME NEW s \in S PROVE n - x >= s
    BY <1>2
  <2>2. n - s \in T
    BY <2>1
  <2>3. ~ (n - s < x)
    BY <1>3, <2>2
  <2>4. QED
    BY <2>3, <1>2
<1>5. QED
  BY <1>4, Zenon DEF Max

LEMMA FreeIsHandler == Free \in Handler /\ Free.op = None
BY DEF Free, Handler, Operation, Pcs, Goals, Stages

\* Nothing is known less of handlers and operations while the account stays.
LEMMA SameAccount ==
    ASSUME UNCHANGED chainVars
    PROVE  /\ \A r : HandlerOK(r) => HandlerOK(r)'
           /\ \A op : OperationOK(op) => OperationOK(op)'
<1>1. rules' = rules /\ ledger' = ledger
  BY DEF chainVars
<1>2. Live' = Live /\ Legacy' = Legacy
  BY <1>1 DEF Live, Legacy
<1>3. ASSUME NEW op PROVE Spare(op)' <=> Spare(op)
  BY <1>1, <1>2 DEF Spare, Reachable, Gone, Usable
<1>4. ASSUME NEW op PROVE Chosen(op)' <=> Chosen(op)
  BY <1>1, <1>2 DEF Chosen
<1>5. ASSUME NEW op, OperationOK(op) PROVE OperationOK(op)'
  BY <1>2, <1>3, <1>4, <1>5 DEF OperationOK
<1>6. ASSUME NEW r, HandlerOK(r) PROVE HandlerOK(r)'
  <2>1. Swept(r) => Swept(r)'
    BY <1>2 DEF Swept
  <2>2. r.op # None => OperationOK(r.op)'
    BY <1>5, <1>6 DEF HandlerOK
  <2>3. QED
    BY <1>1, <1>2, <1>6, <2>1, <2>2 DEF HandlerOK, Blind
<1>7. QED
  BY <1>5, <1>6

\* One handler goes on and the account stays.
LEMMA OneHandler ==
    ASSUME DeviceInv, UNCHANGED chainVars,
           NEW p \in Pages, NEW r \in Handler, HandlerOK(r), Set(p, r)
    PROVE  run' \in [Pages -> Handler] /\ \A q \in Pages : HandlerOK(run[q])'
<1>1. run' \in [Pages -> Handler]
  BY DEF Set, DeviceInv, TypesOK
<1>2. ASSUME NEW q \in Pages PROVE HandlerOK(run'[q])
  BY DEF Set, DeviceInv, TypesOK
<1>3. ASSUME NEW q \in Pages PROVE HandlerOK(run[q])'
  <2>1. PICK s : s = run'[q]
    OBVIOUS
  <2>2. QED
    BY <1>2, <2>1, SameAccount
<1>4. QED
  BY <1>1, <1>3

\* A step of one handler that changes nothing else but what is counted.
LEMMA HandlerAndKey ==
    ASSUME DeviceInv, UNCHANGED <<chainVars, rpc, pool>>,
           key' = None \/ key' \in [no : Nat, exp : Nat],
           used' \in [starts : Nat, fails : Nat, keys : Nat],
           NEW p \in Pages, NEW r \in Handler, HandlerOK(r), Set(p, r)
    PROVE  DeviceInv'
<1>1. run' \in [Pages -> Handler] /\ \A q \in Pages : HandlerOK(run[q])'
  BY OneHandler
<1>2. \A q \in Pages : (pool[q] # None => OperationOK(pool[q]))'
  <2>1. SUFFICES ASSUME NEW q \in Pages, pool'[q] # None PROVE OperationOK(pool[q])'
    OBVIOUS
  <2>2. OperationOK(pool[q])
    BY <2>1 DEF DeviceInv
  <2>3. PICK op : op = pool[q]
    OBVIOUS
  <2>4. OperationOK(op)'
    BY <2>2, <2>3, SameAccount
  <2>5. QED
    BY <2>3, <2>4
<1>3. TypesOK'
  BY <1>1 DEF DeviceInv, TypesOK, chainVars
<1>4. ChainOK'
  BY DEF DeviceInv, ChainOK, chainVars
<1>5. QED
  BY <1>1, <1>2, <1>3, <1>4 DEF DeviceInv

LEMMA OnlyHandler ==
    ASSUME DeviceInv, UNCHANGED <<chainVars, rpc, key, pool>>,
           used' \in [starts : Nat, fails : Nat, keys : Nat],
           NEW p \in Pages, NEW r \in Handler, HandlerOK(r), Set(p, r)
    PROVE  DeviceInv'
<1>1. key' = None \/ key' \in [no : Nat, exp : Nat]
  BY DEF DeviceInv, TypesOK
<1>2. QED
  BY <1>1, HandlerAndKey

LEMMA FreeOK == DeviceInv => HandlerOK(Free)
BY FreeIsHandler DEF DeviceInv, TypesOK, HandlerOK, Free, Blind

LEMMA BeginOK ==
    ASSUME DeviceInv, NEW p \in Pages, NEW r \in Handler, HandlerOK(r), Begin(p, r)
    PROVE  DeviceInv'
<1>1. used' \in [starts : Nat, fails : Nat, keys : Nat]
  BY DEF Begin, DeviceInv, TypesOK
<1>2. QED
  BY <1>1, OnlyHandler DEF Begin

LEMMA ReadsOK ==
    ASSUME DeviceInv, NEW ok, ReadsIf(ok)
    PROVE  used' \in [starts : Nat, fails : Nat, keys : Nat]
BY DEF ReadsIf, Unanswered, DeviceInv, TypesOK

-----------------------------------------------------------------------------
(* Handlers begin.                                                         *)

LEMMA CreateStep == ASSUME DeviceInv, NEW p \in Pages, Create(p) PROVE DeviceInv'
<1> DEFINE r == [Free EXCEPT !.goal = "create", !.pc = "send", !.op = Op("deploy", None, 0)]
<1>1. r \in Handler
  BY DEF Free, Handler, Operation, Op, Pcs, Goals, Stages
<1>2. HandlerOK(r)
  BY DEF DeviceInv, TypesOK, HandlerOK, OperationOK, Free, Op, Blind
<1>3. QED
  BY <1>1, <1>2, BeginOK DEF Create

LEMMA EnableStep == ASSUME DeviceInv, NEW p \in Pages, Enable(p) PROVE DeviceInv'
<1> DEFINE r == [Free EXCEPT !.goal = "enable", !.pc = "key"]
<1>1. r \in Handler
  BY FreeIsHandler DEF Free, Handler, Pcs, Goals
<1>2. HandlerOK(r)
  BY DEF DeviceInv, TypesOK, HandlerOK, Free, Blind
<1>3. QED
  BY <1>1, <1>2, BeginOK DEF Enable

\* The gate starts from nothing seen.
LEMMA GateOK ==
    ASSUME DeviceInv, NEW r \in Handler, HandlerOK(r), NEW stage \in {"first", "sign", "passkey"}
    PROVE  Gate(r, stage) \in Handler /\ HandlerOK(Gate(r, stage))
<1> DEFINE g == Gate(r, stage)
<1>1. g \in Handler
  BY DEF Gate, Handler, Pcs, Stages
<1>2. /\ g.pc = "gate" /\ g.stage = stage /\ g.told = r.told /\ g.got = r.got /\ g.op = r.op
  BY DEF Gate, Handler
<1>3. Blind(g)
  BY <1>2 DEF Blind
<1>4. HandlerOK(g)
  BY <1>2, <1>3 DEF HandlerOK
<1>5. QED
  BY <1>1, <1>4

LEMMA StatusOK ==
    ASSUME DeviceInv, Loaded, NEW r \in Handler, HandlerOK(r)
    PROVE  Status(r) \in Handler /\ HandlerOK(Status(r))
<1> DEFINE g == Status(r)
<1>1. key.no \in Nat
  BY DEF Loaded, DeviceInv, TypesOK
<1>2. g \in Handler
  BY <1>1 DEF Status, Handler, Pcs, Stages
<1>3. /\ g.pc = "ledger" /\ g.stage = "status" /\ g.told = r.told /\ g.got = r.got /\ g.op = r.op
  BY DEF Status, Handler
<1>4. Blind(g)
  BY <1>3 DEF Blind
<1>5. HandlerOK(g)
  BY <1>3, <1>4 DEF HandlerOK
<1>6. QED
  BY <1>2, <1>5

LEMMA FreeFor ==
    ASSUME DeviceInv, NEW goal \in Goals
    PROVE  [Free EXCEPT !.goal = goal] \in Handler /\ HandlerOK([Free EXCEPT !.goal = goal])
<1>1. [Free EXCEPT !.goal = goal] \in Handler
  BY FreeIsHandler DEF Free, Handler, Goals
<1>2. HandlerOK([Free EXCEPT !.goal = goal])
  BY FreeIsHandler DEF DeviceInv, TypesOK, HandlerOK, Free, Blind
<1>3. QED
  BY <1>1, <1>2

LEMMA SettleStep == ASSUME DeviceInv, NEW p \in Pages, Settle(p) PROVE DeviceInv'
<1> DEFINE r == [Free EXCEPT !.goal = "settle"]
<1>1. r \in Handler /\ HandlerOK(r)
  BY FreeFor DEF Goals
<1>2. Gate(r, "first") \in Handler /\ HandlerOK(Gate(r, "first"))
  BY <1>1, GateOK
<1>3. Begin(p, Gate(r, "first"))
  BY DEF Settle
<1>4. QED
  BY <1>2, <1>3, BeginOK

LEMMA OperateStep == ASSUME DeviceInv, NEW p \in Pages, Operate(p) PROVE DeviceInv'
<1> DEFINE r == [Free EXCEPT !.goal = "operate"]
<1>1. r \in Handler /\ HandlerOK(r)
  BY FreeFor DEF Goals
<1>2. CASE Loaded
  <2>1. Begin(p, Status(r))
    BY <1>2 DEF Operate
  <2>2. QED
    BY <1>1, <1>2, <2>1, StatusOK, BeginOK
<1>3. CASE ~Loaded
  <2>1. Begin(p, Gate(r, "passkey"))
    BY <1>3 DEF Operate
  <2>2. QED
    BY <1>1, <2>1, GateOK, BeginOK
<1>4. QED
  BY <1>2, <1>3

LEMMA OpenKeyStep == ASSUME DeviceInv, NEW p \in Pages, OpenKey(p) PROVE DeviceInv'
<1> DEFINE r == [run[p] EXCEPT !.pc = "fund", !.stage = "find", !.key = key'.no]
<1>1. /\ key' = None \/ key' \in [no : Nat, exp : Nat]
      /\ key'.no \in Nat
      /\ used' \in [starts : Nat, fails : Nat, keys : Nat]
  <2>1. CASE Loaded
    BY <2>1 DEF OpenKey, Loaded, DeviceInv, TypesOK
  <2>2. CASE ~Loaded
    BY <2>2, SessionAssumption DEF OpenKey, DeviceInv, TypesOK
  <2>3. QED
    BY <2>1, <2>2
<1>2. run[p] \in Handler /\ HandlerOK(run[p])
  BY DEF DeviceInv, TypesOK
<1>3. r \in Handler
  BY <1>1, <1>2 DEF Handler, Pcs, Stages
<1>4. HandlerOK(r)
  <2>1. /\ r.pc = "fund" /\ r.stage = "find" /\ r.key \in Nat /\ r.told = run[p].told
        /\ r.got = run[p].got /\ r.op = run[p].op
    BY <1>1, <1>2 DEF Handler
  <2>2. Blind(r)
    BY <2>1 DEF Blind
  <2>3. QED
    BY <1>2, <2>1, <2>2 DEF HandlerOK
<1>5. QED
  BY <1>1, <1>3, <1>4, HandlerAndKey DEF OpenKey

LEMMA FundStep == ASSUME DeviceInv, NEW p \in Pages, Fund(p) PROVE DeviceInv'
<1> DEFINE r == [run[p] EXCEPT !.pc = IF run[p].stage = "find" THEN "ledger" ELSE "count"]
<1>1. run[p] \in Handler /\ HandlerOK(run[p]) /\ run[p].pc = "fund"
  BY DEF DeviceInv, TypesOK, Fund, At
<1>2. r \in Handler
  BY <1>1 DEF Handler, Pcs
<1>3. HandlerOK(r)
  BY <1>1, <1>2 DEF HandlerOK, Blind, Handler
<1>4. QED
  BY <1>2, <1>3, OnlyHandler DEF Fund, DeviceInv, TypesOK

LEMMA RevokeStep == ASSUME DeviceInv, Revoke PROVE DeviceInv'
<1>1. TypesOK' /\ ChainOK'
  BY DEF Revoke, DeviceInv, TypesOK, ChainOK, chainVars
<1>2. ASSUME NEW q \in Pages PROVE HandlerOK(run[q])' /\ (pool[q] # None => OperationOK(pool[q]))'
  <2>1. PICK r, op : r = run[q] /\ op = pool[q]
    OBVIOUS
  <2>2. HandlerOK(r)' /\ (op # None => OperationOK(op)')
    BY <2>1, SameAccount DEF DeviceInv, Revoke
  <2>3. QED
    BY <2>1, <2>2 DEF Revoke
<1>3. QED
  BY <1>1, <1>2 DEF DeviceInv

-----------------------------------------------------------------------------
(* Listing rules.                                                          *)

LEMMA AskLedgerStep == ASSUME DeviceInv, NEW p \in Pages, AskLedger(p) PROVE DeviceInv'
<1> DEFINE r == [run[p] EXCEPT !.pc = "count", !.told = rpc.ledger]
<1>1. run[p] \in Handler /\ HandlerOK(run[p]) /\ run[p].pc = "ledger"
  BY DEF DeviceInv, TypesOK, AskLedger, At
<1>2. rpc.ledger \in Nat /\ rpc.ledger <= ledger
  BY DEF DeviceInv, ChainOK
<1>3. r \in Handler
  BY <1>1, <1>2 DEF Handler, Pcs
<1>4. HandlerOK(r)
  BY <1>1, <1>2, <1>3 DEF HandlerOK, Blind, Handler
<1>5. QED
  BY <1>3, <1>4, OnlyHandler DEF AskLedger, DeviceInv, TypesOK

LEMMA ServedIsLive ==
    ASSUME DeviceInv
    PROVE  /\ \A i : Served(i) => i \in Live
           /\ rpc.rules = rules => \A i : Served(i) <=> i \in Live
           /\ rpc.rules = rules => Count = Cardinality(Live)
           /\ Count \in Nat
           /\ \A i : Served(i) \in BOOLEAN
<1>1. \A i : Served(i) => i \in Live
  BY DEF Served, Live, DeviceInv, ChainOK
<1>2. rpc.rules = rules => \A i : Served(i) <=> i \in Live
  BY DEF Served, Live
<1>3. {i \in DOMAIN rpc.rules : Served(i)} \in SUBSET DOMAIN rules
  BY DEF DeviceInv, ChainOK
<1>4. Count \in Nat
  <2>1. IsFiniteSet({i \in DOMAIN rpc.rules : Served(i)})
    BY <1>3, FS_Subset DEF DeviceInv, ChainOK
  <2>2. QED
    BY <2>1, FS_CardinalityType DEF Count
<1>5. ASSUME rpc.rules = rules PROVE Count = Cardinality(Live)
  <2>1. {i \in DOMAIN rpc.rules : Served(i)} = Live
    BY <1>2, <1>5 DEF Live
  <2>2. QED
    BY <2>1 DEF Count
<1>6. \A i : Served(i) \in BOOLEAN
  BY DEF Served, DeviceInv, ChainOK
<1>7. QED
  BY <1>1, <1>2, <1>4, <1>5, <1>6

LEMMA CountRulesStep == ASSUME DeviceInv, NEW p \in Pages, CountRules(p) PROVE DeviceInv'
<1>1. PICK n \in {0, Count} :
         /\ ReadsIf(n = Count)
         /\ Set(p, [run[p] EXCEPT !.pc = "probe", !.i = 0, !.misses = 0, !.got = {},
                        !.top = Min({MaxRuleId, n + MaxMisses}),
                        !.clean = (n = Count /\ rpc.rules = rules)])
  BY DEF CountRules
<1> DEFINE r == [run[p] EXCEPT !.pc = "probe", !.i = 0, !.misses = 0, !.got = {},
                        !.top = Min({MaxRuleId, n + MaxMisses}),
                        !.clean = (n = Count /\ rpc.rules = rules)]
<1>2. n \in Nat
  BY ServedIsLive
<1>3. run[p] \in Handler /\ HandlerOK(run[p]) /\ run[p].pc = "count"
  BY DEF DeviceInv, TypesOK, CountRules, At
<1>4. Min({MaxRuleId, n + MaxMisses}) \in Nat
  BY <1>2, MinOfTwo, SessionAssumption
<1>5. r \in Handler
  BY <1>3, <1>4 DEF Handler, Pcs
<1>6. HandlerOK(r)
  <2>1. /\ r.pc = "probe" /\ r.i = 0 /\ r.misses = 0 /\ r.got = {} /\ r.stage = run[p].stage
        /\ r.key = run[p].key /\ r.told = run[p].told /\ r.op = run[p].op
        /\ r.blind = run[p].blind /\ r.top = Min({MaxRuleId, n + MaxMisses})
        /\ r.clean = (n = Count /\ rpc.rules = rules)
    BY <1>3 DEF Handler
  <2>2. r.clean => Swept(r)
    <3> HIDE DEF r
    <3>1. SUFFICES ASSUME r.clean PROVE Swept(r)
      OBVIOUS
    <3>2. n = Cardinality(Live)
      BY <2>1, <3>1, ServedIsLive
    <3>3. QED
      BY <2>1, <3>2 DEF Swept
  <2>3. Legacy => Blind(r)
    BY <1>3, <2>1 DEF HandlerOK, Blind
  <2>4. QED
    BY <1>3, <2>1, <2>2, <2>3 DEF HandlerOK
<1>7. QED
  BY <1>1, <1>5, <1>6, ReadsOK, OnlyHandler DEF CountRules

\* When the listing ends with every read answered, a usable rule it could get
\* to is one it got.
LEMMA FullListing ==
    ASSUME DeviceInv, NEW r \in Handler, HandlerOK(r), r.clean, r.key \in Nat,
           r.pc = "probe", r.misses = MaxMisses \/ r.i > r.top,
           NEW i \in Live, Reachable(i), Usable(i, r.key, ledger)
    PROVE  i \in UsableOf(r)
<1>1. Swept(r) /\ r.told <= ledger /\ {r.told, ledger} \subseteq Nat
  BY DEF HandlerOK, DeviceInv, TypesOK, Handler
<1>2. {r.i, r.misses, r.top, MaxMisses, MaxRuleId, Margin} \subseteq Nat
  BY SessionAssumption DEF Handler
<1>3. i \in DOMAIN rules /\ i \in Nat /\ 0 .. i \subseteq DOMAIN rules
  BY FS_CardinalityType DEF Live, DeviceInv, ChainOK
<1>4. i < r.i
  <2>1. SUFFICES ASSUME i >= r.i PROVE FALSE
    BY <1>2, <1>3
  <2>2. CASE r.misses = MaxMisses
    <3>1. i - MaxMisses >= r.i - r.misses /\ r.misses <= r.i
      BY <1>1, <1>2, <1>3, <2>1, <2>2 DEF Swept
    <3>2. r.i - r.misses \in 0 .. i
      BY <1>2, <1>3, <3>1, <2>1
    <3>3. ASSUME NEW j \in r.i - r.misses .. r.i - r.misses + MaxMisses - 1
          PROVE  j \in Gone(i)
      <4>1. j \in r.i - r.misses .. r.i - 1 /\ j \in 0 .. i
        BY <1>2, <1>3, <2>1, <2>2, <3>1
      <4>2. j \notin Live /\ j \in DOMAIN rules
        BY <1>1, <1>3, <4>1 DEF Swept
      <4>3. QED
        BY <4>1, <4>2 DEF Gone, Live
    <3>4. QED
      BY <3>2, <3>3 DEF Reachable
  <2>3. CASE r.i > r.top
    <3>1. i <= MaxRuleId /\ i <= Cardinality(Live) + MaxMisses
      BY DEF Reachable, Live
    <3>2. Cardinality(Live) \in Nat
      <4>1. Live \in SUBSET DOMAIN rules
        BY DEF Live
      <4>2. QED
        BY <4>1, FS_Subset, FS_CardinalityType DEF DeviceInv, ChainOK
    <3>3. r.top = MaxRuleId \/ r.top = Cardinality(Live) + MaxMisses
      BY <1>1, <1>2, <3>2, MinOfTwo DEF Swept
    <3>4. QED
      BY <1>2, <1>3, <2>1, <2>3, <3>1, <3>2, <3>3
  <2>4. QED
    BY <2>2, <2>3
<1>5. i \in r.got
  BY <1>1, <1>2, <1>3, <1>4 DEF Swept
<1>6. rules[i].until \in Nat
  BY <1>3 DEF Usable, DeviceInv, ChainOK
<1>7. rules[i].until > r.told + Margin
  BY <1>1, <1>2, <1>6 DEF Usable
<1>8. QED
  BY <1>5, <1>7 DEF UsableOf, Usable

LEMMA ListedOK ==
    ASSUME DeviceInv, NEW r \in Handler, HandlerOK(r), r.pc = "probe",
           r.misses = MaxMisses \/ r.i > r.top
    PROVE  Listed(r) \in Handler /\ HandlerOK(Listed(r))
<1>1. r.stage \in {"find", "status", "sign"}
  BY DEF HandlerOK
<1>2. Free \in Handler /\ HandlerOK(Free)
  BY FreeIsHandler, FreeOK
<1>3. CASE r.stage = "find" /\ UsableOf(r) # {}
  BY <1>2, <1>3 DEF Listed
<1>4. CASE r.stage = "find" /\ UsableOf(r) = {}
  <2> DEFINE op == Install(r)
             s == [r EXCEPT !.pc = "prompt", !.op = op]
  <2>1. r.key \in Nat /\ r.told \in Nat /\ r.clean \in BOOLEAN /\ Lifetime \in Nat
    BY <1>4, SessionAssumption DEF HandlerOK, Handler
  <2>2. op \in Operation
    <3>1. Op("install", Passkey, 0) \in Operation
      BY DEF Op, Operation
    <3>2. r.told + Lifetime \in Nat
      BY <2>1
    <3>3. QED
      BY <2>1, <3>1, <3>2 DEF Install, Operation
  <2>3. op.kind = "install" /\ op.for = r.key /\ op.clean = r.clean
    BY DEF Install, Op
  <2>4. op.clean => ~Spare(op)
    BY <1>4, <2>1, <2>3, FullListing DEF Spare
  <2>5. OperationOK(op)
    BY <2>1, <2>3, <2>4 DEF OperationOK
  <2>6. s \in Handler
    BY <2>2 DEF Handler, Pcs
  <2>7. /\ s.pc = "prompt" /\ s.stage = r.stage /\ s.key = r.key /\ s.told = r.told
        /\ s.got = r.got /\ s.op = op
    BY DEF Handler
  <2>8. HandlerOK(s)
    <3> HIDE DEF op, s
    <3>1. Blind(s)
      BY <2>7 DEF Blind
    <3>2. QED
      BY <1>4, <2>1, <2>5, <2>7, <3>1 DEF HandlerOK
  <2>9. Listed(r) = s
    BY <1>4 DEF Listed
  <2>10. QED
    BY <2>6, <2>8, <2>9
<1>5. CASE r.stage = "status"
  BY <1>2, <1>5, GateOK DEF Listed
<1>6. CASE r.stage = "sign"
  <2> DEFINE s == [r EXCEPT !.pc = "choose"]
  <2>1. s \in Handler
    BY DEF Handler, Pcs
  <2>2. /\ s.pc = "choose" /\ s.stage = r.stage /\ s.key = r.key /\ s.told = r.told
        /\ s.got = r.got /\ s.op = r.op /\ s.blind = r.blind
    BY DEF Handler
  <2>3. HandlerOK(s)
    <3> HIDE DEF s
    <3>1. Legacy => Blind(s)
      BY <1>6, <2>2 DEF Blind, HandlerOK
    <3>2. QED
      BY <1>6, <2>2, <3>1 DEF HandlerOK
  <2>4. QED
    BY <1>6, <2>1, <2>3 DEF Listed
<1>7. QED
  BY <1>1, <1>3, <1>4, <1>5, <1>6

LEMMA ProbeStep == ASSUME DeviceInv, NEW p \in Pages, Probe(p) PROVE DeviceInv'
<1> DEFINE Then(hit) == [run[p] EXCEPT !.i = @ + 1, !.clean = @ /\ hit = Served(run[p].i) /\ rpc.rules = rules,
                                 !.misses = IF hit THEN 0 ELSE @ + 1,
                                 !.got = IF hit THEN @ \cup {run[p].i} ELSE @]
<1>1. PICK hit \in {FALSE, Served(run[p].i)} :
         /\ ReadsIf(hit = Served(run[p].i))
         /\ Set(p, IF Then(hit).misses = MaxMisses \/ Then(hit).i > Then(hit).top
                   THEN Listed(Then(hit)) ELSE Then(hit))
  BY DEF Probe
<1> DEFINE r == Then(hit)
<1>2. run[p] \in Handler /\ HandlerOK(run[p]) /\ run[p].pc = "probe"
  BY DEF DeviceInv, TypesOK, Probe, At
<1>3. hit \in BOOLEAN /\ (hit => run[p].i \in Live)
  BY ServedIsLive
<1>4. r \in Handler
  <2>1. (run[p].clean /\ hit = Served(run[p].i) /\ rpc.rules = rules) \in BOOLEAN
    OBVIOUS
  <2>2. run[p].i + 1 \in Nat /\ (IF hit THEN 0 ELSE run[p].misses + 1) \in Nat
    BY <1>2 DEF Handler
  <2>3. (IF hit THEN run[p].got \cup {run[p].i} ELSE run[p].got) \in SUBSET Nat
    BY <1>2 DEF Handler
  <2>4. QED
    BY <1>2, <2>1, <2>2, <2>3 DEF Handler
<1>5. /\ r.pc = "probe" /\ r.stage = run[p].stage /\ r.key = run[p].key /\ r.told = run[p].told
      /\ r.op = run[p].op /\ r.blind = run[p].blind /\ r.top = run[p].top
      /\ r.i = run[p].i + 1 /\ r.misses = IF hit THEN 0 ELSE run[p].misses + 1
      /\ r.got = IF hit THEN run[p].got \cup {run[p].i} ELSE run[p].got
      /\ r.clean = (run[p].clean /\ hit = Served(run[p].i) /\ rpc.rules = rules)
  BY <1>2 DEF Handler
<1>6. HandlerOK(r)
  <2> HIDE DEF Then
  <2>1. r.got \subseteq Live
    BY <1>2, <1>3, <1>5 DEF HandlerOK
  <2>2. ASSUME r.clean PROVE Swept(r)
    <3>1. Swept(run[p]) /\ (hit <=> run[p].i \in Live)
      BY <1>2, <1>3, <1>5, <2>2, ServedIsLive DEF HandlerOK
    <3>2. {run[p].i, run[p].misses} \subseteq Nat
      BY <1>2 DEF Handler
    <3>3. r.misses <= r.i
      BY <1>3, <1>5, <3>1, <3>2 DEF Swept
    <3>4. \A j \in 0 .. r.i - 1 : j \in Live => j \in r.got
      BY <1>3, <1>5, <3>1, <3>2 DEF Swept
    <3>5. \A j \in r.i - r.misses .. r.i - 1 : j \notin Live
      BY <1>3, <1>5, <3>1, <3>2 DEF Swept
    <3>6. QED
      BY <1>5, <3>1, <3>3, <3>4, <3>5 DEF Swept
  <2>3. Legacy => Blind(r)
    BY <1>2, <1>5 DEF Blind, HandlerOK
  <2>4. QED
    BY <1>2, <1>5, <2>1, <2>2, <2>3 DEF HandlerOK
<1>7. used' \in [starts : Nat, fails : Nat, keys : Nat]
  BY <1>1, ReadsOK
<1>8. CASE r.misses = MaxMisses \/ r.i > r.top
  BY <1>1, <1>4, <1>5, <1>6, <1>7, <1>8, ListedOK, OnlyHandler DEF Probe
<1>9. CASE ~(r.misses = MaxMisses \/ r.i > r.top)
  BY <1>1, <1>4, <1>6, <1>7, <1>9, OnlyHandler DEF Probe
<1>10. QED
  BY <1>8, <1>9

-----------------------------------------------------------------------------
(* The gate before a settlement.                                           *)

LEMMA PassedOK ==
    ASSUME DeviceInv, NEW r \in Handler, HandlerOK(r), r.stage \in {"first", "sign", "passkey"},
           Legacy => r.blind >= 2
    PROVE  Passed(r) \in Handler /\ HandlerOK(Passed(r))
<1>1. Free \in Handler /\ HandlerOK(Free)
  BY FreeIsHandler, FreeOK
<1>2. CASE r.stage = "first"
  BY <1>1, <1>2, StatusOK DEF Passed
<1>3. CASE r.stage = "sign" /\ Loaded
  <2> DEFINE s == [r EXCEPT !.pc = "fund", !.key = key.no]
  <2>1. key.no \in Nat
    BY <1>3 DEF Loaded, DeviceInv, TypesOK
  <2>2. s \in Handler
    BY <2>1 DEF Handler, Pcs
  <2>3. /\ s.pc = "fund" /\ s.stage = r.stage /\ s.key = key.no /\ s.told = r.told
        /\ s.got = r.got /\ s.op = r.op /\ s.blind = r.blind
    BY DEF Handler
  <2>4. HandlerOK(s)
    <3> HIDE DEF s
    <3>1. Legacy => Blind(s)
      BY <2>3 DEF Blind
    <3>2. QED
      BY <1>3, <2>1, <2>3, <3>1 DEF HandlerOK
  <2>5. QED
    BY <1>3, <2>2, <2>4 DEF Passed
<1>4. CASE r.stage = "sign" /\ ~Loaded
  BY <1>1, <1>4 DEF Passed
<1>5. CASE r.stage = "passkey"
  <2> DEFINE op == [Op("op", Passkey, 0) EXCEPT !.blind = r.blind]
             s == [r EXCEPT !.pc = "prompt", !.op = op]
  <2>1. op \in Operation
    <3>1. Op("op", Passkey, 0) \in Operation
      BY DEF Op, Operation
    <3>2. QED
      BY <3>1 DEF Operation, Handler
  <2>2. op.kind = "op" /\ op.signer = Passkey /\ op.blind = r.blind
    BY DEF Op
  <2>3. OperationOK(op)
    BY <2>2 DEF OperationOK
  <2>4. s \in Handler
    BY <2>1 DEF Handler, Pcs
  <2>5. /\ s.pc = "prompt" /\ s.stage = r.stage /\ s.key = r.key /\ s.told = r.told
        /\ s.got = r.got /\ s.op = op
    BY DEF Handler
  <2>6. HandlerOK(s)
    <3> HIDE DEF s, op
    <3>1. Blind(s)
      BY <2>5 DEF Blind
    <3>2. QED
      BY <1>5, <2>3, <2>5, <3>1 DEF HandlerOK
  <2>7. QED
    BY <1>5, <2>4, <2>6 DEF Passed
<1>6. QED
  BY <1>2, <1>3, <1>4, <1>5

\* A handler at the gate goes on to its next read.
LEMMA NextRead ==
    ASSUME DeviceInv, NEW r \in Handler, HandlerOK(r), r.pc \in {"gate", "stale", "signer"},
           NEW s \in Handler, s.pc \in {"gate", "stale", "signer"},
           s.stage = r.stage, s.key = r.key, s.told = r.told, s.got = r.got, s.op = r.op,
           Legacy => Blind(s)
    PROVE  HandlerOK(s)
BY DEF HandlerOK

LEMMA ReadyStep == ASSUME DeviceInv, NEW p \in Pages, Ready(p) PROVE DeviceInv'
<1> DEFINE With(a) == [run[p] EXCEPT !.blind = IF a = 0 THEN @ ELSE @ + 1]
           After(a) == CASE At(p, "gate") -> Gated(With(a), a)
                         [] At(p, "stale") -> Stale(With(a), a)
                         [] At(p, "signer") -> Signer(With(a), a)
<1>1. PICK a \in Answers : ReadsIf(a = Rule0) /\ Set(p, After(a))
  BY DEF Ready
<1> DEFINE r == With(a)
<1>2. run[p] \in Handler /\ HandlerOK(run[p]) /\ run[p].pc \in {"gate", "stale", "signer"}
  BY DEF DeviceInv, TypesOK, Ready
<1>3. r \in Handler
  BY <1>2 DEF Handler
<1>4. /\ r.pc = run[p].pc /\ r.stage = run[p].stage /\ r.key = run[p].key
      /\ r.told = run[p].told /\ r.got = run[p].got /\ r.op = run[p].op
      /\ r.blind = (IF a = 0 THEN run[p].blind ELSE run[p].blind + 1)
      /\ {run[p].blind, r.blind} \subseteq Nat
  BY <1>2, <1>3 DEF Handler
<1>5. Legacy /\ a = 0 => Policy(a) = "legacy"
  <2>1. a = 0 => a # None /\ Served(0)
    BY SessionAssumption DEF Answers
  <2>2. a = 0 => rpc.rules[0] = rules[0]
    BY <2>1 DEF Served, DeviceInv, ChainOK
  <2>3. QED
    BY <2>1, <2>2 DEF Policy, Legacy
<1>6. Free \in Handler /\ HandlerOK(Free)
  BY FreeIsHandler, FreeOK
<1> HIDE DEF With
<1>7. HandlerOK(r)
  <2>1. Legacy => Blind(r)
    BY <1>2, <1>4 DEF Blind, HandlerOK
  <2>2. QED
    BY <1>2, <1>3, <1>4, <2>1, NextRead
<1>8. r.stage \in {"first", "sign", "passkey"}
  BY <1>2, <1>4 DEF HandlerOK
<1>9. After(a) \in Handler /\ HandlerOK(After(a))
  <2>1. CASE At(p, "gate")
    <3>0. After(a) = Gated(r, a)
      BY <2>1 DEF At
    <3>1. CASE Policy(a) = "legacy"
      BY <1>6, <3>0, <3>1 DEF Gated
    <3>2. CASE Policy(a) = "unknown"
      <4> DEFINE s == [r EXCEPT !.blind = 0]
      <4>1. /\ s \in Handler /\ s.pc = "gate" /\ s.stage = r.stage /\ s.key = r.key
            /\ s.told = r.told /\ s.got = r.got /\ s.op = r.op
        BY <1>3, <1>4, <2>1 DEF Handler, At
      <4>2. Blind(s)
        BY <4>1 DEF Blind
      <4>3. HandlerOK(s)
        <5> HIDE DEF s
        <5>1. QED
          BY <1>2, <1>3, <1>4, <1>7, <4>1, <4>2, NextRead
      <4>4. QED
        BY <3>0, <3>2, <4>1, <4>3 DEF Gated
    <3>3. CASE Policy(a) \notin {"legacy", "unknown"}
      <4> DEFINE s == [r EXCEPT !.pc = "stale"]
      <4>1. /\ s \in Handler /\ s.pc = "stale" /\ s.stage = r.stage /\ s.key = r.key
            /\ s.told = r.told /\ s.got = r.got /\ s.op = r.op /\ s.blind = r.blind
        BY <1>3 DEF Handler, Pcs
      <4>2. Legacy => Blind(s)
        <5> HIDE DEF s
        <5>1. QED
          BY <1>4, <1>5, <3>3, <4>1 DEF Blind
      <4>3. HandlerOK(s)
        <5> HIDE DEF s
        <5>1. QED
          BY <1>2, <1>3, <1>4, <1>7, <4>1, <4>2, NextRead
      <4>4. After(a) = s
        BY <3>0, <3>3 DEF Gated
      <4>5. QED
        BY <4>1, <4>3, <4>4
    <3>4. QED
      BY <3>1, <3>2, <3>3
  <2>2. CASE At(p, "stale")
    <3>1. After(a) = Stale(r, a)
      BY <2>2 DEF At
    <3>2. Legacy => Policy(a) = "legacy" \/ r.blind >= 2
      BY <1>2, <1>4, <1>5, <2>2 DEF HandlerOK, Blind, At
    <3>3. CASE Policy(a) = "legacy"
      BY <1>6, <3>1, <3>3 DEF Stale
    <3>4. CASE Policy(a) = "unknown"
      BY <1>3, <1>7, <1>8, <3>1, <3>2, <3>4, PassedOK DEF Stale
    <3>5. CASE Policy(a) \notin {"legacy", "unknown"}
      <4> DEFINE s == [r EXCEPT !.pc = "signer"]
      <4>1. /\ s \in Handler /\ s.pc = "signer" /\ s.stage = r.stage /\ s.key = r.key
            /\ s.told = r.told /\ s.got = r.got /\ s.op = r.op /\ s.blind = r.blind
        BY <1>3 DEF Handler, Pcs
      <4>2. Legacy => Blind(s)
        <5> HIDE DEF s
        <5>1. QED
          BY <3>2, <3>5, <4>1 DEF Blind
      <4>3. HandlerOK(s)
        <5> HIDE DEF s
        <5>1. QED
          BY <1>2, <1>3, <1>4, <1>7, <4>1, <4>2, NextRead
      <4>4. Stale(r, a) = s
        BY <3>5 DEF Stale
      <4>5. QED
        BY <3>1, <4>1, <4>3, <4>4
    <3>6. QED
      BY <3>3, <3>4, <3>5
  <2>3. CASE At(p, "signer")
    <3>1. After(a) = Signer(r, a)
      BY <2>3 DEF At
    <3>2. Legacy => r.blind >= 2
      BY <1>2, <1>4, <2>3 DEF HandlerOK, Blind, At
    <3>3. QED
      BY <1>3, <1>6, <1>7, <1>8, <3>1, <3>2, PassedOK DEF Signer
  <2>4. QED
    BY <1>2, <2>1, <2>2, <2>3 DEF At
<1>10. used' \in [starts : Nat, fails : Nat, keys : Nat]
  BY <1>1, ReadsOK
<1>11. UNCHANGED <<chainVars, rpc, key, pool>>
  BY DEF Ready
<1> HIDE DEF After
<1>12. QED
  BY <1>1, <1>9, <1>10, <1>11, OnlyHandler

-----------------------------------------------------------------------------
(* Signing and sending.                                                    *)

LEMMA ChooseStep == ASSUME DeviceInv, NEW p \in Pages, Choose(p) PROVE DeviceInv'
<1> DEFINE r == [run[p] EXCEPT !.told = rpc.ledger]
           best == {i \in UsableOf(r) : \A j \in UsableOf(r) : rules[j].until <= rules[i].until}
           op == [Op("op", r.key, Max(best)) EXCEPT !.saw = rpc.ledger, !.blind = r.blind]
           s == [r EXCEPT !.pc = "send", !.op = op]
<1>1. Set(p, IF best = {} THEN Free ELSE s) /\ UNCHANGED <<chainVars, rpc, key, pool, used>>
  BY DEF Choose
<1>2. used' \in [starts : Nat, fails : Nat, keys : Nat]
  BY <1>1 DEF DeviceInv, TypesOK
<1>3. CASE best = {}
  BY <1>1, <1>2, <1>3, FreeIsHandler, FreeOK, OnlyHandler
<1>4. CASE best # {}
  <2>1. run[p] \in Handler /\ HandlerOK(run[p]) /\ run[p].pc = "choose"
    BY DEF DeviceInv, TypesOK, Choose, At
  <2>2. rpc.ledger \in Nat /\ rpc.ledger <= ledger
    BY DEF DeviceInv, ChainOK
  <2>3. /\ r \in Handler /\ r.key = run[p].key /\ r.got = run[p].got /\ r.told = rpc.ledger
        /\ r.stage = run[p].stage /\ r.blind = run[p].blind
    BY <2>1, <2>2 DEF Handler
  <2>4. best \subseteq Live
    BY <2>1, <2>3 DEF UsableOf, HandlerOK
  <2>5. Max(best) \in best /\ Max(best) \in Nat
    <3>1. Cardinality(DOMAIN rules) \in Nat
      BY FS_CardinalityType DEF DeviceInv, ChainOK
    <3>2. best \in SUBSET (0 .. Cardinality(DOMAIN rules))
      BY <2>4, <3>1 DEF Live, DeviceInv, ChainOK
    <3> HIDE DEF best
    <3>3. Max(best) \in best
      BY <1>4, <3>1, <3>2, MaxIsMember
    <3>4. best \subseteq Nat
      BY <3>1, <3>2
    <3>5. QED
      BY <3>3, <3>4
  <2>6. /\ op \in Operation /\ op.kind = "op" /\ op.signer = r.key /\ op.rule = Max(best)
        /\ op.saw = rpc.ledger /\ op.blind = r.blind
    <3> HIDE DEF best, r
    <3>1. r.key \in Nat \cup {None} /\ r.blind \in Nat
      BY <2>3 DEF Handler
    <3>2. Op("op", r.key, Max(best)) \in Operation
      BY <2>5, <3>1 DEF Op, Operation
    <3>3. op \in Operation
      BY <2>2, <3>1, <3>2 DEF Operation
    <3>4. QED
      BY <3>3 DEF Op, Operation
  <2>7. Chosen(op)
    <3>1. Max(best) \in Live /\ Usable(Max(best), r.key, r.told)
      BY <2>4, <2>5 DEF UsableOf
    <3> HIDE DEF op, r, best
    <3>2. QED
      BY <2>3, <2>6, <3>1 DEF Chosen, Usable
  <2>8. Legacy => op.blind >= 2
    <3> HIDE DEF op, r, best
    <3>1. QED
      BY <2>1, <2>3, <2>6 DEF HandlerOK, Blind
  <2>9. OperationOK(op)
    <3> HIDE DEF op
    <3>1. QED
      BY <2>6, <2>7, <2>8 DEF OperationOK
  <2>10. s \in Handler /\ s.pc = "send" /\ s.stage = r.stage /\ s.key = r.key
         /\ s.told = r.told /\ s.got = r.got /\ s.op = op
    <3> HIDE DEF op, r
    <3>1. QED
      BY <2>3, <2>6 DEF Handler, Pcs
  <2>11. HandlerOK(s)
    <3> HIDE DEF s, op, r
    <3>1. Blind(s)
      BY <2>10 DEF Blind
    <3>2. QED
      BY <2>1, <2>2, <2>3, <2>9, <2>10, <3>1 DEF HandlerOK
  <2>12. Set(p, s)
    BY <1>1, <1>4
  <2> HIDE DEF s
  <2>13. QED
    BY <1>1, <1>2, <2>10, <2>11, <2>12, OnlyHandler
<1>5. QED
  BY <1>3, <1>4

\* Steps of a handler and of the network that leave the account alone.
LEMMA SentOrAnswered ==
    ASSUME DeviceInv, UNCHANGED <<chainVars, rpc, key>>,
           used' \in [starts : Nat, fails : Nat, keys : Nat],
           run' \in [Pages -> Handler], \A q \in Pages : HandlerOK(run'[q]),
           pool' \in [Pages -> Operation \cup {None}],
           \A q \in Pages : pool'[q] # None => OperationOK(pool'[q])
    PROVE  DeviceInv'
<1>1. TypesOK' /\ ChainOK'
  BY DEF DeviceInv, TypesOK, ChainOK, chainVars
<1>2. ASSUME NEW q \in Pages PROVE HandlerOK(run[q])' /\ (pool[q] # None => OperationOK(pool[q]))'
  <2>1. PICK r, op : r = run'[q] /\ op = pool'[q]
    OBVIOUS
  <2>2. HandlerOK(r)' /\ (op # None => OperationOK(op)')
    BY <2>1, SameAccount
  <2>3. QED
    BY <2>1, <2>2
<1>3. QED
  BY <1>1, <1>2 DEF DeviceInv

\* A handler that is beyond its checks.
LEMMA Beyond ==
    ASSUME NEW r \in Handler, HandlerOK(r), NEW s \in Handler, s.pc \in {"send", "wait"},
           s.stage = r.stage, s.key = r.key, s.told = r.told, s.got = r.got,
           s.op = r.op \/ s.op = None
    PROVE  HandlerOK(s)
<1>1. Blind(s)
  BY DEF Blind
<1>2. QED
  BY <1>1 DEF HandlerOK

LEMMA PromptStep == ASSUME DeviceInv, NEW p \in Pages, Prompt(p) PROVE DeviceInv'
<1> DEFINE s == [run[p] EXCEPT !.pc = "send"]
<1>1. run[p] \in Handler /\ HandlerOK(run[p])
  BY DEF DeviceInv, TypesOK
<1>2. /\ s \in Handler /\ s.pc = "send" /\ s.stage = run[p].stage /\ s.key = run[p].key
      /\ s.told = run[p].told /\ s.got = run[p].got /\ s.op = run[p].op
  BY <1>1 DEF Handler, Pcs
<1>3. UNCHANGED <<chainVars, rpc, key, pool>> /\ used' \in [starts : Nat, fails : Nat, keys : Nat]
  BY DEF Prompt, DeviceInv, TypesOK
<1>4. Set(p, s) \/ Set(p, Free)
  BY DEF Prompt, Throw
<1> HIDE DEF s
<1>5. HandlerOK(s)
  BY <1>1, <1>2, Beyond
<1>6. QED
  BY <1>2, <1>3, <1>4, <1>5, FreeIsHandler, FreeOK, OnlyHandler

LEMMA SendStep == ASSUME DeviceInv, NEW p \in Pages, Send(p) PROVE DeviceInv'
<1> DEFINE s == [run[p] EXCEPT !.pc = "wait", !.op = None]
<1>1. run[p] \in Handler /\ HandlerOK(run[p])
  BY DEF DeviceInv, TypesOK
<1>2. /\ s \in Handler /\ s.pc = "wait" /\ s.stage = run[p].stage /\ s.key = run[p].key
      /\ s.told = run[p].told /\ s.got = run[p].got /\ s.op = None
  BY <1>1 DEF Handler, Pcs
<1>3. /\ UNCHANGED <<chainVars, rpc, key>> /\ used' \in [starts : Nat, fails : Nat, keys : Nat]
      /\ pool' = [pool EXCEPT ![p] = run[p].op]
  BY DEF Send, DeviceInv, TypesOK
<1>4. Set(p, s) \/ Set(p, Free)
  BY DEF Send, Throw
<1> HIDE DEF s
<1>5. HandlerOK(s)
  BY <1>1, <1>2, Beyond
<1>6. run' \in [Pages -> Handler] /\ \A q \in Pages : HandlerOK(run'[q])
  BY <1>2, <1>4, <1>5, FreeIsHandler, FreeOK DEF Set, DeviceInv, TypesOK
<1>7. pool' \in [Pages -> Operation \cup {None}]
  BY <1>1, <1>3 DEF Handler, DeviceInv, TypesOK
<1>8. \A q \in Pages : pool'[q] # None => OperationOK(pool'[q])
  BY <1>1, <1>3 DEF DeviceInv, TypesOK, HandlerOK
<1>9. QED
  BY <1>3, <1>6, <1>7, <1>8, SentOrAnswered

LEMMA DropStep == ASSUME DeviceInv, NEW p \in Pages, Drop(p) PROVE DeviceInv'
<1>1. run' \in [Pages -> Handler] /\ \A q \in Pages : HandlerOK(run'[q])
  BY FreeIsHandler, FreeOK DEF Drop, Throw, Set, DeviceInv, TypesOK
<1>2. /\ pool' \in [Pages -> Operation \cup {None}]
      /\ \A q \in Pages : pool'[q] # None => OperationOK(pool'[q])
  BY DEF Drop, DeviceInv, TypesOK
<1>3. QED
  BY <1>1, <1>2, SentOrAnswered DEF Drop, DeviceInv, TypesOK

LEMMA AnswerStep == ASSUME DeviceInv, NEW p \in Pages, Answer(p) PROVE DeviceInv'
<1>1. run' \in [Pages -> Handler] /\ \A q \in Pages : HandlerOK(run'[q])
  BY FreeIsHandler, FreeOK DEF Answer, Set, DeviceInv, TypesOK
<1>2. /\ pool' \in [Pages -> Operation \cup {None}]
      /\ \A q \in Pages : pool'[q] # None => OperationOK(pool'[q])
  BY DEF Answer, DeviceInv, TypesOK
<1>3. QED
  BY <1>1, <1>2, SentOrAnswered DEF Answer, DeviceInv, TypesOK

LEMMA FailStep == ASSUME DeviceInv, NEW p \in Pages, Fail(p) PROVE DeviceInv'
<1> DEFINE g == Gate([Free EXCEPT !.goal = "settle"], "sign")
<1>1. g \in Handler /\ HandlerOK(g)
  BY FreeFor, GateOK DEF Goals
<1>2. Set(p, Free) \/ Set(p, g)
  BY DEF Fail, Throw
<1> HIDE DEF g
<1>3. run' \in [Pages -> Handler] /\ \A q \in Pages : HandlerOK(run'[q])
  BY <1>1, <1>2, FreeIsHandler, FreeOK DEF Set, DeviceInv, TypesOK
<1>4. /\ pool' \in [Pages -> Operation \cup {None}]
      /\ \A q \in Pages : pool'[q] # None => OperationOK(pool'[q])
  BY DEF Fail, DeviceInv, TypesOK
<1>5. UNCHANGED <<chainVars, rpc, key>> /\ used' \in [starts : Nat, fails : Nat, keys : Nat]
  BY DEF Fail, Unanswered, DeviceInv, TypesOK
<1>6. QED
  BY <1>1, <1>3, <1>4, <1>5, SentOrAnswered

-----------------------------------------------------------------------------
(* The ledger.                                                             *)

\* A rule is added, and what was listed before is known to be old.
LEMMA RuleAdded ==
    ASSUME DeviceInv, UNCHANGED <<ledger, rpc, key, used>>,
           NEW new, new.live = TRUE, new.policy = "current", new.until \in Nat \cup {Forever},
           new.signer \in Nat => new.until # Forever,
           rules' = [i \in 0 .. Cardinality(DOMAIN rules) |->
                       IF i = Cardinality(DOMAIN rules) THEN new ELSE rules[i]],
           run' = [q \in Pages |-> UncleanRun(run[q])],
           NEW left \in [Pages -> Operation \cup {None}],
           \A q \in Pages : left[q] # None => OperationOK(left[q]),
           pool' = [q \in Pages |-> UncleanOp(left[q])]
    PROVE  DeviceInv'
<1> DEFINE n == Cardinality(DOMAIN rules)
<1>1. n \in Nat /\ DOMAIN rules = 0 .. n - 1
  BY FS_CardinalityType DEF DeviceInv, ChainOK
<1>2. DOMAIN rules' = 0 .. n /\ IsFiniteSet(DOMAIN rules') /\ Cardinality(DOMAIN rules') = n + 1
  BY <1>1, FS_Interval
<1>3. /\ DOMAIN rules \subseteq DOMAIN rules'
      /\ \A i \in DOMAIN rules : rules'[i] = rules[i]
      /\ rules'[n] = new
  BY <1>1
<1>4. Live \subseteq Live'
  BY <1>3 DEF Live
<1>5. Legacy' => Legacy
  <2>1. CASE n = 0
    BY <1>3, <2>1 DEF Legacy
  <2>2. CASE n # 0
    BY <1>1, <1>3, <2>2 DEF Legacy
  <2>3. QED
    BY <2>1, <2>2
<1>6. ChainOK'
  <2>1. \A i \in DOMAIN rules' :
          /\ rules'[i].live \in BOOLEAN /\ rules'[i].until \in Nat \cup {Forever}
          /\ rules'[i].signer \in Nat => rules'[i].until # Forever
    <3>1. SUFFICES ASSUME NEW i \in DOMAIN rules'
          PROVE  /\ rules'[i].live \in BOOLEAN /\ rules'[i].until \in Nat \cup {Forever}
                 /\ rules'[i].signer \in Nat => rules'[i].until # Forever
      OBVIOUS
    <3>2. i = n \/ i \in DOMAIN rules
      BY <1>1, <1>2, <3>1
    <3>3. QED
      BY <1>3, <3>2 DEF DeviceInv, ChainOK
  <2>2. DOMAIN rules' = 0 .. Cardinality(DOMAIN rules') - 1
    BY <1>1, <1>2
  <2>3. QED
    BY <1>2, <1>3, <2>1, <2>2 DEF DeviceInv, ChainOK
<1>7. ASSUME NEW op \in Operation \cup {None}
      PROVE  UncleanOp(op) \in Operation \cup {None}
  BY DEF UncleanOp, Operation
<1>8. ASSUME NEW op \in Operation \cup {None}, op # None, OperationOK(op), UncleanOp(op) # None
      PROVE  OperationOK(UncleanOp(op))'
  <2> DEFINE o == UncleanOp(op)
  <2>1. /\ o.kind = op.kind /\ o.signer = op.signer /\ o.rule = op.rule /\ o.for = op.for
        /\ o.saw = op.saw /\ o.clean = FALSE /\ o.blind = op.blind
    BY <1>8 DEF UncleanOp, Operation
  <2>2. Chosen(op) => Chosen(o)'
    <3> HIDE DEF o
    <3>1. SUFFICES ASSUME Chosen(op) PROVE Chosen(o)'
      OBVIOUS
    <3>2. op.rule \in DOMAIN rules /\ rules'[op.rule] = rules[op.rule]
      BY <1>3, <3>1 DEF Chosen, Live
    <3>3. QED
      BY <1>4, <2>1, <3>1, <3>2 DEF Chosen
  <2> HIDE DEF o
  <2>3. QED
    BY <1>5, <1>8, <2>1, <2>2 DEF OperationOK, o
<1>9. ASSUME NEW r \in Handler, HandlerOK(r)
      PROVE  UncleanRun(r) \in Handler /\ HandlerOK(UncleanRun(r))'
  <2> DEFINE s == UncleanRun(r)
  <2>1. UncleanOp(r.op) \in Operation \cup {None}
    BY <1>7 DEF Handler
  <2>2. s = [r EXCEPT !.clean = FALSE, !.op = UncleanOp(r.op)]
    BY DEF UncleanRun, UncleanOp
  <2>3. /\ s \in Handler /\ s.pc = r.pc /\ s.stage = r.stage /\ s.key = r.key
        /\ s.told = r.told /\ s.got = r.got /\ s.blind = r.blind /\ s.clean = FALSE
        /\ s.op = UncleanOp(r.op)
    BY <2>1, <2>2 DEF Handler
  <2>4. s.op # None => OperationOK(s.op)'
    <3>1. SUFFICES ASSUME s.op # None PROVE OperationOK(s.op)'
      OBVIOUS
    <3>2. r.op # None /\ OperationOK(r.op) /\ r.op \in Operation \cup {None}
      BY <1>9, <2>3, <3>1 DEF UncleanOp, HandlerOK, Handler
    <3>3. QED
      BY <1>8, <2>3, <3>1, <3>2
  <2> HIDE DEF s
  <2>5. Legacy' => Blind(s)
    BY <1>5, <1>9, <2>3 DEF HandlerOK, Blind
  <2>6. HandlerOK(s)'
    BY <1>4, <1>9, <2>3, <2>4, <2>5 DEF HandlerOK, Blind
  <2>7. QED
    BY <2>3, <2>6 DEF s
<1>10. ASSUME NEW q \in Pages PROVE run'[q] \in Handler /\ HandlerOK(run[q])'
  <2>1. run[q] \in Handler /\ HandlerOK(run[q]) /\ run'[q] = UncleanRun(run[q])
    BY DEF DeviceInv, TypesOK
  <2>2. PICK r : r = run[q]
    OBVIOUS
  <2>3. UncleanRun(r) \in Handler /\ HandlerOK(UncleanRun(r))' /\ run'[q] = UncleanRun(r)
    BY <1>9, <2>1, <2>2
  <2>4. QED
    BY <2>3
<1>11. ASSUME NEW q \in Pages
       PROVE  pool'[q] \in Operation \cup {None} /\ (pool[q] # None => OperationOK(pool[q]))'
  <2>1. left[q] \in Operation \cup {None} /\ pool'[q] = UncleanOp(left[q])
        /\ (pool'[q] # None => left[q] # None)
    BY DEF UncleanOp
  <2>2. QED
    BY <1>7, <1>8, <2>1
<1>12. TypesOK'
  <2>1. run' \in [Pages -> Handler]
    BY <1>10
  <2>2. pool' \in [Pages -> Operation \cup {None}]
    BY <1>11
  <2>3. QED
    BY <2>1, <2>2 DEF DeviceInv, TypesOK
<1>13. QED
  BY <1>6, <1>10, <1>11, <1>12 DEF DeviceInv

LEMMA LandStep == ASSUME DeviceInv, NEW p \in Pages, Land(p) PROVE DeviceInv'
<1> DEFINE op == pool[p]
           left == [pool EXCEPT ![p] = IF At(p, "wait") THEN [@ EXCEPT !.landed = TRUE] ELSE None]
           new == IF op.kind = "deploy" THEN Rule(Passkey, "current", Forever)
                                        ELSE Rule(op.for, "current", op.until)
<1>1. op \in Operation /\ OperationOK(op) /\ UNCHANGED <<ledger, rpc, key, used>>
  BY DEF Land, DeviceInv, TypesOK
<1>2. /\ left \in [Pages -> Operation \cup {None}]
      /\ \A q \in Pages : left[q] # None => OperationOK(left[q])
  <2>1. [op EXCEPT !.landed = TRUE] \in Operation /\ OperationOK([op EXCEPT !.landed = TRUE])
    <3> DEFINE o == [op EXCEPT !.landed = TRUE]
    <3>1. /\ o \in Operation /\ o.kind = op.kind /\ o.signer = op.signer /\ o.rule = op.rule
          /\ o.for = op.for /\ o.saw = op.saw /\ o.clean = op.clean /\ o.blind = op.blind
      BY <1>1 DEF Operation
    <3> HIDE DEF o
    <3>2. OperationOK(o)
      BY <1>1, <3>1 DEF OperationOK, Chosen, Spare
    <3>3. QED
      BY <3>1, <3>2 DEF o
  <2>2. QED
    BY <2>1 DEF DeviceInv, TypesOK
<1>3. CASE op.kind = "op"
  <2>1. pool' = left /\ UNCHANGED <<rules, run>>
    BY <1>3 DEF Land
  <2> HIDE DEF left
  <2>2. QED
    BY <1>1, <1>2, <2>1, SentOrAnswered DEF DeviceInv, TypesOK, chainVars
<1>4. CASE op.kind # "op"
  <2>1. /\ rules' = [i \in 0 .. Cardinality(DOMAIN rules) |->
                        IF i = Cardinality(DOMAIN rules) THEN new ELSE rules[i]]
        /\ pool' = [q \in Pages |-> UncleanOp(left[q])]
        /\ run' = [q \in Pages |-> UncleanRun(run[q])]
    BY <1>4 DEF Land
  <2>2. /\ new.live = TRUE /\ new.policy = "current" /\ new.until \in Nat \cup {Forever}
        /\ new.signer \in Nat => new.until # Forever
    <3>1. CASE op.kind = "deploy"
      BY <3>1, SessionAssumption DEF Rule
    <3>2. CASE op.kind = "install"
      BY <1>1, <3>2, SessionAssumption DEF Rule, OperationOK, Operation
    <3>3. QED
      BY <1>1, <1>4, <3>1, <3>2 DEF Operation
  <2> HIDE DEF new, left
  <2>3. QED
    BY <1>1, <1>2, <2>1, <2>2, RuleAdded
<1>5. QED
  BY <1>3, <1>4

\* A rule is worth less when a ledger has closed.
LEMMA CloseLedgerStep == ASSUME DeviceInv, CloseLedger PROVE DeviceInv'
<1>1. UNCHANGED <<rules, rpc, key, run, pool, used>> /\ ledger' = ledger + 1 /\ ledger \in Nat
  BY DEF CloseLedger, DeviceInv, TypesOK
<1>2. TypesOK' /\ ChainOK'
  BY <1>1 DEF DeviceInv, TypesOK, ChainOK
<1>3. Live' = Live /\ Legacy' = Legacy
  BY <1>1 DEF Live, Legacy
<1>4. ASSUME NEW op, OperationOK(op) PROVE OperationOK(op)'
  <2>1. Chosen(op) => Chosen(op)'
    BY <1>1, <1>3 DEF Chosen
  <2>2. op.for \in Nat /\ Spare(op)' => Spare(op)
    <3>1. SUFFICES ASSUME op.for \in Nat, NEW i \in Live', Reachable(i)', Usable(i, op.for, ledger)'
                   PROVE  Spare(op)
      BY DEF Spare
    <3>2. i \in Live /\ Reachable(i)
      BY <1>1, <1>3, <3>1 DEF Reachable, Gone
    <3>3. rules[i].until \in Nat
      BY <1>1, <3>1, <3>2 DEF Live, Usable, DeviceInv, ChainOK
    <3>4. Usable(i, op.for, ledger)
      BY <1>1, <3>1, <3>3, SessionAssumption DEF Usable
    <3>5. QED
      BY <3>2, <3>4 DEF Spare
  <2>3. QED
    BY <1>3, <1>4, <2>1, <2>2 DEF OperationOK
<1>5. ASSUME NEW r \in Handler, HandlerOK(r) PROVE HandlerOK(r)'
  <2>1. r.told <= ledger'
    BY <1>1, <1>5 DEF HandlerOK, Handler
  <2>2. Swept(r) => Swept(r)'
    BY <1>3 DEF Swept
  <2>3. r.op # None => OperationOK(r.op)'
    BY <1>4, <1>5 DEF HandlerOK
  <2>4. QED
    BY <1>3, <1>5, <2>1, <2>2, <2>3 DEF HandlerOK, Blind
<1>6. ASSUME NEW q \in Pages PROVE HandlerOK(run[q])' /\ (pool[q] # None => OperationOK(pool[q]))'
  <2>1. PICK r, op : r = run[q] /\ op = pool[q]
    OBVIOUS
  <2>2. r \in Handler /\ HandlerOK(r)' /\ (op # None => OperationOK(op)')
    BY <1>4, <1>5, <2>1 DEF DeviceInv, TypesOK
  <2>3. QED
    BY <1>1, <2>1, <2>2
<1>7. QED
  BY <1>2, <1>6 DEF DeviceInv

LEMMA RpcCatchesUpStep == ASSUME DeviceInv, RpcCatchesUp PROVE DeviceInv'
<1>1. TypesOK' /\ ChainOK'
  BY DEF RpcCatchesUp, DeviceInv, TypesOK, ChainOK, chainVars
<1>2. ASSUME NEW q \in Pages PROVE HandlerOK(run[q])' /\ (pool[q] # None => OperationOK(pool[q]))'
  <2>1. PICK r, op : r = run[q] /\ op = pool[q]
    OBVIOUS
  <2>2. HandlerOK(r)' /\ (op # None => OperationOK(op)')
    BY <2>1, SameAccount DEF DeviceInv, RpcCatchesUp
  <2>3. QED
    BY <2>1, <2>2 DEF RpcCatchesUp
<1>3. QED
  BY <1>1, <1>2 DEF DeviceInv

-----------------------------------------------------------------------------
(* Theorems.                                                               *)

LEMMA DeviceInvInit == SessionInit => DeviceInv
<1> SUFFICES ASSUME SessionInit PROVE DeviceInv
  OBVIOUS
<1>1. PICK past \in Pasts :
        /\ ledger = 0 /\ rules = past.rules /\ rpc = [rules |-> past.rules, ledger |-> 0]
        /\ key = past.key /\ run = [p \in Pages |-> Free] /\ pool = [p \in Pages |-> None]
        /\ used = past.used
  BY DEF SessionInit
<1>2. TypesOK
  BY <1>1, PastsAssumption, FreeIsHandler DEF TypesOK
<1>3. ChainOK
  BY <1>1, PastsAssumption DEF ChainOK
<1>4. HandlerOK(Free)
  BY <1>2, FreeIsHandler DEF TypesOK, HandlerOK, Free, Blind
<1>5. QED
  BY <1>1, <1>2, <1>3, <1>4 DEF DeviceInv

LEMMA DeviceInvStep == DeviceInv /\ [SessionNext]_sessionVars => DeviceInv'
<1> SUFFICES ASSUME DeviceInv, [SessionNext]_sessionVars PROVE DeviceInv'
  OBVIOUS
<1>1. ASSUME NEW p \in Pages,
             \/ Create(p) \/ Enable(p) \/ Settle(p) \/ Operate(p) \/ OpenKey(p) \/ Fund(p)
             \/ AskLedger(p) \/ CountRules(p) \/ Probe(p) \/ Ready(p) \/ Choose(p)
      PROVE  DeviceInv'
  BY <1>1, CreateStep, EnableStep, SettleStep, OperateStep, OpenKeyStep, FundStep,
     AskLedgerStep, CountRulesStep, ProbeStep, ReadyStep, ChooseStep
<1>2. ASSUME NEW p \in Pages,
             Prompt(p) \/ Send(p) \/ Land(p) \/ Drop(p) \/ Answer(p) \/ Fail(p)
      PROVE  DeviceInv'
  BY <1>2, PromptStep, SendStep, LandStep, DropStep, AnswerStep, FailStep
<1>3. CASE Revoke \/ CloseLedger \/ RpcCatchesUp
  BY <1>3, RevokeStep, CloseLedgerStep, RpcCatchesUpStep
<1>4. CASE UNCHANGED sessionVars
  <2>1. UNCHANGED <<chainVars, rpc, key, run, pool, used>>
    BY <1>4 DEF sessionVars
  <2>2. QED
    BY <2>1, SentOrAnswered DEF DeviceInv, TypesOK
<1>5. QED
  BY <1>1, <1>2, <1>3, <1>4 DEF SessionNext

\* In every behaviour the account, the device, the handlers and the transactions
\* are as the invariant says (smartAccount.ts, onChainContextRules.ts).
THEOREM DeviceInvariant == SessionSpec => []DeviceInv
BY DeviceInvInit, DeviceInvStep, PTL DEF SessionSpec

\* A session rule is installed with every read answered only when no rule the
\* listing can get to lets the same key sign (ensureLumengateSessionRule).
THEOREM NoSpareRuleHolds == SessionSpec => []NoSpareRule
<1>1. DeviceInv => NoSpareRule
  BY DEF DeviceInv, NoSpareRule, InPool, OperationOK, Spare, Live
<1>2. QED
  BY <1>1, DeviceInvariant, PTL

\* What a session signs is accepted for Margin ledgers after the one its rules
\* were judged by (bestDefaultSessionRuleId, defaultSessionRuleIsUsable).
THEOREM SessionSignsHolds == SessionSpec => []SessionSigns
<1>1. DeviceInv => SessionSigns
  <2> SUFFICES ASSUME DeviceInv, NEW op \in InPool("op"), op.signer # Passkey,
                      ledger <= op.saw + Margin
               PROVE  Authorized(op)
    BY DEF SessionSigns
  <2>1. op \in Operation /\ op.kind = "op" /\ Chosen(op)
    BY DEF InPool, DeviceInv, TypesOK, OperationOK
  <2>2. rules[op.rule].until # Forever => rules[op.rule].until >= ledger
    <3> DEFINE until == rules[op.rule].until
    <3>1. until # Forever => until > op.saw + Margin /\ op.rule \in DOMAIN rules
      BY <2>1 DEF Chosen, Live
    <3>2. op.rule \in DOMAIN rules => until \in Nat \cup {Forever}
      BY DEF DeviceInv, ChainOK, TypesOK
    <3>3. op.saw \in Nat /\ Margin \in Nat /\ ledger \in Nat
      BY <2>1, SessionAssumption DEF Operation, DeviceInv, TypesOK
    <3> HIDE DEF until
    <3>4. until # Forever => until >= ledger
      BY <3>1, <3>2, <3>3
    <3>5. QED
      BY <3>4 DEF until
  <2>3. QED
    BY <2>1, <2>2 DEF Chosen, Live, Authorized
<1>2. QED
  BY <1>1, DeviceInvariant, PTL

\* An account with a superseded rule 0 sends nothing unless two readings of that
\* rule in a row went unanswered (assertSmartAccountReadyForSettlement).
THEOREM LegacyIsBlockedHolds == SessionSpec => []LegacyIsBlocked
<1>1. DeviceInv => LegacyIsBlocked
  BY DEF DeviceInv, LegacyIsBlocked, InPool, OperationOK, Legacy
<1>2. QED
  BY <1>1, DeviceInvariant, PTL
=============================================================================
