----------------------------- MODULE CtAccount -----------------------------
(***************************************************************************)
(* The confidential-token client of the app for one smart account and one  *)
(* asset.  The chain keeps two commitments, the spendable and the          *)
(* receiving balance; the browser keeps the openings a spend must prove    *)
(* (lib/confidentialToken/state) and learns what the chain did from its    *)
(* events: the RPC server has the recent ones, which it may serve after    *)
(* the transaction succeeded, and the issuer's indexer the older ones      *)
(* (chain/event-source.ts).  The flows of lib/confidentialFlow.ts and the  *)
(* balance panel's refresh share the one stored state, and every call to   *)
(* the network in between is awaited.  A ledger holds one event.           *)
(***************************************************************************)
EXTENDS Naturals, Sequences

CONSTANTS
    Actors,                 \* tabs and components that may run a flow at once
    FlowsOf,                \* actor -> the flows it may run
    Amounts,                \* amounts the user enters
    Margin,                 \* RPC_SEAM_MARGIN
    Polls,                  \* attempts of waitUntilVerified (40)
    Reads,                  \* short attempts of reconcileForRead (3)
    Pasts,                  \* bounds: what the account did before (log), and may still do (room)
    Floors,                 \* bound: the floors the retention window moves to
    None

Flows  == {"read", "settle", "shield", "merge", "unshield"}
Spends == {"transfer", "withdraw"}

\* An event's amount, an opening's: for a spend, what it leaves.
Openings     == [v : Nat, r : SUBSET Nat]
Caches       == [sp : Openings, rcv : Openings, cur : Nat]
Events       == [type : {"register", "deposit", "credit", "merge"} \cup Spends, x : Nat]
Transactions == [type : {"register", "deposit", "merge"} \cup Spends, using : Openings,
                 x : Nat, at : Nat]

ASSUME CtAssumption ==
    /\ FlowsOf \in [Actors -> SUBSET Flows]
    /\ Amounts \subseteq Nat \ {0}
    /\ {Margin, Polls, Reads} \subseteq Nat
    /\ Polls > 0 /\ Floors \subseteq Nat
    /\ None \notin Transactions

\* An account's first event is its registration.
ASSUME PastsAssumption ==
    \A past \in Pasts :
        /\ past.log \in Seq(Events) /\ past.room \in Nat
        /\ past.log # <<>> => past.log[1].type = "register"

VARIABLES
    log,        \* the account's events; an event's ledger is its index
    seen,       \* the last ledger whose events the RPC server serves
    room,       \* events and moves of the floor still to come (a bound)
    floor,      \* the oldest ledger it still has (0: from before the token)
    store,      \* lumengate:ct:state in localStorage
    run,        \* actor -> the flow it is in
    pool,       \* actor -> its transaction the network has not decided or answered
    lost,       \* history: a fetch went without an event it needed
    late        \* history: a spend's opening was stored after a later spend or merge

netVars  == <<log, room, seen, floor>>
history  == <<lost, late>>
ctVars   == <<netVars, store, run, pool, history>>

\* An opening is an amount and a blinding: the ledgers whose blindings add up.
Zero  == [v |-> 0, r |-> {}]
Fresh == [sp |-> Zero, rcv |-> Zero, cur |-> 0]
Free  == [flow |-> "none", stage |-> "none", pc |-> "idle", amount |-> 0, due |-> 0,
          st |-> Fresh, prior |-> Fresh, tries |-> 0, alone |-> FALSE, calm |-> FALSE]

At(p, pc)   == run[p].pc = pc
End(p)      == run' = [run EXCEPT ![p] = Free]
Tip         == Len(log)
Moves(i)    == log[i].type \in Spends \cup {"merge"}
Matters(i)  == log[i].type # "register"

-----------------------------------------------------------------------------
(* Replaying events.                                                       *)

\* StateEngine.apply: the openings after the event e of ledger i.
Apply(b, e, i) ==
    LET rcv == [v |-> b.rcv.v + e.x, r |-> b.rcv.r]
    IN  CASE e.type = "deposit" -> [b EXCEPT !.rcv = rcv]
          [] e.type = "credit"  -> [b EXCEPT !.rcv = [rcv EXCEPT !.r = @ \cup {i}]]
          [] e.type = "merge"   -> [b EXCEPT !.sp = [v |-> b.sp.v + b.rcv.v, r |-> b.sp.r \cup b.rcv.r],
                                             !.rcv = Zero]
          [] e.type \in Spends  -> [b EXCEPT !.sp = [v |-> e.x, r |-> {i}]]
          [] OTHER -> b

\* The openings after each ledger of a log, when the events of some of its
\* ledgers are replayed, in order.
Replay(l, b, ledgers) ==
    LET after[n \in 0..Len(l)] ==
            IF n = 0 THEN b
            ELSE IF n \in ledgers THEN Apply(after[n - 1], l[n], n)
            ELSE after[n - 1]
    IN  after

Replayed(b, ledgers) == Replay(log, b, ledgers)[Tip]

\* The openings of the two commitments on chain.
OnChain == Replayed(Fresh, DOMAIN log)

Agrees(b) == [sp |-> b.sp = OnChain.sp, rcv |-> b.rcv = OnChain.rcv]

-----------------------------------------------------------------------------
(* Reading: StateEngine.                                                   *)

Seam == floor + Margin

\* hybridFetchEvents past a cursor.  Below the retention floor the issuer is
\* asked for the events up to the seam, where the RPC leg starts.  Its file ends
\* somewhere, or it does not answer (0), and its withdraw rows cannot be parsed.
Backfill(cur, end) ==
    {i \in (cur + 1)..(Seam - 1) : i <= end /\ log[i].type # "withdraw"}

Fetched(cur, n, end) ==
    IF cur + 1 < floor THEN Backfill(cur, end) \cup Seam..n
    ELSE IF cur = 0 THEN (floor + 1)..n
    ELSE (cur + 1)..n

Gap(cur, end) ==
    /\ cur + 1 < floor
    /\ \E i \in ((cur + 1)..(Seam - 1)) \ Backfill(cur, end) : Matters(i)

\* Fault: the cursor is the latest ledger, not the end of what was scanned.
FetchToHead(p, base, pc) ==
    /\ run' = [run EXCEPT ![p].pc = pc,
           ![p].st = [Replayed(base, Fetched(base.cur, seen, 0)) EXCEPT !.cur = Tip]]
    /\ lost' = (lost \/ Gap(base.cur, 0))

\* The answer has the events served when it is asked for: the window, the
\* issuer's events and those of the RPC server are read at one moment.
Fetch(p, base, pc) ==
    \E end \in 0..seen :
        /\ run' = [run EXCEPT ![p].pc = pc,
               ![p].st = [Replayed(base, Fetched(base.cur, seen, end)) EXCEPT !.cur = seen]]
        /\ lost' = (lost \/ Gap(base.cur, end))

\* sync reads what is stored, and asks for the events after its cursor.
Load(p) ==
    /\ At(p, "sync")
    /\ run' = [run EXCEPT ![p].pc = "loaded", ![p].st = store]
    /\ UNCHANGED <<netVars, store, pool, history>>

Sync(p) ==
    /\ At(p, "loaded")
    /\ Fetch(p, run[p].st, "synced")
    /\ UNCHANGED <<netVars, store, pool, late>>

\* Fault: the cached state is replayed onto again.
RebuildOnCached(p) ==
    /\ At(p, "rebuild")
    /\ Fetch(p, store, "rebuilt")
    /\ UNCHANGED <<netVars, store, pool, late>>

\* rebuildFromEvents
Rebuild(p) ==
    /\ At(p, "rebuild")
    /\ Fetch(p, Fresh, "rebuilt")
    /\ UNCHANGED <<netVars, store, pool, late>>

\* The answer arrives and is stored, over whatever is stored by then.
Save(p) ==
    /\ At(p, "synced") \/ At(p, "rebuilt")
    /\ store' = run[p].st
    /\ run' = [run EXCEPT ![p].pc = IF @ = "synced" THEN "verify" ELSE "check"]
    /\ UNCHANGED <<netVars, pool, history>>

-----------------------------------------------------------------------------
(* What a flow does next, as a new value of its record.                    *)

Reconciles(r) == r.stage = "sync" /\ r.flow # "unshield"

Submits(r, stage) == [r EXCEPT !.stage = stage, !.pc = "submit", !.tries = 0, !.prior = Fresh]
Rebuilds(r)       == [r EXCEPT !.pc = "rebuild", !.st = Fresh]
Syncs(r)          == [r EXCEPT !.pc = "sync", !.st = Fresh]

\* A wait keeps what is stored when it begins.
Polling(r, stage) ==
    LET s == Syncs([r EXCEPT !.stage = stage, !.tries = 0])
    IN  IF Reconciles(s) THEN s ELSE [s EXCEPT !.prior = store]

SpendOr(r, otherwise) == IF r.st.sp.v >= r.amount THEN Submits(r, "spend") ELSE otherwise
MergeIf(r, test)      == IF test THEN Submits(r, "merge") ELSE Free

\* executeConfidentialSettlement, its balance read: what it is short of is
\* deposited, unless a credit is stored that the chain does not show yet.
Settle(r, ok) ==
    LET total == r.st.sp.v + (IF ok.rcv THEN r.st.rcv.v ELSE 0)
    IN  IF ~ok.sp THEN Free
        ELSE IF total >= r.amount THEN SpendOr(r, MergeIf(r, r.st.rcv # Zero /\ ok.rcv))
        ELSE IF ~ok.rcv /\ r.st.rcv.v > 0 THEN Free
        ELSE [Submits(r, "deposit") EXCEPT !.due = r.amount - total]

\* After a wait or a read has ended with the openings r.st, verified as ok.
After(r, ok) ==
    LET at == <<r.flow, r.stage>>
    IN  CASE at = <<"settle", "register">> -> Polling(r, "sync")
          [] at = <<"shield", "register">> -> [Submits(r, "deposit") EXCEPT !.due = r.amount]
          [] at = <<"settle", "sync">>     -> Settle(r, ok)
          [] at = <<"shield", "deposit">>  -> MergeIf(r, r.st.rcv # Zero)
          [] at = <<"merge", "sync">> ->
               IF r.st.rcv # Zero /\ ~ok.rcv THEN Polling(r, "recv") ELSE MergeIf(r, r.st.rcv # Zero)
          [] at \in {<<"settle", "deposit">>, <<"merge", "recv">>} ->
               [r EXCEPT !.pc = "again", !.prior = store]
          [] at = <<"unshield", "sync">> -> SpendOr(r, MergeIf(r, r.st.rcv.v > 0))
          [] at \in {<<"settle", "merge">>, <<"unshield", "merge">>} -> SpendOr(r, Free)
          [] OTHER -> Free

\* Fault: a wait for the merged balance looks at the receiving one.
EnoughOfEither(r, ok) == ok.sp \/ ok.rcv

\* What a wait requires of the two openings.
Enough(r, ok) ==
    CASE r.stage \in {"deposit", "recv"} -> ok.rcv
      [] r.stage = "sync" /\ r.flow = "unshield" -> ok.sp /\ ok.rcv
      [] OTHER -> ok.sp

\* Whether the opening a flow holds was current when it was last verified and no
\* spend or merge has landed since.  The wait for a deposit does not verify the
\* spendable one, and the settlement goes on with what it finds.
Undisturbed(r, ok) ==
    r.flow # "read" /\ (ok.sp \/ (r.alone /\ r.stage # "deposit"))

\* The loops of waitUntilVerified, and of reconcileForRead, which rebuilds
\* after its first sync and ends with what is stored.  Each turn ends with a
\* verifyAgainstChain.
Verify(p) ==
    LET ok == Agrees(run[p].st)
        r  == [run[p] EXCEPT !.tries = @ + 1, !.alone = Undisturbed(run[p], ok)]
    IN  /\ At(p, "verify")
        /\ run' = [run EXCEPT ![p] =
               IF Enough(r, ok) THEN After(r, ok)
               ELSE IF Reconciles(r) /\ r.tries > Reads THEN After([r EXCEPT !.st = store], ok)
               ELSE IF r.tries = (IF Reconciles(r) THEN 1 ELSE Polls) THEN Rebuilds(r)
               ELSE Syncs(r)]
        /\ UNCHANGED <<netVars, store, pool, history>>

\* After a rebuild.  A wait that fails puts back what was stored when it began.
Check(p) ==
    LET ok == Agrees(run[p].st)
        r  == [run[p] EXCEPT !.alone = Undisturbed(run[p], ok)]
    IN  /\ At(p, "check")
        /\ \/ /\ Enough(r, ok) \/ r.stage = "register"
              /\ run' = [run EXCEPT ![p] = After(r, ok)]
              /\ UNCHANGED store
           \/ /\ ~Enough(r, ok) /\ Reconciles(r)
              /\ run' = [run EXCEPT ![p] = Syncs(r)]
              /\ UNCHANGED store
           \/ /\ ~Enough(r, ok) /\ ~Reconciles(r) /\ r.stage # "register"
              /\ End(p)
              /\ store' = r.prior
        /\ UNCHANGED <<netVars, pool, history>>

\* The receiving balance that is stored is verified once more before a merge.
Again(p) ==
    LET r == run[p]
        ok == Agrees(r.prior)
    IN  /\ At(p, "again")
        /\ run' = [run EXCEPT ![p] =
               IF r.flow = "settle" THEN SpendOr(r, MergeIf(r, r.st.rcv # Zero /\ ok.rcv))
               ELSE MergeIf(r, ok.rcv)]
        /\ UNCHANGED <<netVars, store, pool, history>>

-----------------------------------------------------------------------------
(* Flows and their transactions.                                           *)

Registered == \E i \in DOMAIN log : log[i].type = "register"

\* The balance panel refreshes what it shows: refreshConfidentialBalance, when
\* it is asked to and on its timers.
BeginRead(p) ==
    /\ At(p, "idle") /\ pool[p] = None /\ "read" \in FlowsOf[p]
    /\ Registered
    /\ run' = [run EXCEPT ![p] =
           Polling([Free EXCEPT !.flow = "read", !.calm = (seen = Tip)], "sync")]
    /\ UNCHANGED <<netVars, store, pool, history>>

\* registerConfidentialAccount is the first step of the flows that fund one.
\* (Bound: nothing is begun while an abandoned transaction is undecided.)
Begin(p, flow, x) ==
    LET r == [Free EXCEPT !.flow = flow, !.amount = x, !.alone = TRUE]
    IN  /\ At(p, "idle") /\ pool[p] = None /\ flow \in FlowsOf[p]
        /\ flow \in {"merge", "unshield"} => Registered
        /\ run' = [run EXCEPT ![p] =
               IF ~Registered THEN Submits(r, "register")
               ELSE IF flow = "shield" THEN [Submits(r, "deposit") EXCEPT !.due = x]
               ELSE Polling(r, "sync")]
        /\ UNCHANGED <<netVars, store, pool, history>>

Kind(r) == IF r.flow = "settle" THEN "transfer" ELSE "withdraw"

Transaction(r) ==
    IF r.stage = "spend" THEN [type |-> Kind(r), using |-> r.st.sp, x |-> r.amount, at |-> 0]
    ELSE [type |-> r.stage, using |-> Zero, x |-> IF r.stage = "deposit" THEN r.due ELSE 0, at |-> 0]

\* The transaction is proved and built from the openings the flow holds.
Submit(p) ==
    /\ At(p, "submit")
    /\ pool' = [pool EXCEPT ![p] = Transaction(run[p])]
    /\ run' = [run EXCEPT ![p].pc = "await", ![p].st = Fresh]
    /\ UNCHANGED <<netVars, store, history>>

\* The token contract: a spend's proof is about the commitment on chain.
Accepts(op) ==
    CASE op.type = "register" -> ~Registered
      [] op.type \in Spends -> Registered /\ op.using = OnChain.sp
      [] OTHER -> Registered

Event(op) ==
    [type |-> op.type,
     x |-> IF op.type \in Spends THEN op.using.v - op.x ELSE op.x]

\* What a flow had read may no longer hold: of the balances, of what is stored.
Disturbed(moves) ==
    [q \in Actors |-> [run[q] EXCEPT !.calm = FALSE, !.alone = @ /\ ~moves]]

Happens(e) == room > 0 /\ room' = room - 1 /\ log' = Append(log, e)

\* The flow that submitted it may have given up.
Land(p) ==
    /\ pool[p] # None /\ pool[p].at = 0 /\ Accepts(pool[p])
    /\ Happens(Event(pool[p]))
    /\ pool' = [pool EXCEPT ![p] = IF At(p, "await") THEN [@ EXCEPT !.at = Tip + 1] ELSE None]
    /\ run' = Disturbed(Event(pool[p]).type \in Spends \cup {"merge"})
    /\ UNCHANGED <<seen, floor, store, history>>

Refuse(p) ==
    /\ pool[p] # None /\ pool[p].at = 0
    /\ pool' = [pool EXCEPT ![p] = None]
    /\ IF At(p, "await") THEN End(p) ELSE UNCHANGED run
    /\ UNCHANGED <<netVars, store, history>>

\* The answer of a spend: setSpendable writes the opening it computed over
\* whatever is stored by then.
SetSpendable(p) ==
    /\ run' = [Disturbed(FALSE) EXCEPT ![p] = Free]
    /\ store' = [store EXCEPT !.sp = [v |-> log[pool[p].at].x, r |-> {pool[p].at}]]
    /\ late' = (late \/ \E i \in (pool[p].at + 1)..Tip : Moves(i))

Answer(p) ==
    /\ At(p, "await") /\ pool[p].at # 0
    /\ pool' = [pool EXCEPT ![p] = None]
    /\ \/ run[p].stage = "spend" /\ SetSpendable(p)
       \/ /\ run[p].stage = "register"
          /\ run' = [run EXCEPT ![p] = Rebuilds(@)]
          /\ UNCHANGED <<store, late>>
       \/ /\ run[p].stage \in {"deposit", "merge"}
          /\ run' = [run EXCEPT ![p] = Polling(@, run[p].stage)]
          /\ UNCHANGED <<store, late>>
    /\ UNCHANGED <<netVars, lost>>

\* A call fails, an answer is lost, or the page is closed.
Abandon(p) ==
    /\ ~At(p, "idle")
    /\ End(p)
    /\ pool' = [pool EXCEPT ![p] = IF @ # None /\ @.at = 0 THEN @ ELSE None]
    /\ UNCHANGED <<netVars, store, history>>

-----------------------------------------------------------------------------
(* The network.                                                            *)

\* Someone else pays the account.
Credit(x) ==
    /\ Registered
    /\ Happens([type |-> "credit", x |-> x])
    /\ run' = Disturbed(FALSE)
    /\ UNCHANGED <<seen, floor, store, pool, history>>

\* The RPC server serves the events of one more ledger.
Serve ==
    /\ seen < Tip
    /\ seen' = seen + 1
    /\ UNCHANGED <<log, room, floor, store, run, pool, history>>

\* Its retention window moves on; the window is longer than the margin.
Expire ==
    /\ \E f \in Floors : floor < f /\ f + Margin <= seen /\ floor' = f
    /\ room > 0 /\ room' = room - 1
    /\ UNCHANGED <<log, seen, store, run, pool, history>>

-----------------------------------------------------------------------------

CtInit ==
    /\ \E past \in Pasts : log = past.log /\ room = past.room
    /\ seen = Tip
    /\ floor = 0
    /\ store = [OnChain EXCEPT !.cur = Tip]
    /\ run = [p \in Actors |-> Free]
    /\ pool = [p \in Actors |-> None]
    /\ lost = FALSE /\ late = FALSE

CtNext ==
    \/ \E p \in Actors :
         \/ BeginRead(p)
         \/ \E flow \in Flows \ {"read"}, x \in Amounts : Begin(p, flow, x)
         \/ Load(p) \/ Sync(p) \/ Rebuild(p) \/ Save(p) \/ Verify(p) \/ Check(p) \/ Again(p)
         \/ Submit(p) \/ Land(p) \/ Refuse(p) \/ Answer(p) \/ Abandon(p)
    \/ \E x \in Amounts : Credit(x)
    \/ Serve \/ Expire

CtSpec == CtInit /\ [][CtNext]_ctVars

-----------------------------------------------------------------------------
(* Properties.                                                             *)

\* The types, and no cursor ahead of what the RPC server has served: the
\* stored state never claims to know ledgers nobody could have read.
CtTypeOK ==
    /\ seen \in 0..Tip /\ floor \in {0} \cup Floors /\ room \in Nat
    /\ {store} \cup {run[p].st : p \in Actors} \cup {run[p].prior : p \in Actors} \subseteq Caches
    /\ store.cur <= seen
    /\ \A p \in Actors :
         /\ run[p].flow \in FlowsOf[p] \cup {"none"}
         /\ At(p, "await") => pool[p] # None
         /\ pool[p] # None => pool[p].at \in 0..Tip
    /\ {lost, late} \subseteq BOOLEAN

\* The stored openings are one sync away from the truth: the events after the
\* cursor, replayed over them, give exactly what the two commitments on chain
\* hold, whoever stored them and however stale what he started from, unless an
\* event was not to be had or a slow answer was stored over a later one.
CatchesUp ==
    LET ahead == Replayed(store, (store.cur + 1)..Tip)
    IN  lost \/ late \/ (ahead.sp = OnChain.sp /\ ahead.rcv = OnChain.rcv)

\* A spend waiting for the network is proved about the commitment on chain,
\* unless another spend or merge landed after the flow last verified it, or its
\* settlement deposited first and found the spendable opening wrong, which that
\* wait ignores: the chain refuses nobody else, whatever the RPC server lags.
SpendMatches ==
    \A p \in Actors :
        At(p, "await") /\ pool[p].type \in Spends /\ pool[p].at = 0 =>
            pool[p].using = OnChain.sp \/ ~run[p].alone

\* A balance read heals: when the chain is still and all its events are served
\* while it runs, one sync or one rebuild verifies, whatever was stored, and
\* its short polls are never needed.
ReadHeals ==
    \A p \in Actors :
        run[p].calm /\ Reconciles(run[p]) /\ run[p].tries > 0 => lost \/ run[p].pc \in {"rebuild", "rebuilt", "check"}

\* store.ts: "once an event ages out of the RPC's ~7-day window, the cached
\* openings are the ONLY way to keep the balance spendable".  So an opening that
\* would catch up with the chain is never replaced by one that cannot.
CanSpend    == Replayed(store, (store.cur + 1)..Tip).sp = OnChain.sp
CacheIsKept == [][CanSpend => late' \/ CanSpend']_ctVars

=============================================================================
