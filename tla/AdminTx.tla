------------------------------ MODULE AdminTx ------------------------------
(***************************************************************************)
(* issuer-service/lib/sorobanAdmin.js: transactions of the one Stellar     *)
(* account through which every handler of the issuer service writes to the *)
(* chain.  Handlers interleave at each await, so several calls compete for *)
(* the account's next sequence number.  A transaction is the triple its    *)
(* hash depends on: operation, sequence number, and the moment it was      *)
(* built at (its time bounds): a second of a ledger.                       *)
(***************************************************************************)
EXTENDS Naturals, FiniteSets

CONSTANTS
    Callers,    \* call sites running at the same time
    Ops,        \* operations submitted
    Stamps,     \* the seconds of one ledger
    Attempts,   \* turns of the retry loop (4)
    MaxSeq,     \* bound on the account's sequence number explored
    NoTx

Tx == [op : Ops, seq : Nat, at : Nat \X Stamps]

Call == [pc : {"idle", "reading", "built", "waiting", "done", "failed"}, left : 0..Attempts,
         since : Nat, op : Ops \cup {NoTx}, tx : Tx \cup {NoTx}]

ASSUME AttemptsAssumption == Attempts \in Nat \ {0} /\ MaxSeq \in Nat
ASSUME NoTxAssumption == NoTx \notin Tx /\ NoTx \notin Ops

VARIABLES
    seqNo,      \* the account's sequence number on the ledger
    rpcSeq,     \* the one the RPC server answers, which may lag behind
    pool,       \* transactions the network holds
    landed,     \* transactions applied with success
    reverted,   \* transactions applied with a failure
    call,       \* caller -> its call of invokeAdminContract; since is history:
                \* the ledger's sequence number when it began
    handed      \* history: caller -> transactions of its call the network took

netVars == <<seqNo, rpcSeq, pool, landed, reverted>>
txVars  == <<netVars, call, handed>>

Idle == [pc |-> "idle", left |-> 0, since |-> 0, op |-> NoTx, tx |-> NoTx]

-----------------------------------------------------------------------------
(* The call, between its awaits.                                           *)

At(c, pc) == call[c].pc = pc
Goto(c, pc) == call' = [call EXCEPT ![c].pc = pc]

\* The loop's count and the history are of no use after a throw.
Throw(c) == call' = [call EXCEPT ![c].pc = "failed", ![c].left = 0, ![c].since = 0]

Begin(c, op, left) ==
    /\ call' = [call EXCEPT ![c] = [pc |-> "reading", left |-> left, since |-> seqNo, op |-> op,
                                    tx |-> NoTx]]
    /\ handed' = [handed EXCEPT ![c] = {}]

\* getAccount answers, and the transaction is built on what it answered.
Build(c, stamp) ==
    /\ At(c, "reading")
    /\ call' = [call EXCEPT ![c].pc = "built",
                            ![c].tx = [op |-> call[c].op, seq |-> rpcSeq + 1,
                                       at |-> <<seqNo, stamp>>]]
    /\ UNCHANGED <<netVars, handed>>

\* getAccount or the simulation throws.
Abort(c) ==
    /\ At(c, "reading") \/ At(c, "built")
    /\ Throw(c)
    /\ UNCHANGED <<netVars, handed>>

\* Fault: a retry that does not count.
RetryUncounted(c) == Goto(c, "reading")

\* Fault: turns are counted and never compared with the limit.
RetryUnbounded(c) == call' = [call EXCEPT ![c].pc = "reading", ![c].left = @ - 1]

Retry(c) ==
    IF call[c].left > 1
    THEN call' = [call EXCEPT ![c].pc = "reading", ![c].left = @ - 1]
    ELSE Throw(c)

\* The network holds at most one transaction of an account and takes only
\* the next sequence number.
Fits(tx) == tx.seq = seqNo + 1 /\ pool \subseteq {tx}

\* sendTransaction answers ERROR, txBadSeq.
Refused(c) ==
    /\ At(c, "built")
    /\ ~Fits(call[c].tx)
    /\ Retry(c)
    /\ UNCHANGED <<netVars, handed>>

\* It answers PENDING, or DUPLICATE when the same hash is already held.
Sent(c) ==
    /\ At(c, "built")
    /\ Fits(call[c].tx)
    /\ pool' = pool \cup {call[c].tx}
    /\ handed' = [handed EXCEPT ![c] = @ \cup {call[c].tx}]
    /\ UNCHANGED <<seqNo, rpcSeq, landed, reverted>>

Accepted(c) == Sent(c) /\ Goto(c, "waiting")

\* The network takes it and the answer is lost: sendTransaction throws.
AnswerLost(c) == Sent(c) /\ Throw(c)

\* Fault: TRY_AGAIN_LATER is taken for success.
LaterIsDone(c) ==
    /\ At(c, "built")
    /\ call[c].tx \notin pool
    /\ Goto(c, "done")
    /\ UNCHANGED <<netVars, handed>>

\* It answers TRY_AGAIN_LATER, which is not ERROR: the call waits for a
\* transaction the network did not take.
Later(c) ==
    /\ At(c, "built")
    /\ call[c].tx \notin pool
    /\ Goto(c, "waiting")
    /\ UNCHANGED <<netVars, handed>>

\* waitForTransactionSuccess: Horizon finds the transaction.
Confirmed(c) ==
    /\ At(c, "waiting")
    /\ \/ call[c].tx \in landed /\ Goto(c, "done")
       \/ call[c].tx \in reverted /\ Throw(c)
    /\ UNCHANGED <<netVars, handed>>

\* Fault: a call that timed out submits again.
RetryOnTimeout(c) ==
    /\ At(c, "waiting")
    /\ Retry(c)
    /\ UNCHANGED <<netVars, handed>>

\* 120 seconds pass, or Horizon answers something other than 404.  The
\* transaction is valid for 180 seconds and may still land.
GiveUp(c) ==
    /\ At(c, "waiting")
    /\ Throw(c)
    /\ UNCHANGED <<netVars, handed>>

CallStep(c) ==
    \/ \E stamp \in Stamps : Build(c, stamp)
    \/ Refused(c) \/ Accepted(c) \/ AnswerLost(c) \/ Later(c)
    \/ Abort(c) \/ Confirmed(c) \/ GiveUp(c)

-----------------------------------------------------------------------------
(* The network.                                                            *)

Close(tx) ==
    /\ tx.seq = seqNo + 1
    /\ seqNo < MaxSeq
    /\ seqNo' = seqNo + 1
    /\ pool' = pool \ {tx}
    /\ UNCHANGED <<rpcSeq, call, handed>>

Land(tx)   == Close(tx) /\ landed' = landed \cup {tx} /\ UNCHANGED reverted
Revert(tx) == Close(tx) /\ reverted' = reverted \cup {tx} /\ UNCHANGED landed

\* Time bounds pass, or the network drops it.
Expire(tx) ==
    /\ pool' = pool \ {tx}
    /\ UNCHANGED <<seqNo, rpcSeq, landed, reverted, call, handed>>

CatchUp ==
    /\ rpcSeq' = seqNo
    /\ UNCHANGED <<seqNo, pool, landed, reverted, call, handed>>

-----------------------------------------------------------------------------
TxInit ==
    /\ seqNo = 0
    /\ rpcSeq = 0
    /\ pool = {}
    /\ landed = {}
    /\ reverted = {}
    /\ call = [c \in Callers |-> Idle]
    /\ handed = [c \in Callers |-> {}]

\* A caller whose call ended may call again.
Invoke(c, op) ==
    /\ call[c].pc \in {"idle", "done", "failed"}
    /\ Begin(c, op, Attempts)
    /\ UNCHANGED netVars

TxNext ==
    \/ \E c \in Callers : CallStep(c) \/ (\E op \in Ops : Invoke(c, op))
    \/ \E tx \in pool : Land(tx) \/ Revert(tx) \/ Expire(tx)
    \/ CatchUp

\* Requests to the RPC server and to Horizon are answered or fail.
TxSpec == TxInit /\ [][TxNext]_txVars /\ \A c \in Callers : WF_txVars(CallStep(c))

-----------------------------------------------------------------------------
\* The network never holds two transactions of the account, and what it
\* holds can be applied next.
TxTypeOK ==
    /\ seqNo \in 0..MaxSeq
    /\ rpcSeq \in Nat
    /\ pool \subseteq Tx /\ \A t, u \in pool : t = u /\ t.seq = seqNo + 1
    /\ landed \subseteq Tx
    /\ reverted \subseteq Tx
    /\ call \in [Callers -> Call]
    /\ handed \in [Callers -> SUBSET Tx]

\* A call applies its operation at most once, however often it retries and
\* however late a transaction lands: only a transaction the network refused is
\* built again (invokeAdminContract lines 81-101).
AtMostOnce ==
    \A c \in Callers : \A t, u \in handed[c] \cap landed : t = u

\* A call that returns a hash saw its own operation applied, and applied after
\* the call began (line 91).
DoneIsApplied ==
    \A c \in Callers :
        At(c, "done") => /\ call[c].tx \in landed
                         /\ call[c].tx.op = call[c].op
                         /\ call[c].tx.seq > call[c].since

\* AdminTx implements what the handlers rely on.
Active(c) == call[c].pc \in {"reading", "built", "waiting"}

Writes == INSTANCE AdminWrites WITH
    Writers <- Callers, Writes <- Ops, NoWrite <- NoTx,
    held  <- {[op |-> tx.op, by |-> {c \in Callers : tx \in handed[c]}] : tx \in pool},
    write <- [c \in Callers |->
        [pc   |-> IF Active(c) THEN "active" ELSE call[c].pc,
         op   |-> call[c].op,
         seen |-> Active(c) /\ \E tx \in landed :
                                 tx.op = call[c].op /\ tx.seq > call[c].since,
         mine |-> handed[c] \cap landed # {}]]

ImplementsWrites == Writes!WritesSpec

\* Every call returns or throws, also when the network never takes its
\* transaction or when other callers keep taking the next sequence number.
CallsEnd ==
    \A c \in Callers : At(c, "reading") ~> (At(c, "done") \/ At(c, "failed"))
=============================================================================
