---------------------------- MODULE AdminTxProofs ----------------------------
(***************************************************************************)
(* Proofs about AdminTx, for any number of callers, operations, ledgers and *)
(* turns of the retry loop.                                                *)
(***************************************************************************)
EXTENDS AdminTx, TLAPS

\* What the network took of a call is the transaction the call now carries,
\* and while the call may still build another one the network took none.
HandedIsCarried ==
    \A c \in Callers :
        /\ handed[c] \subseteq {call[c].tx}
        /\ call[c].pc \in {"idle", "reading", "built"} => handed[c] = {}

\* A transaction is built while its call runs, for the call's operation.
CarriedIsOwn ==
    \A c \in Callers :
        call[c].tx # NoTx => /\ call[c].tx.op = call[c].op
                             /\ call[c].tx.at[1] >= call[c].since
                             /\ call[c].tx.at[1] <= seqNo

\* A transaction the network took was built under an earlier sequence number.
TakenWasBuilt == \A t \in pool \cup landed : t.at[1] < t.seq

DoneLanded == \A c \in Callers : At(c, "done") => call[c].tx \in landed

InFlightHasTx ==
    \A c \in Callers :
        /\ call[c].pc \in {"reading", "built", "waiting"} => call[c].op \in Ops
        /\ call[c].pc \in {"built", "waiting"} => call[c].tx \in Tx

SinceIsPast == \A c \in Callers : call[c].since <= seqNo

TxInv ==
    /\ TxTypeOK
    /\ HandedIsCarried
    /\ CarriedIsOwn
    /\ TakenWasBuilt
    /\ DoneLanded
    /\ InFlightHasTx
    /\ SinceIsPast

-----------------------------------------------------------------------------
(* A transaction's parts.                                                  *)

\* What Build makes is a transaction (invokeAdminContract lines 65-73).
LEMMA BuiltIsTx ==
    ASSUME NEW op \in Ops, NEW n \in Nat, NEW m \in Nat, NEW stamp \in Stamps
    PROVE  LET tx == [op |-> op, seq |-> n + 1, at |-> <<m, stamp>>]
           IN  tx \in Tx /\ tx # NoTx /\ tx.op = op /\ tx.at[1] = m
BY NoTxAssumption DEF Tx

\* The parts of a transaction are of their types.
LEMMA TxParts ==
    ASSUME NEW tx \in Tx
    PROVE  tx.op \in Ops /\ tx.seq \in Nat /\ tx.at[1] \in Nat
BY DEF Tx

\* A call that moves to another pc keeps its type.
LEMMA GotoType ==
    ASSUME NEW r \in Call, NEW pc \in {"idle", "reading", "built", "waiting", "done", "failed"}
    PROVE  [r EXCEPT !.pc = pc] \in Call
BY DEF Call

\* A call that throws keeps its type, its operation and its transaction.
LEMMA ThrowType ==
    ASSUME NEW c \in Callers, call[c] \in Call, call \in [Callers -> Call], Throw(c)
    PROVE  \E r \in Call : /\ call' = [call EXCEPT ![c] = r]
                           /\ r.pc = "failed" /\ r.since = 0
                           /\ r.op = call[c].op /\ r.tx = call[c].tx
<1> DEFINE thrown == [call[c] EXCEPT !.pc = "failed", !.left = 0, !.since = 0]
<1>1. thrown \in Call
  <2>1. 0 \in 0..Attempts /\ 0 \in Nat
      BY AttemptsAssumption
  <2>q. QED
      BY <2>1 DEF Call
<1>2. call' = [call EXCEPT ![c] = thrown]
    BY DEF Throw
<1>q. QED
    BY <1>1, <1>2 DEF Call

-----------------------------------------------------------------------------
\* No call has begun in the initial state.
LEMMA TxInitInv == TxInit => TxInv
BY AttemptsAssumption
   DEF TxInit, TxInv, TxTypeOK, HandedIsCarried, CarriedIsOwn, TakenWasBuilt, DoneLanded,
       InFlightHasTx, SinceIsPast, Call, Idle, At
-----------------------------------------------------------------------------
(* Steps.                                                                  *)

\* A call begins with nothing built and nothing handed over.
LEMMA InvokeInv ==
    ASSUME TxInv, NEW c \in Callers, NEW op \in Ops, Invoke(c, op)
    PROVE  TxInv'
<1>1. [pc |-> "reading", left |-> Attempts, since |-> seqNo, op |-> op, tx |-> NoTx] \in Call
    BY AttemptsAssumption DEF TxInv, TxTypeOK, Call
<1>2. TxTypeOK'
    BY <1>1 DEF TxInv, TxTypeOK, Invoke, Begin, netVars
<1>3. HandedIsCarried' /\ CarriedIsOwn'
    BY DEF TxInv, TxTypeOK, HandedIsCarried, CarriedIsOwn, Invoke, Begin, netVars
<1>4. TakenWasBuilt' /\ DoneLanded' /\ InFlightHasTx' /\ SinceIsPast'
    BY DEF TxInv, TxTypeOK, TakenWasBuilt, DoneLanded, InFlightHasTx, SinceIsPast, Invoke, Begin, netVars, At
<1>q. QED
    BY <1>2, <1>3, <1>4 DEF TxInv

\* A transaction is built where nothing was handed over.
LEMMA BuildInv ==
    ASSUME TxInv, NEW c \in Callers, NEW stamp \in Stamps, Build(c, stamp)
    PROVE  TxInv'
<1> DEFINE built == [op |-> call[c].op, seq |-> rpcSeq + 1, at |-> <<seqNo, stamp>>]
<1>0. call[c].op \in Ops /\ rpcSeq \in Nat /\ seqNo \in Nat
    BY AttemptsAssumption DEF TxInv, TxTypeOK, InFlightHasTx, Build, At
<1>1. PICK tx \in Tx :
          /\ tx # NoTx /\ tx.op = call[c].op /\ tx.at[1] = seqNo
          /\ call' = [call EXCEPT ![c] = [call[c] EXCEPT !.pc = "built", !.tx = tx]]
  <2>1. built \in Tx /\ built # NoTx /\ built.op = call[c].op /\ built.at[1] = seqNo
      BY <1>0, BuiltIsTx
  <2>2. call' = [call EXCEPT ![c] = [call[c] EXCEPT !.pc = "built", !.tx = built]]
      BY DEF Build
  <2>q. QED
      BY <2>1, <2>2
<1>2. call[c] \in Call /\ At(c, "reading") /\ UNCHANGED <<netVars, handed>>
    BY DEF TxInv, TxTypeOK, Build
<1>3. [call[c] EXCEPT !.pc = "built", !.tx = tx] \in Call
    BY <1>2 DEF Call
<1>4. TxTypeOK'
    BY <1>1, <1>2, <1>3 DEF TxInv, TxTypeOK, netVars
<1>5. call[c].since <= seqNo
    BY DEF TxInv, SinceIsPast
<1>6. HandedIsCarried' /\ CarriedIsOwn'
    BY <1>1, <1>2, <1>5 DEF TxInv, TxTypeOK, HandedIsCarried, CarriedIsOwn, netVars, Call, At
<1>7. TakenWasBuilt' /\ DoneLanded' /\ InFlightHasTx' /\ SinceIsPast'
    BY <1>1, <1>2
       DEF TxInv, TxTypeOK, TakenWasBuilt, DoneLanded, InFlightHasTx, SinceIsPast, netVars, At, Call
<1>q. QED
    BY <1>4, <1>6, <1>7 DEF TxInv

\* A call that only moves on.
LEMMA GotoInv ==
    ASSUME TxInv, NEW c \in Callers, NEW pc \in {"waiting", "done"}, Goto(c, pc),
           UNCHANGED <<netVars, handed>>,
           pc = "waiting" => At(c, "built"),
           pc = "done" => call[c].tx \in landed
    PROVE  TxInv'
<1>1. call[c] \in Call /\ [call[c] EXCEPT !.pc = pc] \in Call
    BY GotoType DEF TxInv, TxTypeOK
<1>2. call' = [call EXCEPT ![c] = [call[c] EXCEPT !.pc = pc]]
    BY DEF Goto
<1>3. TxTypeOK'
    BY <1>1, <1>2 DEF TxInv, TxTypeOK, netVars
<1>4. HandedIsCarried' /\ CarriedIsOwn'
    BY <1>1, <1>2 DEF TxInv, TxTypeOK, HandedIsCarried, CarriedIsOwn, netVars, Call
<1>5. TakenWasBuilt' /\ DoneLanded' /\ InFlightHasTx' /\ SinceIsPast'
    BY <1>1, <1>2
       DEF TxInv, TxTypeOK, TakenWasBuilt, DoneLanded, InFlightHasTx, SinceIsPast, netVars, At, Call
<1>q. QED
    BY <1>3, <1>4, <1>5 DEF TxInv

\* A call throws.
LEMMA ThrowInv ==
    ASSUME TxInv, NEW c \in Callers, Throw(c), UNCHANGED <<netVars, handed>>
    PROVE  TxInv'
<1>1. PICK r \in Call :
          /\ call' = [call EXCEPT ![c] = r]
          /\ r.pc = "failed" /\ r.since = 0 /\ r.op = call[c].op /\ r.tx = call[c].tx
    BY ThrowType DEF TxInv, TxTypeOK
<1>2. TxTypeOK'
    BY <1>1 DEF TxInv, TxTypeOK, netVars
<1>3. ASSUME call[c].tx # NoTx PROVE call[c].tx.at[1] >= 0
    BY <1>3, TxParts DEF TxInv, TxTypeOK, Call
<1>4. HandedIsCarried' /\ CarriedIsOwn'
    BY <1>1, <1>3 DEF TxInv, TxTypeOK, HandedIsCarried, CarriedIsOwn, netVars, Call
<1>5. TakenWasBuilt' /\ DoneLanded' /\ InFlightHasTx' /\ SinceIsPast'
    BY <1>1
       DEF TxInv, TxTypeOK, TakenWasBuilt, DoneLanded, InFlightHasTx, SinceIsPast, netVars, At, Call
<1>q. QED
    BY <1>2, <1>4, <1>5 DEF TxInv

\* A refused transaction: the call goes back to reading with one turn less, or
\* fails.
LEMMA RefusedInv ==
    ASSUME TxInv, NEW c \in Callers, Refused(c)
    PROVE  TxInv'
<1>1. CASE call[c].left > 1
  <2>1. call' = [call EXCEPT ![c] = [call[c] EXCEPT !.pc = "reading", !.left = call[c].left - 1]]
      BY <1>1 DEF Refused, Retry
  <2>2. call[c] \in Call /\ At(c, "built") /\ UNCHANGED <<netVars, handed>>
      BY DEF TxInv, TxTypeOK, Refused
  <2>3. [call[c] EXCEPT !.pc = "reading", !.left = call[c].left - 1] \in Call
    <3>1. call[c].left - 1 \in 0..Attempts
        BY <1>1, <2>2, AttemptsAssumption DEF Call
    <3>q. QED
        BY <2>2, <3>1 DEF Call
  <2>4. TxTypeOK'
      BY <2>1, <2>2, <2>3 DEF TxInv, TxTypeOK, netVars
  <2>5. HandedIsCarried' /\ CarriedIsOwn'
      BY <2>1, <2>2 DEF TxInv, TxTypeOK, HandedIsCarried, CarriedIsOwn, netVars, Call, At
  <2>6. TakenWasBuilt' /\ DoneLanded' /\ InFlightHasTx' /\ SinceIsPast'
      BY <2>1, <2>2
         DEF TxInv, TxTypeOK, TakenWasBuilt, DoneLanded, InFlightHasTx, SinceIsPast, netVars, At,
             Call
  <2>q. QED
      BY <2>4, <2>5, <2>6 DEF TxInv
<1>2. CASE ~(call[c].left > 1)
    BY <1>2, ThrowInv DEF Refused, Retry
<1>q. QED
    BY <1>1, <1>2

\* The network takes a call's transaction: it is the only one it holds, and
\* the only one it took of this call.
LEMMA SentInv ==
    ASSUME TxInv, NEW c \in Callers, Sent(c), Goto(c, "waiting") \/ Throw(c)
    PROVE  TxInv'
<1>1. PICK r \in Call :
          /\ call' = [call EXCEPT ![c] = r]
          /\ r.pc \in {"waiting", "failed"} /\ r.op = call[c].op /\ r.tx = call[c].tx
          /\ r.since = 0 \/ r.since = call[c].since
  <2>1. CASE Throw(c)
      BY <2>1, ThrowType DEF TxInv, TxTypeOK
  <2>2. CASE Goto(c, "waiting")
    <3> DEFINE moved == [call[c] EXCEPT !.pc = "waiting"]
    <3>1. moved \in Call /\ call[c] \in Call
        BY GotoType DEF TxInv, TxTypeOK
    <3>2. call' = [call EXCEPT ![c] = moved]
        BY <2>2 DEF Goto
    <3>q. QED
        BY <3>1, <3>2 DEF Call
  <2>q. QED
      BY <2>1, <2>2
<1>2. call[c].tx \in Tx /\ call[c].tx # NoTx /\ handed[c] = {} /\ At(c, "built")
    BY NoTxAssumption DEF TxInv, InFlightHasTx, HandedIsCarried, Sent, At
<1>3. /\ pool' = {call[c].tx} /\ call[c].tx.seq = seqNo + 1
      /\ handed' = [handed EXCEPT ![c] = {call[c].tx}]
    BY <1>2 DEF Sent, Fits
<1>4. UNCHANGED <<seqNo, rpcSeq, landed, reverted>> /\ call[c].tx.at[1] \in Nat
    BY <1>2, TxParts DEF Sent
<1>5. call[c].tx.at[1] < call[c].tx.seq
    BY <1>2, <1>3, TxParts DEF TxInv, TxTypeOK, CarriedIsOwn
<1>6. TxTypeOK'
    BY <1>1, <1>2, <1>3, <1>4 DEF TxInv, TxTypeOK
<1>7. HandedIsCarried' /\ CarriedIsOwn'
    BY <1>1, <1>2, <1>3, <1>4 DEF TxInv, TxTypeOK, HandedIsCarried, CarriedIsOwn, Call, At
<1>8. TakenWasBuilt' /\ SinceIsPast'
    BY <1>1, <1>3, <1>4, <1>5 DEF TxInv, TxTypeOK, TakenWasBuilt, SinceIsPast, Call
<1>9. DoneLanded' /\ InFlightHasTx'
    BY <1>1, <1>2, <1>4 DEF TxInv, TxTypeOK, DoneLanded, InFlightHasTx, Call, At
<1>q. QED
    BY <1>6, <1>7, <1>8, <1>9 DEF TxInv

\* A transaction is applied, with success or not: the account's next sequence
\* number is used, and the network holds nothing more.
LEMMA CloseInv ==
    ASSUME TxInv, NEW tx \in pool, Land(tx) \/ Revert(tx)
    PROVE  TxInv'
<1>1. /\ tx \in Tx /\ tx.at[1] < tx.seq /\ pool' = {}
      /\ seqNo' = seqNo + 1 /\ seqNo \in Nat /\ seqNo < MaxSeq
      /\ UNCHANGED <<rpcSeq, call, handed>>
    BY AttemptsAssumption DEF TxInv, TxTypeOK, TakenWasBuilt, Land, Revert, Close
<1>2. /\ landed \subseteq landed' /\ landed' \subseteq landed \cup {tx}
      /\ reverted' \subseteq reverted \cup {tx}
    BY DEF Land, Revert
<1>3. TxTypeOK'
    BY <1>1, <1>2, AttemptsAssumption DEF TxInv, TxTypeOK
<1>4. CarriedIsOwn'
  <2>1. ASSUME NEW c \in Callers, call[c].tx # NoTx
        PROVE  call[c].tx \in Tx /\ call[c].tx.at[1] \in Nat
      BY <2>1, TxParts DEF TxInv, TxTypeOK, Call
  <2>q. QED
      BY <1>1, <2>1 DEF TxInv, CarriedIsOwn
<1>5. HandedIsCarried' /\ TakenWasBuilt' /\ DoneLanded' /\ InFlightHasTx'
    BY <1>1, <1>2
       DEF TxInv, HandedIsCarried, TakenWasBuilt, DoneLanded, InFlightHasTx, At
<1>6. SinceIsPast'
    BY <1>1 DEF TxInv, TxTypeOK, SinceIsPast, Call
<1>q. QED
    BY <1>3, <1>4, <1>5, <1>6 DEF TxInv

\* The network drops a transaction, or the RPC server catches up.
LEMMA NetworkInv ==
    ASSUME TxInv, (\E tx \in pool : Expire(tx)) \/ CatchUp \/ UNCHANGED txVars
    PROVE  TxInv'
<1>1. /\ pool' \subseteq pool /\ rpcSeq' \in Nat
      /\ UNCHANGED <<seqNo, landed, reverted, call, handed>>
    BY AttemptsAssumption DEF TxInv, TxTypeOK, Expire, CatchUp, txVars, netVars
<1>2. TxTypeOK'
    BY <1>1 DEF TxInv, TxTypeOK
<1>3. HandedIsCarried' /\ CarriedIsOwn' /\ TakenWasBuilt'
    BY <1>1 DEF TxInv, HandedIsCarried, CarriedIsOwn, TakenWasBuilt
<1>4. DoneLanded' /\ InFlightHasTx' /\ SinceIsPast'
    BY <1>1 DEF TxInv, DoneLanded, InFlightHasTx, SinceIsPast, At
<1>q. QED
    BY <1>2, <1>3, <1>4 DEF TxInv

\* One case for every action.
LEMMA TxStepInv == TxInv /\ [TxNext]_txVars => TxInv'
<1> SUFFICES ASSUME TxInv, [TxNext]_txVars PROVE TxInv'
    OBVIOUS
<1>1. ASSUME NEW c \in Callers, CallStep(c) PROVE TxInv'
  <2>1. ASSUME NEW stamp \in Stamps, Build(c, stamp) PROVE TxInv'
      BY <2>1, BuildInv
  <2>2. CASE Refused(c)
      BY <2>2, RefusedInv
  <2>3. CASE Accepted(c) \/ AnswerLost(c)
      BY <2>3, SentInv DEF Accepted, AnswerLost
  <2>4. CASE Later(c)
      BY <2>4, GotoInv DEF Later
  <2>5. CASE Abort(c) \/ GiveUp(c)
      BY <2>5, ThrowInv DEF Abort, GiveUp
  <2>6. CASE Confirmed(c)
      BY <2>6, GotoInv, ThrowInv DEF Confirmed
  <2>q. QED
      BY <1>1, <2>1, <2>2, <2>3, <2>4, <2>5, <2>6 DEF CallStep
<1>2. ASSUME NEW c \in Callers, NEW op \in Ops, Invoke(c, op) PROVE TxInv'
    BY <1>2, InvokeInv
<1>3. ASSUME NEW tx \in pool, Land(tx) \/ Revert(tx) PROVE TxInv'
    BY <1>3, CloseInv
<1>4. CASE (\E tx \in pool : Expire(tx)) \/ CatchUp \/ UNCHANGED txVars
    BY <1>4, NetworkInv
<1>q. QED
    BY <1>1, <1>2, <1>3, <1>4 DEF TxNext

\* The invariant says what the properties say.
LEMMA TxInvImplies == TxInv => TxTypeOK /\ AtMostOnce /\ DoneIsApplied
<1> SUFFICES ASSUME TxInv PROVE TxTypeOK /\ AtMostOnce /\ DoneIsApplied
    OBVIOUS
<1>1. AtMostOnce
    BY DEF TxInv, HandedIsCarried, AtMostOnce
<1>2. ASSUME NEW c \in Callers, At(c, "done")
      PROVE  /\ call[c].tx \in landed
             /\ call[c].tx.op = call[c].op
             /\ call[c].tx.seq > call[c].since
  <2>1. call[c].tx \in landed /\ call[c].tx \in Tx /\ call[c].tx # NoTx
      BY <1>2, NoTxAssumption DEF TxInv, TxTypeOK, DoneLanded
  <2>2. call[c].tx.at[1] < call[c].tx.seq /\ call[c].tx.at[1] >= call[c].since
        /\ call[c].tx.op = call[c].op
      BY <2>1 DEF TxInv, TakenWasBuilt, CarriedIsOwn
  <2>3. call[c].tx.seq \in Nat /\ call[c].tx.at[1] \in Nat /\ call[c].since \in Nat
      BY <2>1, TxParts DEF TxInv, TxTypeOK, Call
  <2>q. QED
      BY <2>1, <2>2, <2>3
<1>q. QED
    BY <1>1, <1>2 DEF TxInv, DoneIsApplied

-----------------------------------------------------------------------------
\* The network never holds two transactions of the admin account, and what it
\* holds carries the next sequence number (invokeAdminContract lines 57-107).
THEOREM TxTypeCorrect == TxSpec => []TxTypeOK
BY TxInitInv, TxStepInv, TxInvImplies, PTL DEF TxSpec

\* However many handlers call at once, a call applies its operation at most
\* once: a retry never follows a transaction the network took (lines 81-101).
THEOREM WritesAtMostOnce == TxSpec => []AtMostOnce
BY TxInitInv, TxStepInv, TxInvImplies, PTL DEF TxSpec

\* A call that returns a hash saw its own operation applied after the call
\* began, never an older transaction of the same operation (line 91).
THEOREM ReturnedIsApplied == TxSpec => []DoneIsApplied
BY TxInitInv, TxStepInv, TxInvImplies, PTL DEF TxSpec

-----------------------------------------------------------------------------
(* AdminTx implements AdminWrites: what the handlers rely on is what the    *)
(* transactions provide, step by step.                                     *)

\* The names of the mapping: a transaction as the write on its way, and a call.
WriteOf(tx) == [op |-> tx.op, by |-> {c \in Callers : tx \in handed[c]}]

SeenBy(c) == Active(c) /\ \E tx \in landed : tx.op = call[c].op /\ tx.seq > call[c].since

MineOf(c) == handed[c] \cap landed # {}

CallOf(c) == [pc   |-> IF Active(c) THEN "active" ELSE call[c].pc,
              op   |-> call[c].op,
              seen |-> SeenBy(c),
              mine |-> MineOf(c)]

Held   == {WriteOf(tx) : tx \in pool}
CallsOf == [c \in Callers |-> CallOf(c)]

\* What was applied used a sequence number that is in the past.
LandedIsPast == \A t \in landed : t.seq <= seqNo

MapInv == TxInv /\ LandedIsPast

LEMMA MapInitInv == TxInit => MapInv
BY TxInitInv DEF TxInit, MapInv, LandedIsPast

LEMMA MapStepInv == MapInv /\ [TxNext]_txVars => MapInv'
<1> SUFFICES ASSUME MapInv, [TxNext]_txVars PROVE LandedIsPast'
    BY TxStepInv DEF MapInv
<1>1. seqNo \in Nat /\ \A t \in landed : t.seq \in Nat
    BY TxParts, AttemptsAssumption DEF MapInv, TxInv, TxTypeOK
<1>2. CASE UNCHANGED <<seqNo, landed>>
    BY <1>2 DEF MapInv, LandedIsPast
<1>3. ASSUME NEW tx \in pool, Land(tx) \/ Revert(tx) PROVE LandedIsPast'
    BY <1>1, <1>3 DEF MapInv, LandedIsPast, Land, Revert, Close
<1>q. QED
    BY <1>2, <1>3
       DEF TxNext, CallStep, Build, Refused, Accepted, AnswerLost, Sent, Later, Abort, Confirmed,
           GiveUp, Invoke, Expire, CatchUp, txVars, netVars

\* A call that is left alone is the same call in AdminWrites.
LEMMA CallStays ==
    ASSUME NEW c \in Callers, call'[c] = call[c], handed'[c] = handed[c], landed' = landed
    PROVE  CallOf(c)' = CallOf(c)
<1>1. Active(c)' = Active(c)
    BY DEF Active
<1>2. SeenBy(c)' = SeenBy(c)
    BY DEF SeenBy, Active
<1>3. MineOf(c)' = MineOf(c)
    BY DEF MineOf
<1>q. QED
    BY <1>1, <1>2, <1>3 DEF CallOf

\* What the network holds is the same for whomever it was taken.
LEMMA HeldStays ==
    ASSUME UNCHANGED <<pool, handed>> PROVE Held' = Held
BY DEF Held, WriteOf

\* A call that goes on running is active throughout, for the same operation.
LEMMA RunningStays ==
    ASSUME MapInv, NEW c \in Callers, NEW r \in Call, call' = [call EXCEPT ![c] = r],
           Active(c), r.pc \in {"reading", "built", "waiting"},
           r.op = call[c].op, r.since = call[c].since, UNCHANGED <<pool, handed, landed>>
    PROVE  Held' = Held /\ CallsOf' = CallsOf
<1>1. call'[c] = r /\ \A d \in Callers : d # c => call'[d] = call[d]
    BY DEF MapInv, TxInv, TxTypeOK
<1>2. Active(c)'
    BY <1>1 DEF Active
<1>3. SeenBy(c)' = SeenBy(c) /\ MineOf(c)' = MineOf(c)
    BY <1>1, <1>2 DEF SeenBy, MineOf
<1>4. CallOf(c)' = CallOf(c)
    BY <1>1, <1>2, <1>3 DEF CallOf
<1>5. \A d \in Callers : CallOf(d)' = CallOf(d)
    BY <1>1, <1>4, CallStays
<1>q. QED
    BY <1>5, HeldStays DEF CallsOf

\* A call that ends has seen all it will see.
LEMMA CallEndsAs ==
    ASSUME MapInv, NEW c \in Callers, NEW r \in Call, call' = [call EXCEPT ![c] = r],
           NEW pc \in {"done", "failed"}, r.pc = pc, r.op = call[c].op, landed' = landed,
           \A d \in Callers : d # c => handed'[d] = handed[d],
           MineOf(c)' = MineOf(c)
    PROVE  CallsOf' = [CallsOf EXCEPT ![c].pc = pc, ![c].seen = FALSE]
<1>1. call'[c] = r /\ \A d \in Callers : d # c => call'[d] = call[d]
    BY DEF MapInv, TxInv, TxTypeOK
<1>2. ~Active(c)' /\ SeenBy(c)' = FALSE
    BY <1>1 DEF Active, SeenBy
<1>3. CallOf(c)' = [CallOf(c) EXCEPT !.pc = pc, !.seen = FALSE]
  <2>1. CallOf(c)' = [pc |-> pc, op |-> call[c].op, seen |-> FALSE, mine |-> MineOf(c)]
      BY <1>1, <1>2 DEF CallOf
  <2>2. [CallOf(c) EXCEPT !.pc = pc, !.seen = FALSE]
          = [pc |-> pc, op |-> call[c].op, seen |-> FALSE, mine |-> MineOf(c)]
    <3>1. PICK p, o, s, m, no : /\ p = (IF Active(c) THEN "active" ELSE call[c].pc)
                                /\ o = call[c].op /\ s = SeenBy(c) /\ m = MineOf(c)
                                /\ no = FALSE
        OBVIOUS
    <3>2. CallOf(c) = [pc |-> p, op |-> o, seen |-> s, mine |-> m]
        BY <3>1 DEF CallOf
    <3>3. [[pc |-> p, op |-> o, seen |-> s, mine |-> m] EXCEPT !.pc = pc]
            = [pc |-> pc, op |-> o, seen |-> s, mine |-> m]
        OBVIOUS
    <3>4. [[pc |-> pc, op |-> o, seen |-> s, mine |-> m] EXCEPT !.seen = no]
            = [pc |-> pc, op |-> o, seen |-> no, mine |-> m]
        OBVIOUS
    <3>5. [[CallOf(c) EXCEPT !.pc = pc] EXCEPT !.seen = no]
            = [pc |-> pc, op |-> o, seen |-> no, mine |-> m]
        BY <3>2, <3>3, <3>4, Zenon
    <3>6. [CallOf(c) EXCEPT !.pc = pc, !.seen = no]
            = [[CallOf(c) EXCEPT !.pc = pc] EXCEPT !.seen = no]
        OBVIOUS
    <3>q. QED
        BY <3>1, <3>5, <3>6, Zenon
  <2>q. QED
      BY <2>1, <2>2
<1>4. \A d \in Callers : d # c => CallOf(d)' = CallOf(d)
    BY <1>1, CallStays
<1>q. QED
    BY <1>3, <1>4 DEF CallsOf

LEMMA ThrowMaps ==
    ASSUME MapInv, NEW c \in Callers, Active(c), Throw(c), UNCHANGED <<pool, handed, landed>>
    PROVE  Writes!Fail(c)
<1>1. PICK r \in Call : /\ call' = [call EXCEPT ![c] = r]
                        /\ r.pc = "failed" /\ r.op = call[c].op
    BY ThrowType DEF MapInv, TxInv, TxTypeOK
<1>2. MineOf(c)' = MineOf(c)
    BY DEF MineOf
<1>3. CallsOf' = [CallsOf EXCEPT ![c].pc = "failed", ![c].seen = FALSE]
    BY <1>1, <1>2, CallEndsAs
<1>4. Held' = Held /\ CallsOf[c].pc = "active"
    BY HeldStays DEF CallsOf, CallOf
<1>q. QED
    BY <1>3, <1>4
       DEF Writes!Fail, Writes!Is, Writes!Ended, Held, WriteOf, CallsOf, CallOf, SeenBy, MineOf

LEMMA BuildMaps ==
    ASSUME MapInv, NEW c \in Callers, NEW stamp \in Stamps, Build(c, stamp)
    PROVE  Held' = Held /\ CallsOf' = CallsOf
<1>1. PICK r : r = [call[c] EXCEPT !.pc = "built",
                                   !.tx = [op |-> call[c].op, seq |-> rpcSeq + 1,
                                           at |-> <<seqNo, stamp>>]]
    OBVIOUS
<1>2. call[c] \in Call /\ At(c, "reading") /\ call[c].op \in Ops
      /\ rpcSeq \in Nat /\ seqNo \in Nat
    BY AttemptsAssumption DEF Build, MapInv, TxInv, TxTypeOK, InFlightHasTx, At
<1>3. [op |-> call[c].op, seq |-> rpcSeq + 1, at |-> <<seqNo, stamp>>] \in Tx
    BY <1>2, BuiltIsTx
<1>4. /\ r \in Call /\ r.pc = "built" /\ r.op = call[c].op /\ r.since = call[c].since
      /\ call' = [call EXCEPT ![c] = r] /\ UNCHANGED <<pool, handed, landed>> /\ Active(c)
    BY <1>1, <1>2, <1>3 DEF Call, Build, netVars, Active, At
<1>q. QED
    BY <1>4, RunningStays

LEMMA RefusedMaps ==
    ASSUME MapInv, NEW c \in Callers, Refused(c)
    PROVE  Writes!Fail(c) \/ (Held' = Held /\ CallsOf' = CallsOf)
<1>1. /\ call[c] \in Call /\ At(c, "built") /\ Active(c)
      /\ UNCHANGED <<pool, handed, landed>>
    BY DEF Refused, MapInv, TxInv, TxTypeOK, At, Active, netVars
<1>2. CASE call[c].left > 1
  <2> DEFINE r == [call[c] EXCEPT !.pc = "reading", !.left = call[c].left - 1]
  <2>1. call[c].left - 1 \in 0..Attempts
      BY <1>1, <1>2, AttemptsAssumption DEF Call
  <2>2. /\ r \in Call /\ r.pc = "reading" /\ r.op = call[c].op /\ r.since = call[c].since
        /\ call' = [call EXCEPT ![c] = r]
      BY <1>1, <1>2, <2>1 DEF Call, Refused, Retry
  <2> HIDE DEF r
  <2>q. QED
      BY <1>1, <2>2, RunningStays
<1>3. CASE ~(call[c].left > 1)
    BY <1>1, <1>3, ThrowMaps DEF Refused, Retry
<1>q. QED
    BY <1>2, <1>3

LEMMA LaterMaps ==
    ASSUME MapInv, NEW c \in Callers, Later(c)
    PROVE  Held' = Held /\ CallsOf' = CallsOf
<1> DEFINE r == [call[c] EXCEPT !.pc = "waiting"]
<1>1. /\ r \in Call /\ r.pc = "waiting" /\ r.op = call[c].op /\ r.since = call[c].since
      /\ call' = [call EXCEPT ![c] = r] /\ Active(c) /\ UNCHANGED <<pool, handed, landed>>
    BY DEF Later, Goto, MapInv, TxInv, TxTypeOK, Call, Active, At, netVars
<1> HIDE DEF r
<1>q. QED
    BY <1>1, RunningStays

\* A transaction that is confirmed was applied while the call ran.
LEMMA ConfirmedMaps ==
    ASSUME MapInv, NEW c \in Callers, Confirmed(c)
    PROVE  Writes!Succeed(c) \/ Writes!Fail(c)
<1>1. /\ call[c] \in Call /\ At(c, "waiting") /\ Active(c) /\ call[c].tx \in Tx
      /\ UNCHANGED <<pool, handed, landed>>
    BY DEF Confirmed, MapInv, TxInv, TxTypeOK, InFlightHasTx, At, Active, netVars
<1>2. CASE call[c].tx \in reverted /\ Throw(c)
    BY <1>1, <1>2, ThrowMaps
<1>3. CASE call[c].tx \in landed /\ Goto(c, "done")
  <2> DEFINE r == [call[c] EXCEPT !.pc = "done"]
  <2>1. /\ r \in Call /\ r.pc = "done" /\ r.op = call[c].op
        /\ call' = [call EXCEPT ![c] = r]
      BY <1>1, <1>3 DEF Goto, Call
  <2> HIDE DEF r
  <2>2. MineOf(c)' = MineOf(c)
      BY <1>1 DEF MineOf
  <2>3. CallsOf' = [CallsOf EXCEPT ![c].pc = "done", ![c].seen = FALSE]
      BY <1>1, <2>1, <2>2, CallEndsAs
  <2>4. call[c].tx.op = call[c].op /\ call[c].tx.seq > call[c].since
    <3>1. call[c].tx # NoTx /\ call[c].tx.seq \in Nat /\ call[c].tx.at[1] \in Nat
          /\ call[c].since \in Nat
        BY <1>1, TxParts, NoTxAssumption DEF Call
    <3>2. call[c].tx.at[1] < call[c].tx.seq /\ call[c].tx.at[1] >= call[c].since
          /\ call[c].tx.op = call[c].op
        BY <1>3, <3>1 DEF MapInv, TxInv, TakenWasBuilt, CarriedIsOwn
    <3>q. QED
        BY <3>1, <3>2
  <2>5. SeenBy(c)
      BY <1>1, <1>3, <2>4 DEF SeenBy
  <2>6. Held' = Held /\ CallsOf[c].pc = "active" /\ CallsOf[c].seen
      BY <1>1, <2>5, HeldStays DEF CallsOf, CallOf
  <2>q. QED
      BY <2>3, <2>6
         DEF Writes!Succeed, Writes!Is, Writes!Ended, Held, WriteOf, CallsOf, CallOf, SeenBy, MineOf
<1>q. QED
    BY <1>2, <1>3 DEF Confirmed

\* The network takes a transaction: for the call, and for the calls that
\* built the same one, which the network took none of and applied none of.
LEMMA SentMaps ==
    ASSUME MapInv, NEW c \in Callers, Sent(c)
    PROVE  /\ Writes!Taken(c) /\ Active(c)
           /\ MineOf(c)' = MineOf(c) /\ landed' = landed
           /\ \A d \in Callers : d # c => handed'[d] = handed[d]
<1> DEFINE tx == call[c].tx
           D  == {d \in Callers : tx \in handed[d]}
<1>1. /\ At(c, "built") /\ Active(c) /\ tx \in Tx /\ handed[c] = {}
      /\ tx.op = call[c].op /\ tx.seq = seqNo + 1 /\ pool \subseteq {tx}
    BY NoTxAssumption
       DEF Sent, Fits, At, Active, MapInv, TxInv, InFlightHasTx, HandedIsCarried, CarriedIsOwn
<1>2. /\ pool' = {tx} /\ landed' = landed
      /\ handed' = [handed EXCEPT ![c] = {tx}] /\ handed \in [Callers -> SUBSET Tx]
    BY <1>1 DEF Sent, MapInv, TxInv, TxTypeOK
<1>3. tx \notin landed
    BY <1>1, AttemptsAssumption DEF MapInv, LandedIsPast, TxInv, TxTypeOK
<1>4. ASSUME NEW d \in D PROVE call[d].op = call[c].op /\ ~MineOf(d)
  <2>1. handed[d] = {tx} /\ call[d].tx = tx
      BY DEF MapInv, TxInv, HandedIsCarried
  <2>2. call[d].op = tx.op
      BY <1>1, <2>1, NoTxAssumption DEF MapInv, TxInv, CarriedIsOwn
  <2>q. QED
      BY <1>1, <1>3, <2>1, <2>2 DEF MineOf
<1>5. D \in SUBSET {d \in DOMAIN CallsOf : CallsOf[d].op = CallsOf[c].op /\ ~CallsOf[d].mine}
  <2>1. ASSUME NEW d \in D
        PROVE  d \in DOMAIN CallsOf /\ CallsOf[d].op = CallsOf[c].op /\ ~CallsOf[d].mine
      BY <1>4 DEF CallsOf, CallOf
  <2>q. QED
      BY <2>1
<1>6. Held' = {[op |-> CallsOf[c].op, by |-> {c} \cup D]}
  <2>1. {d \in Callers : tx \in handed'[d]} = {c} \cup D
      BY <1>2
  <2>2. Held' = {[op |-> tx.op, by |-> {d \in Callers : tx \in handed'[d]}]}
      BY <1>2 DEF Held, WriteOf
  <2>q. QED
      BY <1>1, <2>1, <2>2 DEF CallsOf, CallOf
<1>7. \A h \in Held : h.op = CallsOf[c].op
    BY <1>1 DEF Held, WriteOf, CallsOf, CallOf
<1>8. CallsOf[c].pc = "active" /\ ~CallsOf[c].mine
    BY <1>1 DEF CallsOf, CallOf, MineOf
<1>9. MineOf(c)' = MineOf(c) /\ \A d \in Callers : d # c => handed'[d] = handed[d]
    BY <1>1, <1>2, <1>3 DEF MineOf
<1> HIDE DEF D
<1>10. \E E \in SUBSET {d \in DOMAIN CallsOf : CallsOf[d].op = CallsOf[c].op /\ ~CallsOf[d].mine} :
           Held' = {[op |-> CallsOf[c].op, by |-> {c} \cup E]}
    BY <1>5, <1>6
<1>11. Writes!Taken(c)
    BY <1>7, <1>8, <1>10
       DEF Writes!Taken, Writes!Sharing, Writes!Is, Held, WriteOf, CallsOf, CallOf, SeenBy, MineOf
<1>q. QED
    BY <1>1, <1>2, <1>9, <1>11

LEMMA AcceptedMaps ==
    ASSUME MapInv, NEW c \in Callers, Accepted(c) PROVE Writes!Take(c)
<1>1. /\ Writes!Taken(c) /\ Active(c) /\ MineOf(c)' = MineOf(c) /\ landed' = landed
      /\ \A d \in Callers : d # c => handed'[d] = handed[d]
    BY SentMaps DEF Accepted
<1>2. /\ \A d \in Callers : d # c => call'[d] = call[d]
      /\ call'[c].pc = "waiting" /\ call'[c].op = call[c].op /\ call'[c].since = call[c].since
    BY DEF Accepted, Goto, MapInv, TxInv, TxTypeOK, Call
<1>3. Active(c)' /\ SeenBy(c)' = SeenBy(c)
    BY <1>1, <1>2 DEF Active, SeenBy
<1>4. CallOf(c)' = CallOf(c)
    BY <1>1, <1>2, <1>3 DEF CallOf
<1>5. \A d \in Callers : CallOf(d)' = CallOf(d)
    BY <1>1, <1>2, <1>4, CallStays
<1>6. CallsOf' = CallsOf
    BY <1>5 DEF CallsOf
<1>q. QED
    BY <1>1, <1>6 DEF Writes!Take, CallsOf, CallOf, SeenBy, MineOf

LEMMA AnswerLostMaps ==
    ASSUME MapInv, NEW c \in Callers, AnswerLost(c) PROVE Writes!TakeAndFail(c)
<1>1. /\ Writes!Taken(c) /\ Active(c) /\ MineOf(c)' = MineOf(c) /\ landed' = landed
      /\ \A d \in Callers : d # c => handed'[d] = handed[d]
    BY SentMaps DEF AnswerLost
<1>2. PICK r \in Call : /\ call' = [call EXCEPT ![c] = r]
                        /\ r.pc = "failed" /\ r.op = call[c].op
    BY ThrowType DEF AnswerLost, MapInv, TxInv, TxTypeOK
<1>3. CallsOf' = [CallsOf EXCEPT ![c].pc = "failed", ![c].seen = FALSE]
    BY <1>1, <1>2, CallEndsAs
<1>q. QED
    BY <1>1, <1>3 DEF Writes!TakeAndFail, Writes!Ended, CallsOf, CallOf, SeenBy, MineOf

\* A call begins: nothing was seen of it, and nothing is its own.
LEMMA InvokeMaps ==
    ASSUME MapInv, NEW c \in Callers, NEW op \in Ops, Invoke(c, op) PROVE Writes!Start(c, op)
<1>1. /\ call[c].pc \in {"idle", "done", "failed"}
      /\ call' = [call EXCEPT ![c] = [pc |-> "reading", left |-> Attempts, since |-> seqNo,
                                       op |-> op, tx |-> NoTx]]
      /\ handed' = [handed EXCEPT ![c] = {}] /\ UNCHANGED <<pool, landed>>
    BY DEF Invoke, Begin, netVars
<1>2. call \in [Callers -> Call] /\ handed \in [Callers -> SUBSET Tx]
    BY DEF MapInv, TxInv, TxTypeOK
<1>3. /\ call'[c].pc = "reading" /\ call'[c].op = op /\ call'[c].since = seqNo
      /\ handed'[c] = {}
      /\ \A d \in Callers : d # c => call'[d] = call[d] /\ handed'[d] = handed[d]
    BY <1>1, <1>2
<1>4. Active(c)' /\ MineOf(c)' = FALSE
    BY <1>3 DEF Active, MineOf
<1>5. SeenBy(c)' = FALSE
  <2>1. seqNo \in Nat /\ \A t \in landed : t.seq \in Nat /\ t.seq <= seqNo
      BY TxParts, AttemptsAssumption DEF MapInv, LandedIsPast, TxInv, TxTypeOK
  <2>q. QED
      BY <1>1, <1>3, <2>1 DEF SeenBy
<1>6. CallOf(c)' = [pc |-> "active", op |-> op, seen |-> FALSE, mine |-> FALSE]
    BY <1>3, <1>4, <1>5 DEF CallOf
<1>7. \A d \in Callers : d # c => CallOf(d)' = CallOf(d)
    BY <1>1, <1>3, CallStays
<1>8. CallsOf' = [CallsOf EXCEPT ![c] = [pc |-> "active", op |-> op, seen |-> FALSE,
                                         mine |-> FALSE]]
    BY <1>6, <1>7 DEF CallsOf
<1>9. [Writes!Resting EXCEPT !.pc = "active", !.op = op]
        = [pc |-> "active", op |-> op, seen |-> FALSE, mine |-> FALSE]
  <2>1. PICK no, pc : no = FALSE /\ pc = "active"
      OBVIOUS
  <2>2. [[pc |-> "idle", op |-> NoTx, seen |-> no, mine |-> no] EXCEPT !.pc = pc]
          = [pc |-> pc, op |-> NoTx, seen |-> no, mine |-> no]
      OBVIOUS
  <2>3. [[pc |-> pc, op |-> NoTx, seen |-> no, mine |-> no] EXCEPT !.op = op]
          = [pc |-> pc, op |-> op, seen |-> no, mine |-> no]
      OBVIOUS
  <2>4. [Writes!Resting EXCEPT !.pc = pc, !.op = op]
          = [[Writes!Resting EXCEPT !.pc = pc] EXCEPT !.op = op]
      OBVIOUS
  <2>5. Writes!Resting = [pc |-> "idle", op |-> NoTx, seen |-> no, mine |-> no]
      BY <2>1 DEF Writes!Resting
  <2>q. QED
      BY <2>1, <2>2, <2>3, <2>4, <2>5, Zenon
<1>10. CallsOf' = [CallsOf EXCEPT ![c] = [Writes!Resting EXCEPT !.pc = "active", !.op = op]]
    BY <1>8, <1>9
<1>11. ~(CallsOf[c].pc = "active")
    BY <1>1 DEF CallsOf, CallOf, Active
<1>12. Held' = {[h EXCEPT !.by = @ \ {c}] : h \in Held}
  <2>1. ASSUME NEW tx \in pool
        PROVE  WriteOf(tx)' = [WriteOf(tx) EXCEPT !.by = @ \ {c}]
    <3>1. PICK o, S : o = tx.op /\ S = {d \in Callers : tx \in handed[d]}
        OBVIOUS
    <3>2. {d \in Callers : tx \in handed'[d]} = S \ {c}
        BY <1>3, <3>1
    <3>3. WriteOf(tx)' = [op |-> o, by |-> S \ {c}] /\ WriteOf(tx) = [op |-> o, by |-> S]
        BY <3>1, <3>2 DEF WriteOf
    <3>4. [[op |-> o, by |-> S] EXCEPT !.by = @ \ {c}] = [op |-> o, by |-> S \ {c}]
        OBVIOUS
    <3>q. QED
        BY <3>3, <3>4
  <2>2. \A x : x \in Held' <=> \E tx \in pool : x = WriteOf(tx)'
      BY <1>1 DEF Held
  <2>3. \A x : x \in {[h EXCEPT !.by = @ \ {c}] : h \in Held}
              <=> \E tx \in pool : x = [WriteOf(tx) EXCEPT !.by = @ \ {c}]
      BY DEF Held
  <2>4. \A x : x \in Held' <=> x \in {[h EXCEPT !.by = @ \ {c}] : h \in Held}
    <3>1. ASSUME NEW x
          PROVE  (\E tx \in pool : x = WriteOf(tx)')
                    <=> (\E tx \in pool : x = [WriteOf(tx) EXCEPT !.by = @ \ {c}])
        BY <2>1, Zenon
    <3>q. QED
        BY <2>2, <2>3, <3>1, Zenon
  <2>q. QED
      BY <2>4
<1>q. QED
    BY <1>10, <1>11, <1>12
       DEF Writes!Start, Writes!Is, Writes!Disown, Held, WriteOf, CallsOf, CallOf, SeenBy, MineOf

\* A transaction is applied: the calls it was taken of have theirs, and the
\* calls that run for the same operation have seen it.
LEMMA LandMaps ==
    ASSUME MapInv, NEW tx \in pool, NEW h, h = WriteOf(tx), Land(tx) PROVE Writes!Applied(h)
<1>1. /\ pool' = {} /\ landed' = landed \cup {tx} /\ UNCHANGED <<call, handed>>
      /\ tx \in Tx /\ tx.seq = seqNo + 1
    BY DEF Land, Close, MapInv, TxInv, TxTypeOK
<1>2. Held' = {}
    BY <1>1 DEF Held
<1>3. ASSUME NEW c \in Callers
      PROVE  /\ CallsOf[c] = CallOf(c) /\ CallsOf[c].op = call[c].op
             /\ CallsOf[c].mine <=> MineOf(c)
             /\ CallsOf[c].seen <=> SeenBy(c)
             /\ CallsOf[c].pc = "active" <=> Active(c)
  <2>1. CallsOf[c] = CallOf(c)
      BY DEF CallsOf
  <2>2. call[c].pc # "active"
      BY DEF MapInv, TxInv, TxTypeOK, Call
  <2>3. CallOf(c).mine = MineOf(c) /\ CallOf(c).seen = SeenBy(c) /\ CallOf(c).op = call[c].op
      BY DEF CallOf
  <2>4. CallOf(c).pc = "active" <=> Active(c)
      BY <2>2 DEF CallOf
  <2>q. QED
      BY <2>1, <2>3, <2>4
<1>4. h.op = tx.op /\ DOMAIN CallsOf = Callers
    BY DEF WriteOf, CallsOf
<1>5. ASSUME NEW c \in Callers
      PROVE  CallOf(c)'
               = [CallsOf[c] EXCEPT !.mine = CallsOf[c].mine \/ c \in h.by,
                                    !.seen = CallsOf[c].seen
                                             \/ (CallsOf[c].pc = "active"
                                                 /\ h.op = CallsOf[c].op)]
  <2>1. MineOf(c)' <=> MineOf(c) \/ c \in h.by
      BY <1>1 DEF MineOf, WriteOf
  <2>2. SeenBy(c)' <=> SeenBy(c) \/ (Active(c) /\ tx.op = call[c].op)
    <3>1. call[c].since \in Nat /\ call[c].since <= seqNo /\ seqNo \in Nat
        BY AttemptsAssumption DEF MapInv, TxInv, TxTypeOK, SinceIsPast, Call
    <3>2. tx.seq > call[c].since
        BY <1>1, <3>1
    <3>q. QED
        BY <1>1, <3>2 DEF SeenBy, Active
  <2>3. PICK p, o, s, m, n, t :
            /\ p = (IF Active(c) THEN "active" ELSE call[c].pc) /\ o = call[c].op
            /\ s = SeenBy(c) /\ m = MineOf(c)
            /\ n = (CallsOf[c].mine \/ c \in h.by)
            /\ t = (CallsOf[c].seen
                      \/ (CallsOf[c].pc = "active" /\ h.op = CallsOf[c].op))
      OBVIOUS
  <2>4. CallsOf[c] = [pc |-> p, op |-> o, seen |-> s, mine |-> m]
      BY <1>3, <2>3 DEF CallOf
  <2>5. MineOf(c)' = n /\ SeenBy(c)' = t /\ (Active(c)' <=> Active(c))
    <3>1. MineOf(c)' \in BOOLEAN /\ SeenBy(c)' \in BOOLEAN
        BY DEF MineOf, SeenBy, Active
    <3>2. MineOf(c)' = n
        BY <1>3, <2>1, <2>3, <3>1
    <3>3. SeenBy(c)' = t
        BY <1>3, <1>4, <2>2, <2>3, <3>1
    <3>q. QED
        BY <1>1, <3>2, <3>3 DEF Active
  <2>6. CallOf(c)' = [pc |-> p, op |-> o, seen |-> t, mine |-> n]
      BY <1>1, <2>3, <2>5 DEF CallOf
  <2>7. [[pc |-> p, op |-> o, seen |-> s, mine |-> m] EXCEPT !.mine = n]
          = [pc |-> p, op |-> o, seen |-> s, mine |-> n]
      OBVIOUS
  <2>8. [[pc |-> p, op |-> o, seen |-> s, mine |-> n] EXCEPT !.seen = t]
          = [pc |-> p, op |-> o, seen |-> t, mine |-> n]
      OBVIOUS
  <2>9. [CallsOf[c] EXCEPT !.mine = n, !.seen = t]
          = [[CallsOf[c] EXCEPT !.mine = n] EXCEPT !.seen = t]
      OBVIOUS
  <2>10. CallOf(c)' = [CallsOf[c] EXCEPT !.mine = n, !.seen = t]
      BY <2>4, <2>6, <2>7, <2>8, <2>9, Zenon
  <2>q. QED
      BY <2>3, <2>10, Zenon
<1>6. CallsOf' = [c \in DOMAIN CallsOf |->
           [CallsOf[c] EXCEPT !.mine = CallsOf[c].mine \/ c \in h.by,
                              !.seen = CallsOf[c].seen
                                       \/ (CallsOf[c].pc = "active"
                                           /\ h.op = CallsOf[c].op)]]
  <2> DEFINE After(c) ==
           [CallsOf[c] EXCEPT !.mine = CallsOf[c].mine \/ c \in h.by,
                              !.seen = CallsOf[c].seen
                                       \/ (CallsOf[c].pc = "active"
                                           /\ h.op = CallsOf[c].op)]
  <2>1. \A c \in Callers : CallOf(c)' = After(c)
      BY <1>5
  <2> HIDE DEF After
  <2>2. CallsOf' = [c \in Callers |-> After(c)]
      BY <2>1 DEF CallsOf
  <2>3. CallsOf' = [c \in DOMAIN CallsOf |-> After(c)]
      BY <1>4, <2>2
  <2>q. QED
      BY <2>3 DEF After
<1>q. QED
    BY <1>2, <1>6
       DEF Writes!Applied, Writes!Is, Held, WriteOf, CallsOf, CallOf, SeenBy, MineOf

\* A transaction that fails or expires is a write that is dropped.
LEMMA DroppedMaps ==
    ASSUME MapInv, NEW tx \in pool, NEW h, Revert(tx) \/ Expire(tx) PROVE Writes!Dropped(h)
<1>1. pool' = {} /\ UNCHANGED <<call, handed, landed>>
    BY DEF Revert, Expire, Close, MapInv, TxInv, TxTypeOK
<1>2. Held' = {}
    BY <1>1 DEF Held
<1>3. \A c \in Callers : CallOf(c)' = CallOf(c)
    BY <1>1, CallStays
<1>4. CallsOf' = CallsOf
    BY <1>3 DEF CallsOf
<1>q. QED
    BY <1>2, <1>4 DEF Writes!Dropped, Held, WriteOf, CallsOf, CallOf, SeenBy, MineOf

LEMMA WritesStart == TxInit => Writes!WritesInit
<1> SUFFICES ASSUME TxInit PROVE Writes!WritesInit
    OBVIOUS
<1>1. pool = {} /\ landed = {} /\ \A c \in Callers : call[c] = Idle /\ handed[c] = {}
    BY DEF TxInit
<1>2. Held = {}
    BY <1>1 DEF Held
<1>3. ASSUME NEW c \in Callers PROVE CallOf(c) = Writes!Resting
  <2>1. SeenBy(c) = FALSE /\ MineOf(c) = FALSE /\ ~Active(c)
      BY <1>1 DEF SeenBy, MineOf, Active, Idle
  <2>2. PICK no : no = FALSE
      OBVIOUS
  <2>3. SeenBy(c) = no /\ MineOf(c) = no
      BY <2>1, <2>2, Zenon
  <2>4. CallOf(c) = [pc |-> "idle", op |-> NoTx, seen |-> no, mine |-> no]
      BY <1>1, <2>1, <2>3 DEF CallOf, Idle
  <2>5. Writes!Resting = [pc |-> "idle", op |-> NoTx, seen |-> no, mine |-> no]
      BY <2>2 DEF Writes!Resting
  <2>q. QED
      BY <2>4, <2>5
<1>4. CallsOf = [c \in Callers |-> Writes!Resting]
    BY <1>3 DEF CallsOf
<1>q. QED
    BY <1>2, <1>4 DEF Writes!WritesInit, Held, WriteOf, CallsOf, CallOf, SeenBy, MineOf

\* A step that neither writer nor network can tell from none.
LEMMA StutterMaps ==
    ASSUME Held' = Held, CallsOf' = CallsOf PROVE UNCHANGED Writes!writeVars
BY DEF Writes!writeVars, Held, WriteOf, CallsOf, CallOf, SeenBy, MineOf

LEMMA WritesStep == MapInv /\ [TxNext]_txVars => [Writes!WritesNext]_(Writes!writeVars)
<1> SUFFICES ASSUME MapInv, [TxNext]_txVars
             PROVE  Writes!WritesNext \/ UNCHANGED Writes!writeVars
    OBVIOUS
<1>1. ASSUME NEW c \in Callers, CallStep(c)
      PROVE  Writes!Progress(c) \/ UNCHANGED Writes!writeVars
  <2>1. CASE \E stamp \in Stamps : Build(c, stamp)
      BY <2>1, BuildMaps, StutterMaps
  <2>2. CASE Refused(c)
      BY <2>2, RefusedMaps, StutterMaps DEF Writes!Progress
  <2>3. CASE Accepted(c) \/ AnswerLost(c)
      BY <2>3, AcceptedMaps, AnswerLostMaps DEF Writes!Progress
  <2>4. CASE Later(c)
      BY <2>4, LaterMaps, StutterMaps
  <2>5. CASE Abort(c) \/ GiveUp(c)
    <3>1. Active(c) /\ Throw(c) /\ UNCHANGED <<pool, handed, landed>>
        BY <2>5 DEF Abort, GiveUp, At, Active, netVars
    <3>q. QED
        BY <3>1, ThrowMaps DEF Writes!Progress
  <2>6. CASE Confirmed(c)
      BY <2>6, ConfirmedMaps DEF Writes!Progress
  <2>q. QED
      BY <1>1, <2>1, <2>2, <2>3, <2>4, <2>5, <2>6 DEF CallStep
<1>2. ASSUME NEW c \in Callers, NEW op \in Ops, Invoke(c, op) PROVE Writes!Start(c, op)
    BY <1>2, InvokeMaps
<1>3. ASSUME NEW tx \in pool, Land(tx) \/ Revert(tx) \/ Expire(tx) PROVE Writes!WritesNext
  <2>1. PICK h \in {[op |-> u.op, by |-> {c \in Callers : u \in handed[c]}] : u \in pool} :
            h = WriteOf(tx)
      BY DEF WriteOf
  <2>2. Writes!Applied(h) \/ Writes!Dropped(h)
      BY <1>3, <2>1, LandMaps, DroppedMaps
  <2>q. QED
      BY <2>1, <2>2, Zenon DEF Writes!WritesNext
<1>4. CASE CatchUp \/ UNCHANGED txVars
  <2>1. UNCHANGED <<pool, call, handed, landed>>
      BY <1>4 DEF CatchUp, txVars, netVars
  <2>2. \A c \in Callers : CallOf(c)' = CallOf(c)
      BY <2>1, CallStays
  <2>3. Held' = Held /\ CallsOf' = CallsOf
      BY <2>1, <2>2, HeldStays DEF CallsOf
  <2>q. QED
      BY <2>3, StutterMaps
<1>q. QED
    BY <1>1, <1>2, <1>3, <1>4 DEF TxNext, Writes!WritesNext

LEMMA MapInvAlways == TxSpec => []MapInv
BY MapInitInv, MapStepInv, PTL DEF TxSpec

\* The transactions of the admin account are the writes the handlers rely on:
\* one on its way at a time, applied at most once on a call's behalf, and seen
\* applied by every call that returns (sorobanAdmin.js lines 53-107).
THEOREM AdminTxImplementsWrites == TxSpec => ImplementsWrites
BY WritesStart, WritesStep, MapInvAlways, PTL DEF TxSpec, ImplementsWrites, Writes!WritesSpec

-----------------------------------------------------------------------------
(* Calls are short: what CallsEnd rests on besides the answers of the RPC   *)
(* server and of Horizon.                                                  *)

\* What a call may still do: turns of its loop, and steps of this turn.
Fuel(r) ==
    CASE r.pc = "reading" -> 3 * r.left + 3
      [] r.pc = "built"   -> 3 * r.left + 2
      [] r.pc = "waiting" -> 3 * r.left + 1
      [] OTHER            -> 0

\* A step of a call uses up fuel, whatever the other callers and the network do
\* in between, and nothing but a new call provides any.
CallShrinks(c) ==
    /\ Fuel(call[c]) <= 3 * Attempts + 3
    /\ CallStep(c) => Fuel(call'[c]) < Fuel(call[c])
    /\ Active(c) => Fuel(call'[c]) <= Fuel(call[c])

LEMMA FuelIs ==
    ASSUME NEW r \in Call
    PROVE  /\ Fuel(r) \in 0..(3 * Attempts + 3)
           /\ r.pc \in {"reading", "built", "waiting"} => Fuel(r) > 0
           /\ r.pc \notin {"reading", "built", "waiting"} => Fuel(r) = 0
BY AttemptsAssumption DEF Fuel, Call

\* A throw and a return end it, whatever else they leave.
LEMMA EndedShrinks ==
    ASSUME TxInv, NEW c \in Callers, NEW pc \in {"done", "failed"},
           Active(c), Goto(c, pc) \/ (pc = "failed" /\ Throw(c))
    PROVE  Fuel(call'[c]) < Fuel(call[c])
<1>1. call \in [Callers -> Call] /\ call[c] \in Call
    BY DEF TxInv, TxTypeOK
<1>2. call'[c].pc = pc
    BY <1>1 DEF Goto, Throw, Call
<1>3. Fuel(call'[c]) = 0
    BY <1>2 DEF Fuel
<1>q. QED
    BY <1>1, <1>3, FuelIs DEF Active

LEMMA RetryShrinks ==
    ASSUME TxInv, NEW c \in Callers, At(c, "built"), Retry(c)
    PROVE  Fuel(call'[c]) < Fuel(call[c])
<1>1. call \in [Callers -> Call] /\ call[c] \in Call /\ call[c].left \in Nat
    BY AttemptsAssumption DEF TxInv, TxTypeOK, Call
<1>2. CASE Throw(c)
    BY <1>2, EndedShrinks DEF At, Active
<1>3. CASE call' = [call EXCEPT ![c].pc = "reading", ![c].left = @ - 1] /\ call[c].left > 1
  <2>1. call'[c].pc = "reading" /\ call'[c].left = call[c].left - 1
      BY <1>1, <1>3 DEF Call
  <2>q. QED
      BY <1>1, <2>1 DEF Fuel, At
<1>q. QED
    BY <1>2, <1>3 DEF Retry

LEMMA StepShrinks ==
    ASSUME TxInv, NEW c \in Callers, CallStep(c)
    PROVE  /\ Fuel(call'[c]) < Fuel(call[c])
           /\ \A d \in Callers \ {c} : call'[d] = call[d]
<1>1. call \in [Callers -> Call] /\ call[c] \in Call /\ call[c].left \in Nat
    BY AttemptsAssumption DEF TxInv, TxTypeOK, Call
<1>2. \A d \in Callers \ {c} : call'[d] = call[d]
    BY <1>1 DEF CallStep, Build, Refused, Accepted, AnswerLost, Later, Abort, Confirmed, GiveUp,
                Goto, Throw, Retry
<1>3. ASSUME NEW stamp \in Stamps, Build(c, stamp) PROVE Fuel(call'[c]) < Fuel(call[c])
  <2>1. call'[c].pc = "built" /\ call'[c].left = call[c].left
      BY <1>1, <1>3 DEF Build, Call
  <2>q. QED
      BY <1>1, <1>3, <2>1 DEF Build, Fuel, At
<1>4. CASE At(c, "built") /\ Goto(c, "waiting")
  <2>1. call'[c].pc = "waiting" /\ call'[c].left = call[c].left
      BY <1>1, <1>4 DEF Goto, Call
  <2>q. QED
      BY <1>1, <1>2, <1>4, <2>1 DEF Fuel, At
<1>5. CASE Active(c) /\ (Goto(c, "done") \/ Throw(c))
    BY <1>2, <1>5, EndedShrinks
<1>6. CASE Refused(c)
    BY <1>2, <1>6, RetryShrinks DEF Refused
<1>q. QED
    BY <1>2, <1>3, <1>4, <1>5, <1>6
       DEF CallStep, Accepted, AnswerLost, Sent, Later, Abort, Confirmed, GiveUp, Active, At

LEMMA ActionShrinks == TxInv /\ [TxNext]_txVars => \A c \in Callers : CallShrinks(c)
<1> SUFFICES ASSUME TxInv, [TxNext]_txVars, NEW c \in Callers PROVE CallShrinks(c)
    OBVIOUS
<1>1. call \in [Callers -> Call] /\ call[c] \in Call
    BY DEF TxInv, TxTypeOK
<1>2. call'[c] = call[c] => Fuel(call'[c]) <= Fuel(call[c])
    BY <1>1, AttemptsAssumption, FuelIs
<1>3. Active(c) => Fuel(call'[c]) <= Fuel(call[c])
  <2>1. ASSUME NEW d \in Callers, CallStep(d) PROVE Active(c) => Fuel(call'[c]) <= Fuel(call[c])
    <3>1. d = c \/ call'[c] = call[c]
        BY <2>1, StepShrinks
    <3>2. CASE d = c
      <4>1. Fuel(call'[c]) < Fuel(call[c])
          BY <2>1, <3>2, StepShrinks
      <4>2. call' \in [Callers -> Call]
          BY TxStepInv DEF TxInv, TxTypeOK
      <4>q. QED
          BY <1>1, <4>1, <4>2, AttemptsAssumption, FuelIs
    <3>q. QED
        BY <1>2, <3>1, <3>2
  <2>2. ASSUME NEW d \in Callers, NEW op \in Ops, Invoke(d, op)
        PROVE  Active(c) => Fuel(call'[c]) <= Fuel(call[c])
    <3>1. Active(c) => d # c
        BY <2>2 DEF Invoke, Active
    <3>2. d # c => call'[c] = call[c]
        BY <1>1, <2>2 DEF Invoke, Begin
    <3>q. QED
        BY <1>2, <3>1, <3>2
  <2>3. CASE (\E tx \in pool : Land(tx) \/ Revert(tx) \/ Expire(tx)) \/ CatchUp \/ UNCHANGED txVars
      BY <1>2, <2>3 DEF Land, Revert, Close, Expire, CatchUp, txVars
  <2>q. QED
      BY <2>1, <2>2, <2>3 DEF TxNext
<1>4. Fuel(call[c]) <= 3 * Attempts + 3
    BY <1>1, AttemptsAssumption, FuelIs
<1>q. QED
    BY <1>3, <1>4, StepShrinks DEF CallShrinks

\* A call ends after a number of its own steps that only the retry limit sets:
\* the safety half of CallsEnd (invokeAdminContract lines 58-101).
THEOREM CallsAreShort == TxSpec => [][\A c \in Callers : CallShrinks(c)]_txVars
<1>1. TxSpec => []TxInv
    BY TxInitInv, TxStepInv, PTL DEF TxSpec
<1>2. TxInv /\ [TxNext]_txVars => [\A c \in Callers : CallShrinks(c)]_txVars
    BY ActionShrinks
<1>q. QED
    BY <1>1, <1>2, PTL DEF TxSpec
=============================================================================
