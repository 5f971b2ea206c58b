-------------------------- MODULE CtAccountProofs --------------------------
(* Theorems about the confidential-token client, for any number of tabs,   *)
(* any history of the account, and any number of polls and margin.         *)
EXTENDS CtAccount, WellFoundedInduction, TLAPS

-----------------------------------------------------------------------------
(* The inductive invariant.                                                *)

Pcs    == {"idle", "sync", "loaded", "synced", "rebuild", "rebuilt", "verify", "check", "again",
           "submit", "await"}
Stages == {"none", "register", "sync", "recv", "deposit", "merge", "spend"}

Runs == [flow : Flows \cup {"none"}, stage : Stages, pc : Pcs, amount : Nat, due : Nat,
         st : Caches, prior : Caches, tries : Nat, alone : BOOLEAN, calm : BOOLEAN]

\* What a transaction is, once it is in flight.
SentOK(op) ==
    /\ op.at \in 0..Tip
    /\ op.type \in Spends => op.using.v >= op.x
    /\ op.at # 0 => log[op.at].type = op.type

\* A flow and its transaction.
FlowOK(r, op) ==
    /\ r.st.cur <= seen /\ r.prior.cur <= seen
    /\ r.pc = "await" => op # None /\ (r.stage = "spend" <=> op.type \in Spends)
    /\ r.pc = "submit" => r.stage \in {"register", "deposit", "merge", "spend"}
    /\ r.pc = "submit" /\ r.stage = "spend" => r.st.sp.v >= r.amount

TypesOK ==
    /\ log \in Seq(Events) /\ (log # <<>> => log[1].type = "register")
    /\ seen \in 0..Tip /\ room \in Nat
    /\ floor \in {0} \cup Floors /\ (floor > 0 => Seam <= seen)
    /\ store \in Caches /\ store.cur <= seen
    /\ run \in [Actors -> Runs] /\ pool \in [Actors -> Transactions \cup {None}]
    /\ lost \in BOOLEAN /\ late \in BOOLEAN
    /\ \A p \in Actors :
         /\ run[p].flow \in FlowsOf[p] \cup {"none"}
         /\ FlowOK(run[p], pool[p])
         /\ pool[p] # None => SentOK(pool[p])

\* The openings after each ledger of a log.
Truth(l) == Replay(l, Fresh, DOMAIN l)

SpendIn(l, i, j) == \E k \in i..j : l[k].type \in Spends

\* A cache whose later events, replayed, give the truth: it is right about its
\* cursor's ledger, or about the receiving balance and a later spend sets the other.
Good(l, b) ==
    /\ b.rcv = Truth(l)[b.cur].rcv
    /\ b.sp = Truth(l)[b.cur].sp \/ SpendIn(l, b.cur + 1, Len(l))

CachesOK ==
    lost \/ late \/ (/\ Good(log, store)
                     /\ \A p \in Actors : Good(log, run[p].st) /\ Good(log, run[p].prior))

\* What a flow is about to spend, or spends, if it was alone.
HeldOK(r, op, sp) ==
    /\ r.alone /\ r.pc = "submit" /\ r.stage = "spend" => r.st.sp = sp
    /\ r.alone /\ r.pc = "again" /\ r.flow = "settle" => r.st.sp = sp
    /\ r.alone /\ r.pc = "await" /\ op.type \in Spends /\ op.at = 0 => op.using = sp

SpendsOK == \A p \in Actors : HeldOK(run[p], pool[p], Truth(log)[Tip].sp)

\* A read while nothing happens: what it rebuilds is the truth.
CalmOK(r, sp, gone) ==
    r.calm =>
        /\ seen = Tip /\ r.flow = "read" /\ r.stage = "sync"
        /\ r.pc \in {"sync", "loaded", "synced", "rebuild", "rebuilt", "verify", "check"}
        /\ gone \/ (r.pc \in {"rebuilt", "check"} => r.st.sp = sp)
        /\ gone \/ r.tries = 0 \/ r.pc \in {"rebuild", "rebuilt", "check"}

ReadsOK == \A p \in Actors : CalmOK(run[p], Truth(log)[Tip].sp, lost)

CtInv == TypesOK /\ CachesOK /\ SpendsOK /\ ReadsOK

-----------------------------------------------------------------------------
(* Replaying a log.                                                        *)

\* Induction over an interval, for a set.
LEMMA IntervalInduction ==
    ASSUME NEW N \in Nat, NEW T, 0 \in T,
           \A n \in 1..N : n - 1 \in T => n \in T
    PROVE  0..N \subseteq T
<1> DEFINE R == {ss \in Nat \X Nat : ss[1] < ss[2]}
           S == (0..N) \ T
<1>1. SUFFICES ASSUME S # {} PROVE FALSE
  OBVIOUS
<1>2. PICK x \in S : \A y \in S : ~ (<<y, x>> \in R)
  <2>1. S \subseteq Nat
    OBVIOUS
  <2>2. IsWellFoundedOn(R, Nat)
    BY NatLessThanWellFounded DEF R, OpToRel
  <2> HIDE DEF S, R
  <2>3. QED
    BY <1>1, <2>1, <2>2, WFMin
<1>3. x \in 1..N /\ x - 1 \in 0..N
  <2>1. x \in 0..N /\ x # 0
    OBVIOUS
  <2>2. QED
    BY <2>1
<1>4. x - 1 \notin S
  <2>1. SUFFICES ASSUME x - 1 \in S PROVE FALSE
    OBVIOUS
  <2>2. <<x - 1, x>> \in R
    BY <1>3
  <2>3. QED
    BY <1>2, <2>1, <2>2
<1>5. QED
  BY <1>3, <1>4

\* Replay is the function its definition says: there is one.
After0(l, b, ledgers, f, n) ==
    IF n = 0 THEN b
    ELSE IF n \in ledgers THEN Apply(f[n - 1], l[n], n)
    ELSE f[n - 1]

LEMMA ReplayIsAFunction ==
    ASSUME NEW l, Len(l) \in Nat, NEW b, NEW ledgers
    PROVE  Replay(l, b, ledgers) =
               [n \in 0..Len(l) |-> After0(l, b, ledgers, Replay(l, b, ledgers), n)]
<1> DEFINE N == Len(l)
           F(f, m) == [n \in 0..m |-> After0(l, b, ledgers, f, n)]
           T == {m \in 0..N : \E f : f = F(f, m)}
<1>1. 0 \in T
  <2> DEFINE f == [n \in 0..0 |-> b]
  <2>1. f = F(f, 0)
    BY DEF After0
  <2>2. QED
    BY <2>1
<1>2. ASSUME NEW m \in 1..N, m - 1 \in T PROVE m \in T
  <2>1. PICK f : f = F(f, m - 1)
    BY <1>2
  <2> DEFINE g == [n \in 0..m |-> IF n = m THEN After0(l, b, ledgers, f, m) ELSE f[n]]
  <2>2. ASSUME NEW n \in 0..m PROVE g[n] = After0(l, b, ledgers, g, n)
    <3>1. CASE n = m
      <4>1. g[m - 1] = f[m - 1] /\ m # 0
        OBVIOUS
      <4>2. After0(l, b, ledgers, g, m) = After0(l, b, ledgers, f, m)
        BY <4>1 DEF After0
      <4>3. QED
        BY <3>1, <4>2
    <3>2. CASE n # m
      <4>1. n \in 0..(m - 1) /\ (n # 0 => n - 1 \in 0..m /\ n - 1 # m)
        BY <3>2
      <4>2. g[n] = f[n] /\ (n # 0 => g[n - 1] = f[n - 1])
        BY <4>1, <3>2
      <4>3. f[n] = After0(l, b, ledgers, f, n)
        <5> HIDE DEF g
        <5>1. F(f, m - 1)[n] = After0(l, b, ledgers, f, n)
          BY <4>1
        <5>2. QED
          BY <2>1, <5>1
      <4>4. After0(l, b, ledgers, g, n) = After0(l, b, ledgers, f, n)
        BY <4>2 DEF After0
      <4>5. QED
        BY <4>2, <4>3, <4>4
    <3>3. QED
      BY <3>1, <3>2
  <2>3. g = F(g, m)
    BY <2>2
  <2>4. QED
    <3> HIDE DEF g
    <3>1. QED
      BY <2>3
<1>3. \E f : f = F(f, N)
  <2>1. 0..N \subseteq T
    <3> HIDE DEF T
    <3>1. QED
      BY <1>1, <1>2, IntervalInduction
  <2>2. QED
    BY <2>1
<1>4. Replay(l, b, ledgers) = CHOOSE f : f = F(f, N)
  BY DEF Replay, After0
<1>5. QED
  BY <1>3, <1>4

\* So each turn of it applies one event, or none.
LEMMA ReplaySteps ==
    ASSUME NEW l, Len(l) \in Nat, NEW b, NEW ledgers
    PROVE  /\ Replay(l, b, ledgers)[0] = b
           /\ \A n \in 1..Len(l) :
                 Replay(l, b, ledgers)[n] =
                     IF n \in ledgers THEN Apply(Replay(l, b, ledgers)[n - 1], l[n], n)
                     ELSE Replay(l, b, ledgers)[n - 1]
<1> DEFINE f == Replay(l, b, ledgers)
<1>1. f = [n \in 0..Len(l) |-> After0(l, b, ledgers, f, n)]
  BY ReplayIsAFunction
<1> HIDE DEF f
<1>2. \A n \in 0..Len(l) : f[n] = After0(l, b, ledgers, f, n)
  BY <1>1
<1>3. f[0] = b
  BY <1>2 DEF After0
<1>4. ASSUME NEW n \in 1..Len(l)
      PROVE  f[n] = IF n \in ledgers THEN Apply(f[n - 1], l[n], n) ELSE f[n - 1]
  BY <1>2 DEF After0
<1>5. QED
  BY <1>3, <1>4 DEF f

\* What one event does to the openings.
LEMMA ApplyType ==
    ASSUME NEW b \in Caches, NEW e \in Events, NEW i \in Nat
    PROVE  Apply(b, e, i) \in Caches /\ Apply(b, e, i).cur = b.cur
<1>1. b.sp \in Openings /\ b.rcv \in Openings /\ e.x \in Nat
  BY DEF Caches, Events
<1>2. /\ Zero \in Openings
      /\ [v |-> b.rcv.v + e.x, r |-> b.rcv.r] \in Openings
      /\ [[v |-> b.rcv.v + e.x, r |-> b.rcv.r] EXCEPT !.r = @ \cup {i}] \in Openings
      /\ [v |-> b.sp.v + b.rcv.v, r |-> b.sp.r \cup b.rcv.r] \in Openings
      /\ [v |-> e.x, r |-> {i}] \in Openings
  BY <1>1 DEF Openings, Zero
<1>4. \A o \in Openings : [b EXCEPT !.rcv = o] \in Caches /\ [b EXCEPT !.rcv = o].cur = b.cur
  BY DEF Caches
<1>5. \A o \in Openings : [b EXCEPT !.sp = o] \in Caches /\ [b EXCEPT !.sp = o].cur = b.cur
  BY DEF Caches
<1>7. CASE e.type = "deposit"
  <2> DEFINE o == [v |-> b.rcv.v + e.x, r |-> b.rcv.r]
  <2>1. Apply(b, e, i) = [b EXCEPT !.rcv = o]
    BY <1>7 DEF Apply, Spends
  <2>2. o \in Openings
    BY <1>2
  <2> HIDE DEF o
  <2>3. QED
    BY <1>2, <1>4, <2>1, <2>2
<1>8. CASE e.type = "credit"
  <2> DEFINE o == [[v |-> b.rcv.v + e.x, r |-> b.rcv.r] EXCEPT !.r = @ \cup {i}]
  <2>1. Apply(b, e, i) = [b EXCEPT !.rcv = o]
    BY <1>8 DEF Apply, Spends
  <2>2. o \in Openings
    BY <1>2
  <2> HIDE DEF o
  <2>3. QED
    BY <1>2, <1>4, <2>1, <2>2
<1>9. CASE e.type = "merge"
  <2> DEFINE o == [v |-> b.sp.v + b.rcv.v, r |-> b.sp.r \cup b.rcv.r]
  <2>1. Apply(b, e, i) = [b EXCEPT !.sp = o, !.rcv = Zero]
    BY <1>9 DEF Apply, Spends
  <2>2. o \in Openings
    BY <1>2
  <2> HIDE DEF o
  <2>3. QED
    <3> DEFINE z == Zero
    <3>1. z \in Openings
      BY <1>2
    <3>2. Apply(b, e, i) = [b EXCEPT !.sp = o, !.rcv = z]
      BY <2>1
    <3> HIDE DEF z
    <3>3. QED
      BY <2>2, <3>1, <3>2 DEF Caches
<1>10. CASE e.type \in Spends
  <2> DEFINE o == [v |-> e.x, r |-> {i}]
  <2>1. Apply(b, e, i) = [b EXCEPT !.sp = o]
    BY <1>10 DEF Apply, Spends
  <2>2. o \in Openings
    BY <1>2
  <2> HIDE DEF o
  <2>3. QED
    BY <1>2, <1>5, <2>1, <2>2
<1>11. CASE e.type = "register"
  BY <1>11 DEF Apply, Spends
<1>12. QED
  BY <1>7, <1>8, <1>9, <1>10, <1>11 DEF Events

LEMMA ApplyRcv ==
    ASSUME NEW b \in Caches, NEW c \in Caches, NEW e \in Events, NEW i \in Nat,
           b.rcv = c.rcv
    PROVE  /\ Apply(b, e, i).rcv = Apply(c, e, i).rcv
           /\ b.sp = c.sp \/ e.type \in Spends => Apply(b, e, i).sp = Apply(c, e, i).sp
<1> b = [sp |-> b.sp, rcv |-> b.rcv, cur |-> b.cur] /\ c = [sp |-> c.sp, rcv |-> c.rcv, cur |-> c.cur]
  BY DEF Caches
<1>1. CASE e.type = "deposit"
  BY <1>1 DEF Apply, Spends
<1>2. CASE e.type = "credit"
  BY <1>2 DEF Apply, Spends
<1>3. CASE e.type = "merge"
  BY <1>3 DEF Apply, Spends
<1>4. CASE e.type \in Spends
  BY <1>4 DEF Apply, Spends
<1>5. CASE e.type = "register"
  BY <1>5 DEF Apply, Spends
<1>6. QED
  BY <1>1, <1>2, <1>3, <1>4, <1>5 DEF Events

LEMMA ApplyMoves ==
    ASSUME NEW b \in Caches, NEW e \in Events, NEW i \in Nat
    PROVE  /\ e.type \in Spends => Apply(b, e, i).sp = [v |-> e.x, r |-> {i}]
           /\ e.type \notin Spends \cup {"merge"} => Apply(b, e, i).sp = b.sp
           /\ e.type = "register" => Apply(b, e, i) = b
BY DEF Apply, Caches, Events, Openings, Zero, Spends

LEMMA FreshType == Fresh \in Caches /\ Zero \in Openings /\ Fresh.cur = 0
BY DEF Fresh, Zero, Caches, Openings

\* A replay yields caches, with the cursor it began with.
LEMMA ReplayType ==
    ASSUME NEW l \in Seq(Events), NEW b \in Caches, NEW ledgers
    PROVE  \A n \in 0..Len(l) : /\ Replay(l, b, ledgers)[n] \in Caches
                                /\ Replay(l, b, ledgers)[n].cur = b.cur
<1> DEFINE f == Replay(l, b, ledgers)
           T == {n \in 0..Len(l) : f[n] \in Caches /\ f[n].cur = b.cur}
<1>1. Len(l) \in Nat /\ \A n \in 1..Len(l) : l[n] \in Events
  OBVIOUS
<1>2. f[0] = b /\ \A n \in 1..Len(l) :
          f[n] = IF n \in ledgers THEN Apply(f[n - 1], l[n], n) ELSE f[n - 1]
  BY <1>1, ReplaySteps
<1> HIDE DEF f
<1>3. 0 \in T
  BY <1>1, <1>2
<1>4. ASSUME NEW n \in 1..Len(l), n - 1 \in T PROVE n \in T
  <2>1. f[n - 1] \in Caches /\ f[n - 1].cur = b.cur
    BY <1>4
  <2>2. Apply(f[n - 1], l[n], n) \in Caches /\ Apply(f[n - 1], l[n], n).cur = b.cur
    <3>1. l[n] \in Events /\ n \in Nat
      BY <1>1
    <3>2. QED
      BY <2>1, <3>1, ApplyType
  <2>3. QED
    BY <1>1, <1>2, <2>1, <2>2
<1>5. 0..Len(l) \subseteq T
  <2> HIDE DEF T
  <2>1. QED
    BY <1>1, <1>3, <1>4, IntervalInduction
<1>6. QED
  BY <1>5 DEF f

\* What a log says is not changed by what follows.
LEMMA ReplayOfPrefix ==
    ASSUME NEW l \in Seq(Events), NEW e \in Events, NEW b \in Caches
    PROVE  /\ \A n \in 0..Len(l) :
                 Replay(Append(l, e), b, DOMAIN Append(l, e))[n] = Replay(l, b, DOMAIN l)[n]
           /\ Replay(Append(l, e), b, DOMAIN Append(l, e))[Len(l) + 1] =
                 Apply(Replay(l, b, DOMAIN l)[Len(l)], e, Len(l) + 1)
<1> DEFINE k == Append(l, e)
           f == Replay(l, b, DOMAIN l)
           g == Replay(k, b, DOMAIN k)
           T == {n \in 0..Len(l) : g[n] = f[n]}
<1>1. /\ Len(l) \in Nat /\ DOMAIN l = 1..Len(l)
      /\ Len(k) = Len(l) + 1 /\ DOMAIN k = 1..(Len(l) + 1)
      /\ \A n \in 1..Len(l) : k[n] = l[n]
      /\ k[Len(l) + 1] = e
  OBVIOUS
<1>2. f[0] = b /\ \A n \in 1..Len(l) : f[n] = Apply(f[n - 1], l[n], n)
  BY <1>1, ReplaySteps
<1>3. g[0] = b /\ \A n \in 1..Len(k) : g[n] = Apply(g[n - 1], k[n], n)
  <2> HIDE DEF k
  <2>1. Len(k) \in Nat /\ 1..Len(k) = DOMAIN k
    BY <1>1
  <2>2. QED
    BY <2>1, ReplaySteps
<1> HIDE DEF k, f, g
<1>4. 0 \in T
  BY <1>1, <1>2, <1>3
<1>5. ASSUME NEW n \in 1..Len(l), n - 1 \in T PROVE n \in T
  BY <1>1, <1>2, <1>3, <1>5
<1>6. 0..Len(l) \subseteq T
  <2> HIDE DEF T
  <2>1. QED
    BY <1>1, <1>4, <1>5, IntervalInduction
<1>7. g[Len(l) + 1] = Apply(f[Len(l)], e, Len(l) + 1)
  <2>1. Len(l) \in T /\ Len(l) + 1 \in 1..Len(k) /\ (Len(l) + 1) - 1 = Len(l)
    BY <1>1, <1>6
  <2>2. QED
    BY <1>1, <1>3, <2>1
<1>8. QED
  BY <1>6, <1>7 DEF f, g, k

\* The truth of a log, turn by turn.
LEMMA TruthSteps ==
    ASSUME NEW l \in Seq(Events)
    PROVE  /\ Len(l) \in Nat /\ DOMAIN l = 1..Len(l)
           /\ Truth(l)[0] = Fresh
           /\ \A n \in 1..Len(l) : /\ l[n] \in Events
                                   /\ Truth(l)[n] = Apply(Truth(l)[n - 1], l[n], n)
           /\ \A n \in 0..Len(l) : Truth(l)[n] \in Caches
<1>1. Len(l) \in Nat /\ DOMAIN l = 1..Len(l) /\ \A n \in 1..Len(l) : l[n] \in Events
  OBVIOUS
<1>2. QED
  BY <1>1, ReplaySteps, ReplayType, FreshType DEF Truth

LEMMA TruthOfPrefix ==
    ASSUME NEW l \in Seq(Events), NEW e \in Events
    PROVE  /\ \A n \in 0..Len(l) : Truth(Append(l, e))[n] = Truth(l)[n]
           /\ Truth(Append(l, e))[Len(l) + 1] = Apply(Truth(l)[Len(l)], e, Len(l) + 1)
BY ReplayOfPrefix, FreshType DEF Truth

\* Between two spends or merges the spendable opening stays.
LEMMA TruthIsStill ==
    ASSUME NEW l \in Seq(Events), NEW i \in 0..Len(l), NEW j \in i..Len(l),
           \A k \in (i + 1)..j : l[k].type \notin Spends \cup {"merge"}
    PROVE  Truth(l)[j].sp = Truth(l)[i].sp
<1> DEFINE T == {n \in 0..(j - i) : Truth(l)[i + n].sp = Truth(l)[i].sp}
<1>1. j - i \in Nat /\ i \in Nat /\ j <= Len(l) /\ Len(l) \in Nat
  BY TruthSteps
<1>2. 0 \in T
  BY <1>1
<1>3. ASSUME NEW n \in 1..(j - i), n - 1 \in T PROVE n \in T
  <2>1. i + n \in 1..Len(l) /\ i + n \in (i + 1)..j /\ (i + n) - 1 = i + (n - 1)
        /\ (i + n) - 1 \in 0..Len(l) /\ i + n \in Nat
    BY <1>1
  <2>2. /\ Truth(l)[i + n] = Apply(Truth(l)[(i + n) - 1], l[i + n], i + n)
        /\ l[i + n] \in Events /\ Truth(l)[(i + n) - 1] \in Caches
    BY <2>1, TruthSteps
  <2>3. Truth(l)[i + n].sp = Truth(l)[(i + n) - 1].sp
    <3>1. l[i + n].type \notin Spends \cup {"merge"}
      BY <2>1
    <3> DEFINE m == i + n  t == Truth(l)[(i + n) - 1]  e == l[i + n]
    <3>2. m \in Nat /\ t \in Caches /\ e \in Events /\ e.type \notin Spends \cup {"merge"}
      BY <2>1, <2>2, <3>1
    <3>3. Truth(l)[i + n] = Apply(t, e, m)
      BY <2>2
    <3> HIDE DEF m, t, e
    <3>4. Apply(t, e, m).sp = t.sp
      BY <3>2, ApplyMoves
    <3>5. QED
      BY <3>3, <3>4 DEF t
  <2>4. QED
    BY <1>3, <2>1, <2>3
<1>4. 0..(j - i) \subseteq T
  <2> HIDE DEF T
  <2>1. QED
    BY <1>1, <1>2, <1>3, IntervalInduction
<1>5. j - i \in T /\ i + (j - i) = j
  BY <1>1, <1>4
<1>6. QED
  BY <1>5

\* Replayed over an older cache whose receiving balance was right, the events after its
\* cursor give the truth of the last of them, wherever only registrations are left out.
LEMMA ReplayCatchesUp ==
    ASSUME NEW l \in Seq(Events), NEW b \in Caches, b.cur \in 0..Len(l),
           NEW m \in (b.cur)..Len(l),
           NEW ledgers \in SUBSET ((b.cur + 1)..m),
           \A i \in ((b.cur + 1)..m) \ ledgers : l[i].type = "register",
           b.rcv = Truth(l)[b.cur].rcv
    PROVE  /\ Replay(l, b, ledgers)[Len(l)].rcv = Truth(l)[m].rcv
           /\ b.sp = Truth(l)[b.cur].sp \/ SpendIn(l, b.cur + 1, m) =>
                  Replay(l, b, ledgers)[Len(l)].sp = Truth(l)[m].sp
<1> DEFINE f == Replay(l, b, ledgers)
           t == Truth(l)
           c == b.cur
           Same(n) == /\ f[n].rcv = t[n].rcv
                      /\ b.sp = t[c].sp \/ SpendIn(l, c + 1, n) => f[n].sp = t[n].sp
           T == {n \in 0..Len(l) : /\ n <= c => f[n] = b
                                   /\ c <= n /\ n <= m => Same(n)
                                   /\ m <= n => f[n] = f[m]}
<1>1. Len(l) \in Nat /\ c \in Nat /\ m \in Nat /\ c <= m /\ m <= Len(l)
  BY TruthSteps
<1>2. f[0] = b /\ \A n \in 1..Len(l) : f[n] = IF n \in ledgers THEN Apply(f[n - 1], l[n], n) ELSE f[n - 1]
  BY <1>1, ReplaySteps
<1>3. \A n \in 0..Len(l) : f[n] \in Caches /\ t[n] \in Caches
  BY <1>1, ReplayType, TruthSteps
<1>4. \A n \in 1..Len(l) : l[n] \in Events /\ t[n] = Apply(t[n - 1], l[n], n)
  BY TruthSteps
<1>5. \A n \in 1..Len(l) : n \notin ledgers /\ n \in (c + 1)..m => l[n].type = "register"
  OBVIOUS
<1>6. ledgers \subseteq (c + 1)..m /\ b.rcv = t[c].rcv
  OBVIOUS
<1> HIDE DEF f, t, c
<1>7. f[c] = b => Same(c)
  <2>1. ~ SpendIn(l, c + 1, c)
    BY <1>1 DEF SpendIn
  <2>2. QED
    BY <1>6, <2>1
<1>8. 0 \in T
  BY <1>1, <1>2, <1>7
<1>9. ASSUME NEW n \in 1..Len(l), n - 1 \in T PROVE n \in T
  <2>1. n \in Nat /\ n - 1 \in Nat /\ n \in 0..Len(l) /\ n - 1 \in 0..Len(l)
    BY <1>1
  <2>2. /\ n - 1 <= c => f[n - 1] = b
        /\ c <= n - 1 /\ n - 1 <= m => Same(n - 1)
        /\ m <= n - 1 => f[n - 1] = f[m]
    BY <1>9
  <2>3. CASE n <= c
    <3>1. n \notin ledgers
      BY <1>1, <1>6, <2>1, <2>3
    <3>2. f[n] = b
      BY <1>2, <2>1, <2>2, <2>3, <3>1, <1>1
    <3>3. c = n => Same(n)
      BY <1>7, <3>2
    <3>4. m <= n => n = m
      BY <1>1, <2>1, <2>3
    <3>5. QED
      BY <1>1, <2>1, <2>3, <3>2, <3>3, <3>4
  <2>4. CASE c < n /\ n <= m
    <3>1. Same(n - 1)
      BY <1>1, <2>1, <2>2, <2>4
    <3>2. /\ l[n] \in Events /\ t[n] = Apply(t[n - 1], l[n], n)
          /\ f[n - 1] \in Caches /\ t[n - 1] \in Caches
      BY <1>3, <1>4, <2>1
    <3>3. SpendIn(l, c + 1, n) <=> SpendIn(l, c + 1, n - 1) \/ l[n].type \in Spends
      BY <1>1, <2>1, <2>4 DEF SpendIn
    <3>4. Same(n)
      <4>1. CASE n \in ledgers
        <5>1. f[n] = Apply(f[n - 1], l[n], n)
          BY <1>2, <4>1
        <5>2. Apply(f[n - 1], l[n], n).rcv = Apply(t[n - 1], l[n], n).rcv
          BY <2>1, <3>1, <3>2, ApplyRcv
        <5>3. f[n - 1].sp = t[n - 1].sp \/ l[n].type \in Spends =>
                  Apply(f[n - 1], l[n], n).sp = Apply(t[n - 1], l[n], n).sp
          BY <2>1, <3>1, <3>2, ApplyRcv
        <5>4. QED
          BY <3>1, <3>2, <3>3, <5>1, <5>2, <5>3
      <4>2. CASE n \notin ledgers
        <5>1. f[n] = f[n - 1]
          BY <1>2, <4>2
        <5>2. l[n].type = "register"
          BY <1>1, <1>5, <2>1, <2>4, <4>2
        <5>3. t[n] = t[n - 1]
          BY <2>1, <3>2, <5>2, ApplyMoves
        <5>4. l[n].type \notin Spends
          BY <5>2 DEF Spends
        <5>5. QED
          BY <3>1, <3>3, <5>1, <5>3, <5>4
      <4>3. QED
        BY <4>1, <4>2
    <3>5. m <= n => n = m
      BY <1>1, <2>1, <2>4
    <3> HIDE DEF Same
    <3>6. QED
      BY <1>1, <2>1, <2>4, <3>4, <3>5
  <2>5. CASE m < n
    <3>1. n \notin ledgers /\ m <= n - 1
      BY <1>1, <1>6, <2>1, <2>5
    <3>2. f[n] = f[m]
      BY <1>2, <2>2, <3>1
    <3> HIDE DEF Same
    <3>3. QED
      BY <1>1, <2>1, <2>5, <3>2
  <2>6. QED
    BY <1>1, <2>1, <2>3, <2>4, <2>5
<1>10. 0..Len(l) \subseteq T
  <2> HIDE DEF T
  <2>1. QED
    BY <1>1, <1>8, <1>9, IntervalInduction
<1>11. Same(m) /\ f[Len(l)] = f[m]
  <2>1. m \in T /\ Len(l) \in T
    BY <1>1, <1>10
  <2> HIDE DEF Same
  <2>2. QED
    BY <1>1, <2>1
<1>12. QED
  BY <1>11 DEF f, t, c

-----------------------------------------------------------------------------
(* Caches that catch up.                                                   *)

LEMMA GoodCatchesUp ==
    ASSUME NEW l \in Seq(Events), NEW b \in Caches, b.cur \in 0..Len(l), Good(l, b)
    PROVE  /\ Replay(l, b, (b.cur + 1)..Len(l))[Len(l)].rcv = Truth(l)[Len(l)].rcv
           /\ Replay(l, b, (b.cur + 1)..Len(l))[Len(l)].sp = Truth(l)[Len(l)].sp
<1> DEFINE m == Len(l)  A == (b.cur + 1)..Len(l)
<1>1. m \in (b.cur)..Len(l) /\ A \in SUBSET ((b.cur + 1)..m) /\ ((b.cur + 1)..m) \ A = {}
  BY TruthSteps
<1>2. b.rcv = Truth(l)[b.cur].rcv /\ (b.sp = Truth(l)[b.cur].sp \/ SpendIn(l, b.cur + 1, m))
  BY DEF Good
<1> HIDE DEF m, A
<1>3. /\ Replay(l, b, A)[Len(l)].rcv = Truth(l)[m].rcv
      /\ Replay(l, b, A)[Len(l)].sp = Truth(l)[m].sp
  BY <1>1, <1>2, ReplayCatchesUp
<1>4. QED
  BY <1>3 DEF m, A

\* A fetch that leaves out registrations only gives a cache that catches up, and
\* from a cache that is right about its cursor's ledger one that is right too.
LEMMA FetchIsGood ==
    ASSUME NEW l \in Seq(Events), NEW b \in Caches, b.cur \in 0..Len(l), Good(l, b),
           NEW m \in (b.cur)..Len(l),
           NEW ledgers \in SUBSET ((b.cur + 1)..m),
           \A i \in ((b.cur + 1)..m) \ ledgers : l[i].type = "register"
    PROVE  /\ Good(l, [Replay(l, b, ledgers)[Len(l)] EXCEPT !.cur = m])
           /\ b.sp = Truth(l)[b.cur].sp => Replay(l, b, ledgers)[Len(l)].sp = Truth(l)[m].sp
<1> DEFINE g == Replay(l, b, ledgers)[Len(l)]
           n == [g EXCEPT !.cur = m]
<1>1. Len(l) \in Nat /\ b.cur \in Nat /\ m \in Nat /\ b.cur <= m /\ m <= Len(l)
  BY TruthSteps
<1>2. g \in Caches
  BY <1>1, ReplayType
<1>3. b.rcv = Truth(l)[b.cur].rcv /\ (b.sp = Truth(l)[b.cur].sp \/ SpendIn(l, b.cur + 1, Len(l)))
  BY DEF Good
<1>4. g.rcv = Truth(l)[m].rcv
  BY <1>3, ReplayCatchesUp
<1>5. b.sp = Truth(l)[b.cur].sp \/ SpendIn(l, b.cur + 1, m) => g.sp = Truth(l)[m].sp
  BY <1>3, ReplayCatchesUp
<1>6. SpendIn(l, b.cur + 1, Len(l)) => SpendIn(l, b.cur + 1, m) \/ SpendIn(l, m + 1, Len(l))
  BY <1>1 DEF SpendIn
<1> HIDE DEF g
<1>7. n.cur = m /\ n.sp = g.sp /\ n.rcv = g.rcv
  BY <1>2 DEF Caches
<1> HIDE DEF n
<1>8. Good(l, n)
  BY <1>3, <1>4, <1>5, <1>6, <1>7 DEF Good
<1>9. QED
  BY <1>5, <1>8 DEF n, g

LEMMA FetchType ==
    ASSUME NEW l \in Seq(Events), NEW b \in Caches, NEW m \in Nat, NEW ledgers
    PROVE  /\ [Replay(l, b, ledgers)[Len(l)] EXCEPT !.cur = m] \in Caches
           /\ [Replay(l, b, ledgers)[Len(l)] EXCEPT !.cur = m].cur = m
           /\ [Replay(l, b, ledgers)[Len(l)] EXCEPT !.cur = m].sp = Replay(l, b, ledgers)[Len(l)].sp
<1>1. Replay(l, b, ledgers)[Len(l)] \in Caches
  BY TruthSteps, ReplayType
<1>2. QED
  BY <1>1 DEF Caches

LEMMA FreshIsGood == ASSUME NEW l \in Seq(Events) PROVE Good(l, Fresh)
BY TruthSteps, FreshType DEF Good

LEMMA GoodAppend ==
    ASSUME NEW l \in Seq(Events), NEW e \in Events, NEW b \in Caches, b.cur \in 0..Len(l), Good(l, b)
    PROVE  Good(Append(l, e), b)
<1> DEFINE k == Append(l, e)
<1>1. Len(l) \in Nat /\ Len(k) = Len(l) + 1 /\ \A n \in 1..Len(l) : k[n] = l[n]
  OBVIOUS
<1>2. Truth(k)[b.cur] = Truth(l)[b.cur]
  BY TruthOfPrefix
<1> HIDE DEF k
<1>3. SpendIn(l, b.cur + 1, Len(l)) => SpendIn(k, b.cur + 1, Len(k))
  BY <1>1 DEF SpendIn
<1>4. Good(k, b)
  BY <1>2, <1>3 DEF Good
<1>5. QED
  BY <1>4 DEF k

\* Writing a landed spend's opening leaves a cache that catches up, when nothing moved after it.
LEMMA SetSpendableIsGood ==
    ASSUME NEW l \in Seq(Events), NEW b \in Caches, b.cur \in 0..Len(l), Good(l, b),
           NEW a \in 1..Len(l), l[a].type \in Spends,
           \A i \in (a + 1)..Len(l) : l[i].type \notin Spends \cup {"merge"}
    PROVE  Good(l, [b EXCEPT !.sp = [v |-> l[a].x, r |-> {a}]])
<1> DEFINE o == [v |-> l[a].x, r |-> {a}]
           n == [b EXCEPT !.sp = o]
<1>1. n.cur = b.cur /\ n.rcv = b.rcv /\ n.sp = o
  BY DEF Caches
<1>2. /\ Len(l) \in Nat /\ a \in Nat /\ l[a] \in Events
      /\ Truth(l)[a] = Apply(Truth(l)[a - 1], l[a], a) /\ Truth(l)[a - 1] \in Caches
  BY TruthSteps
<1>3. Truth(l)[a].sp = o
  <2> DEFINE t == Truth(l)[a - 1]  e == l[a]
  <2>1. t \in Caches /\ e \in Events /\ e.type \in Spends /\ Truth(l)[a] = Apply(t, e, a)
        /\ o = [v |-> e.x, r |-> {a}]
    BY <1>2
  <2> HIDE DEF t, e
  <2>2. QED
    BY <1>2, <2>1, ApplyMoves
<1>4. CASE a <= b.cur
  <2>1. Truth(l)[b.cur].sp = Truth(l)[a].sp
    BY <1>2, <1>4, TruthIsStill
  <2>2. QED
    BY <1>1, <1>3, <2>1 DEF Good
<1>5. CASE b.cur < a
  <2>1. SpendIn(l, b.cur + 1, Len(l))
    BY <1>2, <1>5 DEF SpendIn
  <2>2. QED
    BY <1>1, <2>1 DEF Good
<1>6. QED
  BY <1>2, <1>4, <1>5

-----------------------------------------------------------------------------
(* Steps of one actor.                                                     *)

LEMMA Basics ==
    ASSUME TypesOK
    PROVE  /\ log \in Seq(Events) /\ Tip \in Nat /\ seen \in Nat /\ seen <= Tip
           /\ floor \in Nat /\ Margin \in Nat /\ Polls \in Nat /\ Reads \in Nat
           /\ Seam = floor + Margin /\ (floor > 0 => Seam <= seen)
           /\ Tip = Len(log) /\ DOMAIN log = 1..Tip
           /\ \A i \in 1..Tip : log[i] \in Events
<1>1. log \in Seq(Events) /\ seen \in 0..Tip /\ floor \in {0} \cup Floors /\ (floor > 0 => Seam <= seen)
  BY DEF TypesOK
<1>2. Margin \in Nat /\ Polls \in Nat /\ Reads \in Nat /\ Floors \subseteq Nat
  BY CtAssumption
<1>3. Tip \in Nat /\ Tip = Len(log) /\ DOMAIN log = 1..Tip /\ \A i \in 1..Tip : log[i] \in Events
  BY <1>1 DEF Tip
<1>4. Seam = floor + Margin
  BY DEF Seam
<1>5. QED
  BY <1>1, <1>2, <1>3, <1>4

\* A fetch asks for ledgers after the cursor, and goes without registrations only,
\* unless there is a gap.
LEMMA FetchedOK ==
    ASSUME TypesOK, NEW cur \in 0..seen, NEW end \in Nat
    PROVE  /\ Fetched(cur, seen, end) \subseteq (cur + 1)..seen
           /\ ~ Gap(cur, end) =>
                 \A i \in ((cur + 1)..seen) \ Fetched(cur, seen, end) : log[i].type = "register"
<1>1. /\ seen \in Nat /\ cur \in Nat /\ floor \in Nat /\ Margin \in Nat /\ Tip \in Nat
      /\ cur <= seen /\ seen <= Tip /\ Seam = floor + Margin
      /\ floor > 0 => Seam <= seen
  BY Basics
<1>2. CASE cur + 1 < floor
  <2>1. Fetched(cur, seen, end) = Backfill(cur, end) \cup Seam..seen
    BY <1>2 DEF Fetched
  <2>2. Backfill(cur, end) \subseteq (cur + 1)..(Seam - 1)
    BY DEF Backfill
  <2>3. Fetched(cur, seen, end) \subseteq (cur + 1)..seen
    BY <1>1, <1>2, <2>1, <2>2
  <2>4. ASSUME ~ Gap(cur, end), NEW i \in ((cur + 1)..seen) \ Fetched(cur, seen, end)
        PROVE  log[i].type = "register"
    <3>1. i \in ((cur + 1)..(Seam - 1)) \ Backfill(cur, end)
      BY <1>1, <2>1, <2>4
    <3>2. QED
      BY <1>2, <2>4, <3>1 DEF Gap, Matters
  <2>5. QED
    BY <2>3, <2>4
<1>3. CASE ~ (cur + 1 < floor) /\ cur = 0
  <2>1. Fetched(cur, seen, end) = (floor + 1)..seen /\ floor <= 1
    BY <1>1, <1>3 DEF Fetched
  <2>2. ASSUME NEW i \in ((cur + 1)..seen) \ Fetched(cur, seen, end)
        PROVE  log[i].type = "register"
    <3>1. i = 1 /\ 1 <= Tip
      BY <1>1, <1>3, <2>1
    <3>2. log # <<>>
      BY <3>1 DEF Tip
    <3>3. QED
      BY <3>1, <3>2 DEF TypesOK
  <2>3. QED
    BY <1>1, <1>3, <2>1, <2>2
<1>4. CASE ~ (cur + 1 < floor) /\ cur # 0
  BY <1>1, <1>4 DEF Fetched
<1>5. QED
  BY <1>2, <1>3, <1>4

\* What the others keep when something happened.
Kept(d, r, moves) ==
    /\ d.flow = r.flow /\ d.stage = r.stage /\ d.pc = r.pc
    /\ d.st = r.st /\ d.prior = r.prior /\ d.amount = r.amount
    /\ ~ d.calm /\ (d.alone => r.alone /\ ~ moves)

LEMMA DisturbedFields ==
    ASSUME CtInv, NEW moves \in BOOLEAN, NEW q \in Actors
    PROVE  /\ Disturbed(moves) \in [Actors -> Runs]
           /\ Kept(Disturbed(moves)[q], run[q], moves)
<1>1. \A a \in Actors : run[a] \in Runs
  BY DEF CtInv, TypesOK
<1>2. ASSUME NEW a \in Actors PROVE [run[a] EXCEPT !.calm = FALSE, !.alone = @ /\ ~moves] \in Runs
  <2> DEFINE u == run[a].alone /\ ~moves
  <2>1. u \in BOOLEAN
    OBVIOUS
  <2>2. [run[a] EXCEPT !.calm = FALSE, !.alone = @ /\ ~moves] = [run[a] EXCEPT !.calm = FALSE, !.alone = u]
    BY <1>1 DEF Runs
  <2> HIDE DEF u
  <2>3. [run[a] EXCEPT !.calm = FALSE, !.alone = u] \in Runs
    <3>1. run[a] \in Runs /\ u \in BOOLEAN /\ FALSE \in BOOLEAN
      BY <1>1, <2>1
    <3>2. QED
      BY <3>1 DEF Runs
  <2>4. QED
    BY <2>2, <2>3
<1>3. Disturbed(moves)[q] = [run[q] EXCEPT !.calm = FALSE, !.alone = @ /\ ~moves]
  BY DEF Disturbed
<1>4. QED
  <2>1. Disturbed(moves) \in [Actors -> Runs]
    BY <1>2 DEF Disturbed
  <2>2. Kept(Disturbed(moves)[q], run[q], moves)
    BY <1>1, <1>3 DEF Runs, Kept
  <2>3. QED
    BY <2>1, <2>2

LEMMA DisturbedRuns ==
    ASSUME CtInv, NEW moves \in BOOLEAN
    PROVE  Disturbed(moves) \in [Actors -> Runs]
<1>1. CASE Actors = {}
  BY <1>1 DEF Disturbed
<1>2. CASE Actors # {}
  BY <1>2, DisturbedFields, Zenon
<1>3. QED
  BY <1>1, <1>2

LEMMA DisturbedFalse ==
    ASSUME CtInv, NEW p \in Actors
    PROVE  /\ Disturbed(FALSE) \in [Actors -> Runs]
           /\ \A q \in Actors : Kept(Disturbed(FALSE)[q], run[q], FALSE)
<1>1. \A q \in Actors : /\ Disturbed(FALSE) \in [Actors -> Runs]
                        /\ Kept(Disturbed(FALSE)[q], run[q], FALSE)
  BY DisturbedFields, Zenon
<1>2. QED
  BY <1>1

\* A step that changes one actor, his transaction and the stored state, and may
\* disturb the others.
LEMMA ActorStep ==
    ASSUME CtInv, NEW p \in Actors, UNCHANGED netVars,
           NEW r \in Runs,
           run' = [run EXCEPT ![p] = r] \/ run' = [Disturbed(FALSE) EXCEPT ![p] = r],
           NEW op \in Transactions \cup {None}, pool' = [pool EXCEPT ![p] = op],
           lost' \in BOOLEAN, lost => lost', late' \in BOOLEAN, late => late',
           store' \in Caches, store'.cur <= seen,
           r.flow \in FlowsOf[p] \cup {"none"},
           FlowOK(r, op), op # None => SentOK(op),
           lost' \/ late' \/ (Good(log, store') /\ Good(log, r.st) /\ Good(log, r.prior)),
           HeldOK(r, op, Truth(log)[Tip].sp), CalmOK(r, Truth(log)[Tip].sp, lost')
    PROVE  CtInv'
<1>1. /\ run \in [Actors -> Runs] /\ pool \in [Actors -> Transactions \cup {None}]
      /\ log' = log /\ seen' = seen /\ room' = room /\ floor' = floor /\ Tip' = Tip /\ Seam' = Seam
  BY DEF CtInv, TypesOK, netVars, Tip, Seam
<1>2. /\ run' \in [Actors -> Runs] /\ pool' \in [Actors -> Transactions \cup {None}]
      /\ run'[p] = r /\ pool'[p] = op
      /\ \A q \in Actors : q # p => pool'[q] = pool[q]
  BY <1>1, DisturbedFalse
<1>3. ASSUME NEW q \in Actors, q # p
      PROVE  /\ run'[q].flow = run[q].flow /\ run'[q].stage = run[q].stage /\ run'[q].pc = run[q].pc
             /\ run'[q].st = run[q].st /\ run'[q].prior = run[q].prior
             /\ run'[q].amount = run[q].amount /\ (run'[q].alone => run[q].alone)
             /\ run'[q] = run[q] \/ ~ run'[q].calm
  <2>1. CASE run' = [run EXCEPT ![p] = r]
    BY <1>1, <1>3, <2>1
  <2>2. CASE run' = [Disturbed(FALSE) EXCEPT ![p] = r]
    <3>1. run'[q] = Disturbed(FALSE)[q]
      BY <1>3, <2>2, DisturbedFalse
    <3>2. QED
      BY <3>1, DisturbedFalse DEF Kept
  <2>3. QED
    BY <2>1, <2>2
<1>4. TypesOK'
  <2>1. ASSUME NEW q \in Actors
        PROVE  /\ run'[q].flow \in FlowsOf[q] \cup {"none"}
               /\ FlowOK(run'[q], pool'[q])
               /\ pool'[q] # None => SentOK(pool'[q])
    <3>1. CASE q = p
      BY <1>2, <3>1
    <3>2. CASE q # p
      <4>1. /\ run[q].flow \in FlowsOf[q] \cup {"none"}
            /\ FlowOK(run[q], pool[q]) /\ (pool[q] # None => SentOK(pool[q]))
        BY DEF CtInv, TypesOK
      <4>2. QED
        BY <1>2, <1>3, <3>2, <4>1 DEF FlowOK
    <3>3. QED
      BY <3>1, <3>2
  <2>2. ASSUME NEW q \in Actors
        PROVE  FlowOK(run[q], pool[q])' /\ (pool'[q] # None => SentOK(pool[q])')
    BY <1>1, <2>1 DEF FlowOK, SentOK
  <2>3. QED
    BY <1>1, <1>2, <2>1, <2>2 DEF CtInv, TypesOK
<1>5. CachesOK'
  <2>1. SUFFICES ASSUME ~ lost', ~ late'
                 PROVE  /\ Good(log, store')
                        /\ \A q \in Actors : Good(log, run'[q].st) /\ Good(log, run'[q].prior)
    BY <1>1 DEF CachesOK
  <2>2. \A q \in Actors : Good(log, run[q].st) /\ Good(log, run[q].prior)
    BY <2>1 DEF CtInv, CachesOK
  <2>3. QED
    BY <1>2, <1>3, <2>1, <2>2
<1>6. SpendsOK'
  <2>1. ASSUME NEW q \in Actors PROVE HeldOK(run'[q], pool'[q], Truth(log)[Tip].sp)
    <3>1. CASE q = p
      BY <1>2, <3>1
    <3>2. CASE q # p
      <4>1. HeldOK(run[q], pool[q], Truth(log)[Tip].sp)
        BY DEF CtInv, SpendsOK
      <4>2. QED
        BY <1>2, <1>3, <3>2, <4>1 DEF HeldOK
    <3>3. QED
      BY <3>1, <3>2
  <2>2. QED
    BY <1>1, <2>1 DEF SpendsOK, HeldOK
<1>7. ReadsOK'
  <2>1. ASSUME NEW q \in Actors PROVE CalmOK(run'[q], Truth(log)[Tip].sp, lost')
    <3>1. CASE q = p
      BY <1>2, <3>1
    <3>2. CASE q # p
      <4>1. CalmOK(run[q], Truth(log)[Tip].sp, lost)
        BY DEF CtInv, ReadsOK
      <4>2. QED
        BY <1>3, <3>2, <4>1 DEF CalmOK
    <3>3. QED
      BY <3>1, <3>2
  <2>2. QED
    BY <1>1, <2>1 DEF ReadsOK, CalmOK
<1>8. QED
  BY <1>4, <1>5, <1>6, <1>7 DEF CtInv

LEMMA OneActor ==
    ASSUME CtInv, NEW p \in Actors, UNCHANGED netVars,
           NEW r \in Runs, run' = [run EXCEPT ![p] = r],
           NEW op \in Transactions \cup {None}, pool' = [pool EXCEPT ![p] = op],
           lost' \in BOOLEAN, lost => lost', late' = late,
           store' \in Caches, store'.cur <= seen,
           r.flow \in FlowsOf[p] \cup {"none"},
           FlowOK(r, op), op # None => SentOK(op),
           lost' \/ late \/ (Good(log, store') /\ Good(log, r.st) /\ Good(log, r.prior)),
           HeldOK(r, op, Truth(log)[Tip].sp), CalmOK(r, Truth(log)[Tip].sp, lost')
    PROVE  CtInv'
<1>1. late' \in BOOLEAN /\ (late => late')
  BY DEF CtInv, TypesOK
<1>2. QED
  BY <1>1, ActorStep

LEMMA OneFlow ==
    ASSUME CtInv, NEW p \in Actors, UNCHANGED <<netVars, store, pool, late>>,
           NEW r \in Runs, run' = [run EXCEPT ![p] = r],
           lost' \in BOOLEAN, lost => lost',
           r.flow \in FlowsOf[p] \cup {"none"}, FlowOK(r, pool[p]),
           lost' \/ late \/ (Good(log, r.st) /\ Good(log, r.prior)),
           HeldOK(r, pool[p], Truth(log)[Tip].sp), CalmOK(r, Truth(log)[Tip].sp, lost')
    PROVE  CtInv'
<1>1. /\ pool \in [Actors -> Transactions \cup {None}] /\ pool[p] \in Transactions \cup {None}
      /\ pool[p] # None => SentOK(pool[p])
      /\ store \in Caches /\ store.cur <= seen
      /\ lost' \/ late \/ Good(log, store)
  BY DEF CtInv, TypesOK, CachesOK
<1>2. pool' = [pool EXCEPT ![p] = pool[p]]
  BY <1>1
<1>3. QED
  BY <1>1, <1>2, OneActor

\* The rest a flow returns to.
LEMMA FreeOK ==
    ASSUME CtInv, NEW op, NEW sp, NEW gone
    PROVE  /\ Free \in Runs /\ Free.flow = "none" /\ FlowOK(Free, op)
           /\ Good(log, Free.st) /\ Good(log, Free.prior)
           /\ HeldOK(Free, op, sp) /\ CalmOK(Free, sp, gone)
<1>1. /\ Free \in Runs /\ Free.flow = "none" /\ Free.st = Fresh /\ Free.prior = Fresh
      /\ Free.pc = "idle" /\ Free.alone = FALSE /\ Free.calm = FALSE
  BY FreshType DEF Free, Runs, Flows, Stages, Pcs
<1>2. log \in Seq(Events) /\ seen \in Nat
  BY Basics DEF CtInv
<1>3. QED
  BY <1>1, <1>2, FreshIsGood, FreshType DEF FlowOK, HeldOK, CalmOK

LEMMA ActorType ==
    ASSUME CtInv, NEW p \in Actors
    PROVE  /\ run[p] \in Runs /\ run[p].flow \in FlowsOf[p] \cup {"none"}
           /\ FlowOK(run[p], pool[p]) /\ pool[p] \in Transactions \cup {None}
           /\ pool[p] # None => SentOK(pool[p])
           /\ lost \/ late \/ (Good(log, store) /\ Good(log, run[p].st) /\ Good(log, run[p].prior))
           /\ HeldOK(run[p], pool[p], Truth(log)[Tip].sp)
           /\ CalmOK(run[p], Truth(log)[Tip].sp, lost)
           /\ store \in Caches /\ store.cur <= seen /\ lost \in BOOLEAN
           /\ FlowsOf[p] \subseteq Flows
BY CtAssumption DEF CtInv, TypesOK, CachesOK, SpendsOK, ReadsOK

\* What is fetched over a cache that catches up catches up, unless there was a gap.
LEMMA FetchedIsGood ==
    ASSUME CtInv, NEW base \in Caches, base.cur <= seen, NEW end \in Nat,
           ~ Gap(base.cur, end), Good(log, base)
    PROVE  /\ Good(log, [Replayed(base, Fetched(base.cur, seen, end)) EXCEPT !.cur = seen])
           /\ base.sp = Truth(log)[base.cur].sp =>
                 Replayed(base, Fetched(base.cur, seen, end)).sp = Truth(log)[seen].sp
<1> DEFINE A == Fetched(base.cur, seen, end)
<1>1. log \in Seq(Events) /\ Tip = Len(log) /\ seen \in Nat /\ Tip \in Nat /\ seen <= Tip
  BY Basics DEF CtInv
<1>2. base.cur \in 0..seen /\ base.cur \in 0..Len(log) /\ seen \in (base.cur)..Len(log)
  <2>1. base.cur \in Nat
    BY DEF Caches
  <2>2. QED
    BY <1>1, <2>1
<1>3. /\ A \in SUBSET ((base.cur + 1)..seen)
      /\ \A i \in ((base.cur + 1)..seen) \ A : log[i].type = "register"
  BY <1>2, FetchedOK DEF CtInv
<1>4. Replayed(base, A) = Replay(log, base, A)[Len(log)]
  BY <1>1 DEF Replayed
<1> HIDE DEF A
<1>5. /\ Good(log, [Replay(log, base, A)[Len(log)] EXCEPT !.cur = seen])
      /\ base.sp = Truth(log)[base.cur].sp => Replay(log, base, A)[Len(log)].sp = Truth(log)[seen].sp
  BY <1>1, <1>2, <1>3, FetchIsGood
<1>6. QED
  BY <1>4, <1>5 DEF A

\* Fetching over the state that was loaded or over nothing.
LEMMA FetchStep ==
    ASSUME CtInv, NEW p \in Actors, NEW base, NEW pc, Fetch(p, base, pc),
           UNCHANGED <<netVars, store, pool, late>>,
           (At(p, "loaded") /\ base = run[p].st /\ pc = "synced")
              \/ (At(p, "rebuild") /\ base = Fresh /\ pc = "rebuilt")
    PROVE  CtInv'
<1>1. PICK end \in 0..seen :
          /\ run' = [run EXCEPT ![p].pc = pc,
                 ![p].st = [Replayed(base, Fetched(base.cur, seen, end)) EXCEPT !.cur = seen]]
          /\ lost' = (lost \/ Gap(base.cur, end))
  BY DEF Fetch
<1> DEFINE b == [Replayed(base, Fetched(base.cur, seen, end)) EXCEPT !.cur = seen]
           r == [run[p] EXCEPT !.pc = pc, !.st = b]
<1>2. log \in Seq(Events) /\ Tip = Len(log) /\ seen \in Nat /\ Tip \in Nat /\ seen <= Tip
  BY Basics DEF CtInv
<1>3. base \in Caches /\ base.cur <= seen /\ (lost' \/ late \/ Good(log, base))
  BY <1>1, <1>2, ActorType, FreshType, FreshIsGood DEF Runs, FlowOK
<1>4. /\ b \in Caches /\ b.cur = seen /\ b.sp = Replayed(base, Fetched(base.cur, seen, end)).sp
  <2> DEFINE A == Fetched(base.cur, seen, end)
  <2>1. Replayed(base, A) = Replay(log, base, A)[Len(log)]
    BY <1>2 DEF Replayed
  <2> HIDE DEF A
  <2>2. /\ [Replay(log, base, A)[Len(log)] EXCEPT !.cur = seen] \in Caches
        /\ [Replay(log, base, A)[Len(log)] EXCEPT !.cur = seen].cur = seen
        /\ [Replay(log, base, A)[Len(log)] EXCEPT !.cur = seen].sp = Replay(log, base, A)[Len(log)].sp
    BY <1>2, <1>3, FetchType
  <2>3. QED
    BY <2>1, <2>2 DEF A
<1>14. (Gap(base.cur, end) => lost') /\ end \in Nat
  <2>1. end \in Nat
    BY <1>2
  <2>2. Gap(base.cur, end) => lost'
    BY <1>1, Zenon
  <2>3. QED
    BY <2>1, <2>2
<1>5. lost' \/ late \/ Good(log, b)
  <2>1. SUFFICES ASSUME ~ lost', ~ late PROVE Good(log, b)
    OBVIOUS
  <2>2. ~ Gap(base.cur, end) /\ end \in Nat /\ Good(log, base)
    BY <1>3, <1>14, <2>1
  <2>3. QED
    BY <1>3, <2>2, FetchedIsGood
<1>6. base = Fresh /\ ~ lost' => b.sp = Truth(log)[seen].sp
  <2>1. Fresh.sp = Truth(log)[Fresh.cur].sp /\ Good(log, Fresh)
    BY <1>2, TruthSteps, FreshType, FreshIsGood
  <2>2. SUFFICES ASSUME base = Fresh, ~ lost' PROVE b.sp = Truth(log)[seen].sp
    OBVIOUS
  <2>3. ~ Gap(base.cur, end) /\ end \in Nat
    BY <1>14, <2>2
  <2>4. Replayed(base, Fetched(base.cur, seen, end)).sp = Truth(log)[seen].sp
    BY <1>3, <2>1, <2>2, <2>3, FetchedIsGood
  <2>5. QED
    BY <1>4, <2>4
<1> HIDE DEF b
<1>7. /\ r \in Runs /\ r.flow = run[p].flow /\ r.st = b /\ r.prior = run[p].prior /\ r.pc = pc
      /\ r.stage = run[p].stage /\ r.calm = run[p].calm /\ r.tries = run[p].tries
      /\ pc \in {"synced", "rebuilt"}
  <2>1. run[p] \in Runs /\ pc \in Pcs
    BY ActorType DEF Pcs
  <2>2. QED
    BY <1>4, <2>1 DEF Runs
<1>8. run' = [run EXCEPT ![p] = r] /\ lost' \in BOOLEAN /\ (lost => lost')
  BY <1>1, ActorType DEF b, CtInv, TypesOK
<1> HIDE DEF r
<1>9. FlowOK(r, pool[p])
  BY <1>2, <1>4, <1>7, ActorType DEF FlowOK
<1>10. HeldOK(r, pool[p], Truth(log)[Tip].sp)
  BY <1>7 DEF HeldOK
<1>11. CalmOK(r, Truth(log)[Tip].sp, lost')
  <2>1. CalmOK(run[p], Truth(log)[Tip].sp, lost) /\ (lost => lost')
    BY <1>8, ActorType
  <2>2. CASE At(p, "loaded") /\ pc = "synced"
    BY <1>7, <2>1, <2>2 DEF CalmOK, At
  <2>3. CASE base = Fresh /\ pc = "rebuilt"
    BY <1>6, <1>7, <2>1, <2>3 DEF CalmOK
  <2>4. QED
    BY <2>2, <2>3
<1>12. lost' \/ late \/ (Good(log, r.st) /\ Good(log, r.prior))
  BY <1>1, <1>5, <1>7, ActorType
<1>13. QED
  BY <1>7, <1>8, <1>9, <1>10, <1>11, <1>12, ActorType, OneFlow

LEMMA LoadStep == ASSUME CtInv, NEW p \in Actors, Load(p) PROVE CtInv'
<1> DEFINE r == [run[p] EXCEPT !.pc = "loaded", !.st = store]
<1>1. /\ run[p].pc = "sync" /\ run' = [run EXCEPT ![p] = r]
      /\ UNCHANGED <<netVars, store, pool, history>>
  BY DEF Load, At
<1>2. /\ run[p] \in Runs /\ run[p].flow \in FlowsOf[p] \cup {"none"} /\ FlowOK(run[p], pool[p])
      /\ pool[p] \in Transactions \cup {None} /\ (pool[p] # None => SentOK(pool[p]))
      /\ lost \/ late \/ (Good(log, store) /\ Good(log, run[p].prior))
      /\ CalmOK(run[p], Truth(log)[Tip].sp, lost) /\ lost \in BOOLEAN
      /\ store \in Caches /\ store.cur <= seen
  BY ActorType
<1>3. /\ r \in Runs /\ r.flow = run[p].flow /\ r.stage = run[p].stage /\ r.st = store
      /\ r.prior = run[p].prior /\ r.calm = run[p].calm /\ r.tries = run[p].tries
      /\ r.pc = "loaded"
  BY <1>2 DEF Runs, Pcs
<1>4. pool' = [pool EXCEPT ![p] = pool[p]] /\ lost' = lost /\ late' = late
  BY <1>1 DEF CtInv, TypesOK, history
<1> HIDE DEF r
<1>5. CalmOK(r, Truth(log)[Tip].sp, lost')
  BY <1>1, <1>2, <1>3, <1>4 DEF CalmOK
<1>6. FlowOK(r, pool[p]) /\ HeldOK(r, pool[p], Truth(log)[Tip].sp)
  BY <1>2, <1>3 DEF FlowOK, HeldOK
<1>7. QED
  BY <1>1, <1>2, <1>3, <1>4, <1>5, <1>6, OneActor

LEMMA SyncStep == ASSUME CtInv, NEW p \in Actors, Sync(p) PROVE CtInv'
BY FetchStep DEF Sync

LEMMA RebuildStep == ASSUME CtInv, NEW p \in Actors, Rebuild(p) PROVE CtInv'
BY FetchStep DEF Rebuild

-----------------------------------------------------------------------------
(* What a flow does next.                                                  *)

\* What a flow that has ended a wait or a read makes of its record.
NextOK(n, r) ==
    /\ n \in Runs /\ n.flow \in {r.flow, "none"} /\ (n.calm => r.calm)
    /\ n.st \in {r.st, Fresh} /\ n.prior \in {r.prior, Fresh, store}
    /\ n.pc \in {"idle", "sync", "rebuild", "submit", "again"}
    /\ n.pc = "submit" => n.stage \in {"register", "deposit", "merge", "spend"}
    /\ n.pc = "submit" /\ n.stage = "spend" =>
           n.st = r.st /\ n.alone = r.alone /\ n.st.sp.v >= n.amount
    /\ n.pc = "again" => n.st = r.st /\ n.alone = r.alone

LEMMA FreeNext == ASSUME NEW r PROVE NextOK(Free, r) /\ Free.calm = FALSE
BY FreshType DEF NextOK, Free, Runs, Flows, Stages, Pcs

LEMMA SubmitsNext ==
    ASSUME NEW r \in Runs, NEW stage \in {"register", "deposit", "merge", "spend"},
           stage = "spend" => r.st.sp.v >= r.amount
    PROVE  /\ NextOK(Submits(r, stage), r)
           /\ Submits(r, stage).pc = "submit" /\ Submits(r, stage).stage = stage
           /\ \A x \in Nat : /\ stage # "spend" => NextOK([Submits(r, stage) EXCEPT !.due = x], r)
                             /\ [Submits(r, stage) EXCEPT !.due = x].pc = "submit"
                             /\ [Submits(r, stage) EXCEPT !.due = x].stage = stage
<1> DEFINE n == Submits(r, stage)
<1>1. /\ n \in Runs /\ n.pc = "submit" /\ n.stage = stage /\ n.prior = Fresh
      /\ n.flow = r.flow /\ n.calm = r.calm /\ n.alone = r.alone /\ n.st = r.st
      /\ n.amount = r.amount
  BY FreshType DEF Submits, Runs, Stages, Pcs
<1> HIDE DEF n
<1>2. NextOK(n, r)
  BY <1>1 DEF NextOK
<1>3. ASSUME NEW x \in Nat
      PROVE  /\ [n EXCEPT !.due = x].pc = "submit" /\ [n EXCEPT !.due = x].stage = stage
             /\ stage # "spend" => NextOK([n EXCEPT !.due = x], r)
  <2> DEFINE d == [n EXCEPT !.due = x]
  <2>1. /\ d \in Runs /\ d.pc = n.pc /\ d.stage = n.stage /\ d.prior = n.prior
        /\ d.flow = n.flow /\ d.calm = n.calm /\ d.alone = n.alone /\ d.st = n.st
    BY <1>1 DEF Runs
  <2> HIDE DEF d
  <2>2. stage # "spend" => NextOK(d, r)
    BY <1>1, <2>1 DEF NextOK
  <2>3. QED
    BY <1>1, <2>1, <2>2 DEF d
<1>4. QED
  BY <1>1, <1>2, <1>3 DEF n

LEMMA SyncsNext ==
    ASSUME NEW r \in Runs
    PROVE  /\ NextOK(Syncs(r), r) /\ Syncs(r).pc = "sync"
           /\ NextOK(Rebuilds(r), r) /\ Rebuilds(r).pc = "rebuild"
           /\ Syncs(r).tries = r.tries /\ Syncs(r).flow = r.flow /\ Syncs(r).stage = r.stage
           /\ Rebuilds(r).flow = r.flow /\ Rebuilds(r).stage = r.stage
BY FreshType DEF NextOK, Syncs, Rebuilds, Runs, Stages, Pcs

LEMMA PollingNext ==
    ASSUME NEW r \in Runs, NEW stage \in Stages, store \in Caches
    PROVE  /\ NextOK(Polling(r, stage), r) /\ Polling(r, stage).pc = "sync"
           /\ Polling(r, stage).stage = stage /\ Polling(r, stage).tries = 0
           /\ Polling(r, stage).flow = r.flow
<1> DEFINE s == Syncs([r EXCEPT !.stage = stage, !.tries = 0])
<1>1. /\ s \in Runs /\ s.pc = "sync" /\ s.st = Fresh /\ s.prior = r.prior
      /\ s.flow = r.flow /\ s.calm = r.calm /\ s.stage = stage /\ s.tries = 0
  BY FreshType DEF Syncs, Runs, Pcs
<1> HIDE DEF s
<1>2. /\ [s EXCEPT !.prior = store] \in Runs /\ [s EXCEPT !.prior = store].pc = "sync"
      /\ [s EXCEPT !.prior = store].st = Fresh /\ [s EXCEPT !.prior = store].prior = store
      /\ [s EXCEPT !.prior = store].flow = r.flow /\ [s EXCEPT !.prior = store].calm = r.calm
      /\ [s EXCEPT !.prior = store].stage = stage /\ [s EXCEPT !.prior = store].tries = 0
  BY <1>1 DEF Runs
<1>3. Polling(r, stage) \in {s, [s EXCEPT !.prior = store]}
  BY DEF Polling, s
<1>4. QED
  BY <1>1, <1>2, <1>3 DEF NextOK

LEMMA MergeIfNext ==
    ASSUME NEW r \in Runs, NEW test
    PROVE  /\ NextOK(MergeIf(r, test), r)
           /\ MergeIf(r, test).pc # "again"
           /\ MergeIf(r, test).stage # "spend"
<1>1. MergeIf(r, test) \in {Submits(r, "merge"), Free}
  BY DEF MergeIf
<1>2. Free.pc = "idle" /\ Free.stage = "none"
  BY DEF Free
<1>3. QED
  BY <1>1, <1>2, FreeNext, SubmitsNext

LEMMA SpendOrNext ==
    ASSUME NEW r \in Runs, NEW n, NextOK(n, r)
    PROVE  NextOK(SpendOr(r, n), r) /\ (n.pc # "again" => SpendOr(r, n).pc # "again")
<1>1. CASE r.st.sp.v >= r.amount
  BY <1>1, SubmitsNext DEF SpendOr
<1>2. CASE ~ (r.st.sp.v >= r.amount)
  BY <1>2 DEF SpendOr
<1>3. QED
  BY <1>1, <1>2

Oks == [sp : BOOLEAN, rcv : BOOLEAN]

LEMMA SettleNext ==
    ASSUME NEW r \in Runs, NEW ok \in Oks
    PROVE  /\ NextOK(Settle(r, ok), r) /\ Settle(r, ok).pc # "again"
           /\ ~ ok.sp => Settle(r, ok).pc # "submit"
<1> DEFINE total == r.st.sp.v + (IF ok.rcv THEN r.st.rcv.v ELSE 0)
           merge == MergeIf(r, r.st.rcv # Zero /\ ok.rcv)
<1>1. r.st.sp.v \in Nat /\ r.st.rcv.v \in Nat /\ r.amount \in Nat /\ total \in Nat
  BY DEF Runs, Caches, Openings
<1>2. Settle(r, ok) = IF ~ok.sp THEN Free
                      ELSE IF total >= r.amount THEN SpendOr(r, merge)
                      ELSE IF ~ok.rcv /\ r.st.rcv.v > 0 THEN Free
                      ELSE [Submits(r, "deposit") EXCEPT !.due = r.amount - total]
  BY DEF Settle
<1>3. NextOK(merge, r) /\ merge.pc # "again"
  BY MergeIfNext
<1>4. NextOK(Free, r) /\ Free.pc = "idle"
  BY FreeNext DEF Free
<1> HIDE DEF total, merge
<1>5. CASE ~ok.sp \/ Settle(r, ok) = Free
  BY <1>2, <1>4, <1>5
<1>6. CASE ok.sp /\ total >= r.amount
  BY <1>2, <1>3, <1>6, SpendOrNext
<1>7. CASE ok.sp /\ ~ (total >= r.amount) /\ Settle(r, ok) # Free
  <2>1. r.amount - total \in Nat
    BY <1>1, <1>7
  <2>2. Settle(r, ok) = [Submits(r, "deposit") EXCEPT !.due = r.amount - total]
    BY <1>2, <1>7
  <2>3. QED
    BY <1>7, <2>1, <2>2, SubmitsNext
<1>8. QED
  BY <1>5, <1>6, <1>7

\* It spends only what was just verified, or merged and verified.
AfterOK(n, r, ok) ==
    /\ NextOK(n, r)
    /\ n.pc = "submit" /\ n.stage = "spend" =>
           \/ r.stage = "sync" /\ (ok.sp \/ r.flow = "unshield")
           \/ r.stage = "merge"
    /\ n.pc = "again" /\ n.flow = "settle" => r.stage = "deposit"
    /\ r.flow = "read" => n.calm = FALSE

LEMMA AfterNext ==
    ASSUME NEW r \in Runs, NEW ok \in Oks, store \in Caches
    PROVE  AfterOK(After(r, ok), r, ok)
<1> DEFINE n == After(r, ok)
<1> SUFFICES AfterOK(n, r, ok)
  OBVIOUS
<1>1. r.st.rcv.v \in Nat /\ r.amount \in Nat /\ r.flow \in Flows \cup {"none"} /\ r.stage \in Stages
  BY DEF Runs, Caches, Openings
<1>2. \A m : NextOK(m, r) /\ m.pc \notin {"submit", "again"} /\ r.flow # "read" => AfterOK(m, r, ok)
  BY DEF AfterOK
<1>3. NextOK(Free, r) /\ Free.calm = FALSE /\ Free.pc = "idle"
  BY FreeNext DEF Free
<1>4. \A test : NextOK(MergeIf(r, test), r) /\ MergeIf(r, test).pc # "again"
                /\ MergeIf(r, test).stage # "spend"
  BY MergeIfNext
<1>5. CASE n = Free
  BY <1>3, <1>5 DEF AfterOK
<1>6. CASE r.flow = "settle" /\ r.stage = "register"
  <2>1. n = Polling(r, "sync")
    BY <1>6 DEF After
  <2>2. QED
    BY <1>2, <1>6, <2>1, PollingNext DEF Stages
<1>7. CASE r.flow = "shield" /\ r.stage = "register"
  <2>1. n = [Submits(r, "deposit") EXCEPT !.due = r.amount]
    BY <1>7 DEF After
  <2>2. QED
    BY <1>1, <1>7, <2>1, SubmitsNext DEF AfterOK
<1>8. CASE r.flow = "settle" /\ r.stage = "sync"
  <2>1. n = Settle(r, ok)
    BY <1>8 DEF After
  <2>2. QED
    BY <1>8, <2>1, SettleNext DEF AfterOK
<1>9. CASE r.flow = "shield" /\ r.stage = "deposit"
  <2>1. n = MergeIf(r, r.st.rcv # Zero)
    BY <1>9 DEF After
  <2>2. QED
    BY <1>4, <1>9, <2>1 DEF AfterOK
<1>10. CASE r.flow = "merge" /\ r.stage = "sync"
  <2>1. n = IF r.st.rcv # Zero /\ ~ok.rcv THEN Polling(r, "recv") ELSE MergeIf(r, r.st.rcv # Zero)
    BY <1>10 DEF After
  <2>2. NextOK(Polling(r, "recv"), r) /\ Polling(r, "recv").pc = "sync"
    BY PollingNext DEF Stages
  <2>3. QED
    BY <1>4, <1>10, <2>1, <2>2 DEF AfterOK
<1>11. CASE (r.flow = "settle" /\ r.stage = "deposit") \/ (r.flow = "merge" /\ r.stage = "recv")
  <2>1. n = [r EXCEPT !.pc = "again", !.prior = store]
    BY <1>11 DEF After
  <2>2. /\ n \in Runs /\ n.pc = "again" /\ n.st = r.st /\ n.prior = store /\ n.flow = r.flow
        /\ n.calm = r.calm /\ n.alone = r.alone /\ n.stage = r.stage
    BY <2>1 DEF Runs, Pcs
  <2> HIDE DEF n
  <2>3. QED
    BY <1>11, <2>2 DEF AfterOK, NextOK
<1>12. CASE r.flow = "unshield" /\ r.stage = "sync"
  <2>1. n = SpendOr(r, MergeIf(r, r.st.rcv.v > 0))
    BY <1>12 DEF After
  <2>2. NextOK(n, r) /\ n.pc # "again"
    BY <1>4, <2>1, SpendOrNext
  <2> HIDE DEF n
  <2>3. QED
    BY <1>12, <2>2 DEF AfterOK
<1>13. CASE r.flow \in {"settle", "unshield"} /\ r.stage = "merge"
  <2>1. n = SpendOr(r, Free)
    BY <1>13 DEF After
  <2>2. NextOK(n, r) /\ n.pc # "again"
    BY <1>3, <2>1, SpendOrNext
  <2> HIDE DEF n
  <2>3. QED
    BY <1>13, <2>2 DEF AfterOK
<1>14. CASE ~ (r.flow = "settle" /\ r.stage \in {"register", "sync", "deposit", "merge"})
            /\ ~ (r.flow = "shield" /\ r.stage \in {"register", "deposit"})
            /\ ~ (r.flow = "merge" /\ r.stage \in {"sync", "recv"})
            /\ ~ (r.flow = "unshield" /\ r.stage \in {"sync", "merge"})
  <2>1. n = Free
    BY <1>14 DEF After
  <2>2. QED
    BY <1>5, <2>1
<1>15. QED
  <2> HIDE DEF n
  <2>1. QED
    BY <1>6, <1>7, <1>8, <1>9, <1>10, <1>11, <1>12, <1>13, <1>14

\* What a flow spends, when it goes on from r to n.
Held(n, r) ==
    n.alone /\ ((n.pc = "submit" /\ n.stage = "spend") \/ (n.pc = "again" /\ n.flow = "settle"))
        => r.st.sp = Truth(log)[Tip].sp

LEMMA NextStep ==
    ASSUME CtInv, NEW p \in Actors, UNCHANGED <<netVars, store, pool, history>>,
           NEW r \in Runs, r.flow = run[p].flow,
           r.st \in {run[p].st, store, Fresh}, r.prior \in {run[p].prior, store, Fresh},
           NEW n, NextOK(n, r), Held(n, r), CalmOK(n, Truth(log)[Tip].sp, lost),
           run' = [run EXCEPT ![p] = n]
    PROVE  CtInv'
<1>1. /\ log \in Seq(Events) /\ seen \in Nat /\ Fresh.cur = 0
      /\ lost' = lost /\ late' = late /\ lost \in BOOLEAN
  BY Basics, FreshType, ActorType DEF CtInv, history
<1>2. n \in Runs /\ n.flow \in FlowsOf[p] \cup {"none"}
  <2>1. n \in Runs /\ n.flow \in {r.flow, "none"}
    BY DEF NextOK
  <2>2. run[p].flow \in FlowsOf[p] \cup {"none"}
    BY ActorType
  <2>3. QED
    BY <2>1, <2>2
<1>3. FlowOK(n, pool[p])
  <2>1. run[p].st.cur <= seen /\ run[p].prior.cur <= seen /\ store.cur <= seen /\ Fresh.cur <= seen
    BY <1>1, ActorType DEF FlowOK
  <2>2. n.st.cur <= seen /\ n.prior.cur <= seen
    BY <2>1 DEF NextOK
  <2>3. QED
    BY <2>2 DEF NextOK, FlowOK
<1>4. lost \/ late \/ (Good(log, n.st) /\ Good(log, n.prior))
  <2>1. lost \/ late \/ (/\ Good(log, run[p].st) /\ Good(log, run[p].prior)
                         /\ Good(log, store) /\ Good(log, Fresh))
    BY <1>1, ActorType, FreshIsGood
  <2>2. QED
    BY <2>1 DEF NextOK
<1>5. HeldOK(n, pool[p], Truth(log)[Tip].sp)
  BY DEF Held, HeldOK, NextOK
<1>6. QED
  <2>1. /\ CalmOK(n, Truth(log)[Tip].sp, lost')
        /\ lost' \/ late \/ (Good(log, n.st) /\ Good(log, n.prior))
        /\ lost' \in BOOLEAN /\ (lost => lost')
        /\ UNCHANGED <<netVars, store, pool, late>>
    BY <1>1, <1>4
  <2>2. QED
    BY <1>2, <1>3, <1>5, <2>1, OneFlow

LEMMA AgreesOK ==
    ASSUME CtInv, NEW b
    PROVE  Agrees(b) \in Oks /\ (Agrees(b).sp <=> b.sp = Truth(log)[Tip].sp)
BY DEF Agrees, Oks, OnChain, Replayed, Truth

\* A wait or a read ends: with the openings it verified, or with what is stored.
LEMMA AfterStep ==
    ASSUME CtInv, NEW p \in Actors, UNCHANGED <<netVars, store, pool, history>>,
           NEW r \in Runs, r.flow = run[p].flow, r.calm = run[p].calm,
           r.st \in {run[p].st, store, Fresh}, r.prior = run[p].prior,
           NEW ok \in Oks, ok.sp => r.st.sp = Truth(log)[Tip].sp,
           r.stage = "sync" /\ r.flow = "unshield" => ok.sp,
           r.stage = "merge" => ok.sp,
           r.stage = "deposit" /\ r.alone => ok.sp,
           run' = [run EXCEPT ![p] = After(r, ok)]
    PROVE  CtInv'
<1> DEFINE n == After(r, ok)
<1>1. store \in Caches /\ CalmOK(run[p], Truth(log)[Tip].sp, lost)
  BY ActorType
<1>2. AfterOK(n, r, ok)
  BY <1>1, AfterNext
<1> HIDE DEF n
<1>3. NextOK(n, r)
  BY <1>2 DEF AfterOK
<1>4. n.calm => FALSE
  BY <1>1, <1>2 DEF AfterOK, NextOK, CalmOK
<1>5. CalmOK(n, Truth(log)[Tip].sp, lost)
  BY <1>4 DEF CalmOK
<1>6. Held(n, r)
  <2>1. n.pc = "submit" /\ n.stage = "spend" => ok.sp
    BY <1>2 DEF AfterOK
  <2>2. n.pc = "again" /\ n.flow = "settle" /\ n.alone => ok.sp
    BY <1>2 DEF AfterOK, NextOK
  <2>3. QED
    BY <2>1, <2>2 DEF Held
<1>7. run' = [run EXCEPT ![p] = n]
  BY DEF n
<1>8. QED
  BY <1>3, <1>5, <1>6, <1>7, NextStep

\* Once more around a loop.
LEMMA LoopStep ==
    ASSUME CtInv, NEW p \in Actors, UNCHANGED <<netVars, store, pool, history>>,
           NEW r \in Runs, r.flow = run[p].flow, r.calm = run[p].calm, r.stage = run[p].stage,
           r.st = run[p].st, r.prior = run[p].prior,
           \/ run' = [run EXCEPT ![p] = Syncs(r)] /\ (r.calm => lost)
           \/ run' = [run EXCEPT ![p] = Rebuilds(r)]
    PROVE  CtInv'
<1>1. CalmOK(run[p], Truth(log)[Tip].sp, lost)
  BY ActorType
<1>2. CASE run' = [run EXCEPT ![p] = Syncs(r)] /\ (r.calm => lost)
  <2> DEFINE n == Syncs(r)
  <2>1. NextOK(n, r) /\ n.pc = "sync" /\ n.flow = r.flow /\ n.stage = r.stage
    BY SyncsNext
  <2>2. run' = [run EXCEPT ![p] = n]
    BY <1>2
  <2> HIDE DEF n
  <2>3. CalmOK(n, Truth(log)[Tip].sp, lost)
    BY <1>1, <1>2, <2>1 DEF CalmOK, NextOK
  <2>4. Held(n, r)
    BY <2>1 DEF Held
  <2>5. QED
    BY <2>1, <2>2, <2>3, <2>4, NextStep
<1>3. CASE run' = [run EXCEPT ![p] = Rebuilds(r)]
  <2> DEFINE n == Rebuilds(r)
  <2>1. NextOK(n, r) /\ n.pc = "rebuild" /\ n.flow = r.flow /\ n.stage = r.stage
    BY SyncsNext
  <2>2. run' = [run EXCEPT ![p] = n]
    BY <1>3
  <2> HIDE DEF n
  <2>3. CalmOK(n, Truth(log)[Tip].sp, lost)
    BY <1>1, <2>1 DEF CalmOK, NextOK
  <2>4. Held(n, r)
    BY <2>1 DEF Held
  <2>5. QED
    BY <2>1, <2>2, <2>3, <2>4, NextStep
<1>4. QED
  BY <1>2, <1>3

LEMMA VerifyStep == ASSUME CtInv, NEW p \in Actors, Verify(p) PROVE CtInv'
<1> DEFINE ok == Agrees(run[p].st)
           u == Undisturbed(run[p], ok)
           r == [run[p] EXCEPT !.tries = @ + 1, !.alone = u]
<1>1. /\ run[p].pc = "verify" /\ UNCHANGED <<netVars, store, pool, history>>
      /\ run' = [run EXCEPT ![p] =
             IF Enough(r, ok) THEN After(r, ok)
             ELSE IF Reconciles(r) /\ r.tries > Reads THEN After([r EXCEPT !.st = store], ok)
             ELSE IF r.tries = (IF Reconciles(r) THEN 1 ELSE Polls) THEN Rebuilds(r)
             ELSE Syncs(r)]
  BY DEF Verify, At
<1>2. /\ run[p] \in Runs /\ store \in Caches /\ run[p].tries \in Nat
      /\ CalmOK(run[p], Truth(log)[Tip].sp, lost)
  BY ActorType DEF Runs
<1>3. ok \in Oks /\ (ok.sp <=> run[p].st.sp = Truth(log)[Tip].sp)
  BY AgreesOK
<1>4. u \in BOOLEAN /\ (u /\ run[p].stage = "deposit" => ok.sp)
  BY DEF Undisturbed
<1> HIDE DEF ok, u
<1>5. /\ r \in Runs /\ r.flow = run[p].flow /\ r.stage = run[p].stage /\ r.st = run[p].st
      /\ r.prior = run[p].prior /\ r.calm = run[p].calm /\ r.tries = run[p].tries + 1
      /\ r.alone = u
  <2> DEFINE m == run[p].tries + 1
  <2>1. r = [run[p] EXCEPT !.tries = m, !.alone = u] /\ m \in Nat
    BY <1>2
  <2> HIDE DEF m, r
  <2>2. QED
    <3>1. u \in BOOLEAN /\ run[p] \in Runs
      BY <1>2, <1>4
    <3>2. /\ r \in Runs /\ r.flow = run[p].flow /\ r.stage = run[p].stage /\ r.st = run[p].st
          /\ r.prior = run[p].prior /\ r.calm = run[p].calm /\ r.tries = m /\ r.alone = u
      BY <2>1, <3>1 DEF Runs
    <3>3. QED
      BY <3>2 DEF m
<1> HIDE DEF r
<1>6. CASE Enough(r, ok)
  <2>1. run' = [run EXCEPT ![p] = After(r, ok)]
    BY <1>1, <1>6
  <2>2. (r.stage = "sync" /\ r.flow = "unshield" => ok.sp) /\ (r.stage = "merge" => ok.sp)
    BY <1>6 DEF Enough
  <2>3. r.stage = "deposit" /\ r.alone => ok.sp
    BY <1>4, <1>5
  <2>4. ok.sp => r.st.sp = Truth(log)[Tip].sp
    BY <1>3, <1>5
  <2>5. /\ r.flow = run[p].flow /\ r.calm = run[p].calm /\ r.prior = run[p].prior
        /\ r.st \in {run[p].st, store, Fresh}
    BY <1>5
  <2>6. QED
    <3>1. UNCHANGED <<netVars, store, pool, history>>
      BY <1>1
    <3>2. ok \in Oks /\ r \in Runs
      BY <1>3, <1>5
    <3>3. QED
      BY <2>1, <2>2, <2>3, <2>4, <2>5, <3>1, <3>2, AfterStep
<1>7. CASE ~ Enough(r, ok) /\ Reconciles(r) /\ r.tries > Reads
  <2> DEFINE g == [r EXCEPT !.st = store]
  <2>1. run' = [run EXCEPT ![p] = After(g, ok)]
    BY <1>1, <1>7
  <2>2. /\ g \in Runs /\ g.flow = r.flow /\ g.stage = r.stage /\ g.calm = r.calm /\ g.st = store
        /\ g.prior = r.prior
    BY <1>2, <1>5 DEF Runs
  <2> HIDE DEF g
  <2>3. ~ ok.sp /\ g.stage = "sync" /\ g.flow # "unshield"
    BY <1>7, <2>2 DEF Reconciles, Enough
  <2>4. ok.sp => g.st.sp = Truth(log)[Tip].sp
    BY <2>3
  <2>5. /\ g.flow = run[p].flow /\ g.calm = run[p].calm /\ g.prior = run[p].prior
        /\ g.st \in {run[p].st, store, Fresh}
        /\ (g.stage = "sync" /\ g.flow = "unshield" => ok.sp) /\ (g.stage = "merge" => ok.sp)
        /\ (g.stage = "deposit" /\ g.alone => ok.sp)
    BY <1>5, <2>2, <2>3
  <2>6. QED
    <3>1. UNCHANGED <<netVars, store, pool, history>>
      BY <1>1
    <3>2. ok \in Oks /\ g \in Runs
      BY <1>3, <2>2
    <3>3. QED
      BY <2>1, <2>4, <2>5, <3>1, <3>2, AfterStep
<1>8. CASE ~ Enough(r, ok) /\ ~ (Reconciles(r) /\ r.tries > Reads)
           /\ r.tries = (IF Reconciles(r) THEN 1 ELSE Polls)
  BY <1>1, <1>5, <1>8, LoopStep
<1>9. CASE ~ Enough(r, ok) /\ ~ (Reconciles(r) /\ r.tries > Reads)
           /\ r.tries # (IF Reconciles(r) THEN 1 ELSE Polls)
  <2>1. run' = [run EXCEPT ![p] = Syncs(r)]
    BY <1>1, <1>9
  <2>2. r.calm => lost
    BY <1>1, <1>2, <1>5, <1>9 DEF CalmOK, Reconciles
  <2>3. QED
    BY <1>1, <1>5, <2>1, <2>2, LoopStep
<1>10. QED
  BY <1>6, <1>7, <1>8, <1>9

\* A wait that fails puts back what was stored when it began.
LEMMA PutBackStep ==
    ASSUME CtInv, NEW p \in Actors, UNCHANGED <<netVars, pool, history>>,
           End(p), store' = run[p].prior
    PROVE  CtInv'
<1>1. /\ run[p] \in Runs /\ FlowOK(run[p], pool[p]) /\ lost \in BOOLEAN
      /\ pool[p] \in Transactions \cup {None} /\ (pool[p] # None => SentOK(pool[p]))
      /\ lost \/ late \/ Good(log, run[p].prior)
  BY ActorType
<1>2. store' \in Caches /\ store'.cur <= seen
  BY <1>1 DEF Runs, FlowOK
<1>3. run' = [run EXCEPT ![p] = Free] /\ pool' = [pool EXCEPT ![p] = pool[p]]
      /\ lost' = lost /\ late' = late
  BY DEF End, CtInv, TypesOK, history
<1>4. /\ Free \in Runs /\ Free.flow = "none" /\ FlowOK(Free, pool[p])
      /\ Good(log, Free.st) /\ Good(log, Free.prior)
      /\ HeldOK(Free, pool[p], Truth(log)[Tip].sp) /\ CalmOK(Free, Truth(log)[Tip].sp, lost')
  BY FreeOK
<1>5. lost' \/ late \/ (Good(log, store') /\ Good(log, Free.st) /\ Good(log, Free.prior))
  BY <1>1, <1>3, <1>4
<1>6. QED
  BY <1>1, <1>2, <1>3, <1>4, <1>5, OneActor

LEMMA CheckStep == ASSUME CtInv, NEW p \in Actors, Check(p) PROVE CtInv'
<1> DEFINE ok == Agrees(run[p].st)
           u == Undisturbed(run[p], ok)
           r == [run[p] EXCEPT !.alone = u]
<1>1. /\ run[p].pc = "check" /\ UNCHANGED <<netVars, pool, history>>
      /\ \/ /\ Enough(r, ok) \/ r.stage = "register"
            /\ run' = [run EXCEPT ![p] = After(r, ok)]
            /\ UNCHANGED store
         \/ /\ ~Enough(r, ok) /\ Reconciles(r)
            /\ run' = [run EXCEPT ![p] = Syncs(r)]
            /\ UNCHANGED store
         \/ /\ End(p)
            /\ store' = r.prior
  BY DEF Check, At
<1>2. run[p] \in Runs /\ CalmOK(run[p], Truth(log)[Tip].sp, lost)
  BY ActorType
<1>3. ok \in Oks /\ (ok.sp <=> run[p].st.sp = Truth(log)[Tip].sp)
  BY AgreesOK
<1>4. u \in BOOLEAN /\ (u /\ run[p].stage = "deposit" => ok.sp)
  BY DEF Undisturbed
<1> HIDE DEF ok, u
<1>5. /\ r \in Runs /\ r.flow = run[p].flow /\ r.stage = run[p].stage /\ r.st = run[p].st
      /\ r.prior = run[p].prior /\ r.calm = run[p].calm /\ r.alone = u
  BY <1>2, <1>4 DEF Runs
<1> HIDE DEF r
<1>6. CASE (Enough(r, ok) \/ r.stage = "register") /\ UNCHANGED store
           /\ run' = [run EXCEPT ![p] = After(r, ok)]
  <2>1. (r.stage = "sync" /\ r.flow = "unshield" => ok.sp) /\ (r.stage = "merge" => ok.sp)
    BY <1>6 DEF Enough
  <2>2. r.stage = "deposit" /\ r.alone => ok.sp
    BY <1>4, <1>5
  <2>3. ok.sp => r.st.sp = Truth(log)[Tip].sp
    BY <1>3, <1>5
  <2>4. r.st \in {run[p].st, store, Fresh}
    BY <1>5
  <2>5. QED
    BY <1>1, <1>3, <1>5, <1>6, <2>1, <2>2, <2>3, <2>4, AfterStep
<1>7. CASE ~ Enough(r, ok) /\ Reconciles(r) /\ UNCHANGED store
           /\ run' = [run EXCEPT ![p] = Syncs(r)]
  <2>1. r.calm => lost
    BY <1>1, <1>2, <1>3, <1>5, <1>7 DEF CalmOK, Enough
  <2>2. QED
    BY <1>1, <1>5, <1>7, <2>1, LoopStep
<1>8. CASE End(p) /\ store' = r.prior
  BY <1>1, <1>5, <1>8, PutBackStep
<1>9. QED
  BY <1>1, <1>6, <1>7, <1>8

LEMMA AgainStep == ASSUME CtInv, NEW p \in Actors, Again(p) PROVE CtInv'
<1> DEFINE r == run[p]
           ok == Agrees(r.prior)
           n == IF r.flow = "settle" THEN SpendOr(r, MergeIf(r, r.st.rcv # Zero /\ ok.rcv))
                ELSE MergeIf(r, ok.rcv)
<1>1. /\ run[p].pc = "again" /\ UNCHANGED <<netVars, store, pool, history>>
      /\ run' = [run EXCEPT ![p] = n]
  BY DEF Again, At
<1>2. /\ r \in Runs /\ CalmOK(r, Truth(log)[Tip].sp, lost)
      /\ HeldOK(r, pool[p], Truth(log)[Tip].sp)
  BY ActorType
<1>3. \A test : NextOK(MergeIf(r, test), r) /\ MergeIf(r, test).pc # "again"
                /\ MergeIf(r, test).stage # "spend"
  BY <1>2, MergeIfNext
<1>4. NextOK(n, r) /\ (n.pc = "submit" /\ n.stage = "spend" => r.flow = "settle") /\ n.pc # "again"
  <2>1. CASE r.flow = "settle"
    <3>1. n = SpendOr(r, MergeIf(r, r.st.rcv # Zero /\ ok.rcv))
      BY <2>1
    <3>2. QED
      BY <1>2, <1>3, <2>1, <3>1, SpendOrNext
  <2>2. CASE r.flow # "settle"
    <3>1. n = MergeIf(r, ok.rcv)
      BY <2>2
    <3>2. QED
      BY <1>3, <3>1
  <2>3. QED
    BY <2>1, <2>2
<1> HIDE DEF n
<1>5. n.calm = FALSE
  <2>1. SUFFICES ASSUME n.calm PROVE FALSE
    BY <1>4 DEF NextOK, Runs
  <2>2. QED
    BY <1>1, <1>2, <1>4, <2>1 DEF CalmOK, NextOK
<1>6. Held(n, r)
  BY <1>1, <1>2, <1>4 DEF Held, HeldOK, NextOK
<1>7. QED
  BY <1>1, <1>2, <1>4, <1>5, <1>6, NextStep DEF CalmOK

LEMMA SaveStep == ASSUME CtInv, NEW p \in Actors, Save(p) PROVE CtInv'
<1> DEFINE pc == IF run[p].pc = "synced" THEN "verify" ELSE "check"
           r == [run[p] EXCEPT !.pc = pc]
<1>1. /\ run[p].pc \in {"synced", "rebuilt"} /\ store' = run[p].st
      /\ run' = [run EXCEPT ![p] = r] /\ UNCHANGED <<netVars, pool, history>>
  BY DEF Save, At
<1>2. /\ run[p] \in Runs /\ run[p].flow \in FlowsOf[p] \cup {"none"} /\ FlowOK(run[p], pool[p])
      /\ pool[p] \in Transactions \cup {None} /\ (pool[p] # None => SentOK(pool[p]))
      /\ lost \/ late \/ (Good(log, run[p].st) /\ Good(log, run[p].prior))
      /\ CalmOK(run[p], Truth(log)[Tip].sp, lost) /\ lost \in BOOLEAN
  BY ActorType
<1>3. /\ r \in Runs /\ r.flow = run[p].flow /\ r.stage = run[p].stage /\ r.st = run[p].st
      /\ r.prior = run[p].prior /\ r.calm = run[p].calm /\ r.tries = run[p].tries
      /\ r.pc = pc /\ pc \in {"verify", "check"}
  BY <1>2 DEF Runs, Pcs
<1>4. pool' = [pool EXCEPT ![p] = pool[p]] /\ lost' = lost /\ late' = late
  BY <1>1 DEF CtInv, TypesOK, history
<1>5. store' \in Caches /\ store'.cur <= seen
  BY <1>1, <1>2 DEF Runs, FlowOK
<1>6. CalmOK(r, Truth(log)[Tip].sp, lost')
  <2>1. pc = "check" <=> run[p].pc = "rebuilt"
    BY <1>1
  <2> HIDE DEF r, pc
  <2>2. QED
    BY <1>1, <1>2, <1>3, <1>4, <2>1 DEF CalmOK
<1> HIDE DEF r, pc
<1>7. FlowOK(r, pool[p]) /\ HeldOK(r, pool[p], Truth(log)[Tip].sp)
  BY <1>2, <1>3 DEF FlowOK, HeldOK
<1>8. lost' \/ late \/ (Good(log, store') /\ Good(log, r.st) /\ Good(log, r.prior))
  BY <1>1, <1>2, <1>3, <1>4
<1>9. r.flow \in FlowsOf[p] \cup {"none"} /\ UNCHANGED netVars
  BY <1>1, <1>2, <1>3
<1>10. QED
  BY <1>1, <1>2, <1>3, <1>4, <1>5, <1>6, <1>7, <1>8, <1>9, OneActor

-----------------------------------------------------------------------------
(* Flows begin.                                                            *)

LEMMA BeginStep ==
    ASSUME CtInv, NEW p \in Actors, UNCHANGED <<netVars, store, pool, history>>,
           NEW r \in Runs, r.flow \in FlowsOf[p], NEW n, NextOK(n, r),
           r.st = Fresh, r.prior = Fresh,
           n.pc = "sync" \/ (n.pc = "submit" /\ n.stage # "spend"),
           n.calm => seen = Tip /\ n.flow = "read" /\ n.stage = "sync" /\ n.tries = 0 /\ n.pc = "sync",
           run' = [run EXCEPT ![p] = n]
    PROVE  CtInv'
<1>1. /\ log \in Seq(Events) /\ seen \in Nat /\ Fresh.cur = 0 /\ Good(log, Fresh)
      /\ lost' = lost /\ late' = late /\ lost \in BOOLEAN
      /\ store \in Caches /\ store.cur <= seen /\ (lost \/ late \/ Good(log, store))
  BY Basics, FreshType, FreshIsGood, ActorType DEF CtInv, history
<1>2. n \in Runs /\ n.flow \in FlowsOf[p] \cup {"none"} /\ n.st = Fresh /\ n.prior \in {Fresh, store}
  BY DEF NextOK
<1>3. FlowOK(n, pool[p])
  <2>1. n.st.cur <= seen /\ n.prior.cur <= seen
    BY <1>1, <1>2
  <2>2. QED
    BY <2>1 DEF NextOK, FlowOK
<1>4. HeldOK(n, pool[p], Truth(log)[Tip].sp) /\ CalmOK(n, Truth(log)[Tip].sp, lost')
  BY DEF HeldOK, CalmOK
<1>5. lost' \/ late \/ (Good(log, n.st) /\ Good(log, n.prior))
  BY <1>1, <1>2
<1>6. lost' \in BOOLEAN /\ (lost => lost') /\ UNCHANGED <<netVars, store, pool, late>>
  BY <1>1
<1>7. QED
  BY <1>2, <1>3, <1>4, <1>5, <1>6, OneFlow

LEMMA BeginReadStep == ASSUME CtInv, NEW p \in Actors, BeginRead(p) PROVE CtInv'
<1> DEFINE c == seen = Tip
           r == [Free EXCEPT !.flow = "read", !.calm = (seen = Tip)]
           n == Polling(r, "sync")
<1>1. /\ "read" \in FlowsOf[p] /\ run' = [run EXCEPT ![p] = n]
      /\ UNCHANGED <<netVars, store, pool, history>>
  BY DEF BeginRead
<1>2. /\ r \in Runs /\ r.flow = "read" /\ r.st = Fresh /\ r.prior = Fresh /\ (r.calm <=> seen = Tip)
  BY FreshType DEF Free, Runs, Flows, Stages, Pcs
<1>3. store \in Caches
  BY ActorType
<1> HIDE DEF r
<1>4. /\ NextOK(n, r) /\ n.pc = "sync" /\ n.stage = "sync" /\ n.tries = 0 /\ n.flow = "read"
  BY <1>2, <1>3, PollingNext DEF Stages
<1> HIDE DEF n
<1>5. n.calm => seen = Tip
  BY <1>2, <1>4 DEF NextOK
<1>6. QED
  BY <1>1, <1>2, <1>4, <1>5, BeginStep

LEMMA BeginFlowStep ==
    ASSUME CtInv, NEW p \in Actors, NEW flow \in Flows \ {"read"}, NEW x \in Amounts,
           Begin(p, flow, x)
    PROVE  CtInv'
<1> DEFINE r == [Free EXCEPT !.flow = flow, !.amount = x, !.alone = TRUE]
           n == IF ~Registered THEN Submits(r, "register")
                ELSE IF flow = "shield" THEN [Submits(r, "deposit") EXCEPT !.due = x]
                ELSE Polling(r, "sync")
<1>1. /\ flow \in FlowsOf[p] /\ run' = [run EXCEPT ![p] = n]
      /\ UNCHANGED <<netVars, store, pool, history>>
  BY DEF Begin
<1>2. x \in Nat
  BY CtAssumption
<1>3. /\ r \in Runs /\ r.flow = flow /\ r.st = Fresh /\ r.prior = Fresh /\ r.calm = FALSE
  BY <1>2, FreshType DEF Free, Runs, Flows, Stages, Pcs
<1>4. store \in Caches
  BY ActorType
<1> HIDE DEF r
<1>5. NextOK(n, r) /\ (n.pc = "sync" \/ (n.pc = "submit" /\ n.stage # "spend"))
  <2>1. NextOK(Submits(r, "register"), r) /\ Submits(r, "register").pc = "submit"
        /\ Submits(r, "register").stage = "register"
    BY <1>3, SubmitsNext
  <2>2. NextOK([Submits(r, "deposit") EXCEPT !.due = x], r)
        /\ [Submits(r, "deposit") EXCEPT !.due = x].pc = "submit"
        /\ [Submits(r, "deposit") EXCEPT !.due = x].stage = "deposit"
    BY <1>2, <1>3, SubmitsNext
  <2>3. NextOK(Polling(r, "sync"), r) /\ Polling(r, "sync").pc = "sync"
    BY <1>3, <1>4, PollingNext DEF Stages
  <2>4. QED
    BY <2>1, <2>2, <2>3
<1> HIDE DEF n
<1>6. n.calm => FALSE
  BY <1>3, <1>5 DEF NextOK
<1>7. QED
  BY <1>1, <1>3, <1>5, <1>6, BeginStep

-----------------------------------------------------------------------------
(* Transactions.                                                           *)

LEMMA SubmitStep == ASSUME CtInv, NEW p \in Actors, Submit(p) PROVE CtInv'
<1> DEFINE op == Transaction(run[p])
           r == [run[p] EXCEPT !.pc = "await", !.st = Fresh]
<1>1. /\ run[p].pc = "submit" /\ pool' = [pool EXCEPT ![p] = op]
      /\ run' = [run EXCEPT ![p] = r] /\ UNCHANGED <<netVars, store, history>>
  BY DEF Submit, At, CtInv, TypesOK
<1>2. /\ run[p] \in Runs /\ run[p].flow \in FlowsOf[p] \cup {"none"} /\ FlowOK(run[p], pool[p])
      /\ HeldOK(run[p], pool[p], Truth(log)[Tip].sp)
      /\ CalmOK(run[p], Truth(log)[Tip].sp, lost) /\ lost \in BOOLEAN
      /\ store \in Caches /\ store.cur <= seen
      /\ lost \/ late \/ (Good(log, store) /\ Good(log, run[p].prior))
  BY ActorType
<1>3. /\ log \in Seq(Events) /\ Tip \in Nat /\ seen \in Nat /\ Fresh.cur = 0 /\ Fresh \in Caches
      /\ Zero \in Openings /\ Good(log, Fresh)
  BY Basics, FreshType, FreshIsGood DEF CtInv
<1>4. /\ op \in Transactions /\ op.at = 0
      /\ op.type \in Spends <=> run[p].stage = "spend"
      /\ op.type \in Spends => op.using = run[p].st.sp /\ op.x = run[p].amount
  <2>1. /\ run[p].stage \in {"register", "deposit", "merge", "spend"}
        /\ run[p].st.sp \in Openings /\ run[p].amount \in Nat /\ run[p].due \in Nat
    BY <1>1, <1>2 DEF FlowOK, Runs, Caches
  <2>2. CASE run[p].stage = "spend"
    <3>1. op = [type |-> Kind(run[p]), using |-> run[p].st.sp, x |-> run[p].amount, at |-> 0]
      BY <2>2 DEF Transaction
    <3>2. Kind(run[p]) \in Spends
      BY DEF Kind, Spends
    <3>3. QED
      BY <2>1, <2>2, <3>1, <3>2 DEF Transactions
  <2>3. CASE run[p].stage # "spend"
    <3> DEFINE x == IF run[p].stage = "deposit" THEN run[p].due ELSE 0
    <3>1. op = [type |-> run[p].stage, using |-> Zero, x |-> x, at |-> 0]
      BY <2>3 DEF Transaction
    <3>2. x \in Nat
      BY <2>1
    <3> HIDE DEF x
    <3>3. QED
      BY <1>3, <2>1, <2>3, <3>1, <3>2 DEF Transactions, Spends
  <2>4. QED
    BY <2>2, <2>3
<1>5. op # None
  BY <1>4, CtAssumption
<1>6. /\ r \in Runs /\ r.flow = run[p].flow /\ r.stage = run[p].stage /\ r.st = Fresh
      /\ r.prior = run[p].prior /\ r.pc = "await" /\ r.alone = run[p].alone /\ r.calm = run[p].calm
  BY <1>2, <1>3 DEF Runs, Pcs
<1> HIDE DEF op, r
<1>7. SentOK(op)
  BY <1>1, <1>2, <1>3, <1>4 DEF SentOK, FlowOK
<1>8. FlowOK(r, op)
  BY <1>2, <1>3, <1>4, <1>5, <1>6 DEF FlowOK
<1>9. HeldOK(r, op, Truth(log)[Tip].sp)
  BY <1>1, <1>2, <1>4, <1>6 DEF HeldOK
<1>10. CalmOK(r, Truth(log)[Tip].sp, lost')
  BY <1>1, <1>2, <1>6 DEF CalmOK
<1>11. /\ lost' = lost /\ late' = late /\ store' = store /\ UNCHANGED netVars
  BY <1>1 DEF history
<1>12. /\ lost' \/ late \/ (Good(log, store') /\ Good(log, r.st) /\ Good(log, r.prior))
       /\ lost' \in BOOLEAN /\ (lost => lost') /\ store' \in Caches /\ store'.cur <= seen
       /\ r.flow \in FlowsOf[p] \cup {"none"} /\ op \in Transactions \cup {None}
  BY <1>2, <1>3, <1>4, <1>6, <1>11
<1>13. QED
  BY <1>1, <1>6, <1>7, <1>8, <1>9, <1>10, <1>11, <1>12, OneActor

\* A flow gives up, whatever becomes of its transaction.
LEMMA EndStep ==
    ASSUME CtInv, NEW p \in Actors, UNCHANGED <<netVars, store, history>>, End(p),
           NEW op \in {None, pool[p]}, pool' = [pool EXCEPT ![p] = op]
    PROVE  CtInv'
<1>1. /\ pool[p] \in Transactions \cup {None} /\ (pool[p] # None => SentOK(pool[p]))
      /\ lost \in BOOLEAN /\ store \in Caches /\ store.cur <= seen
      /\ lost \/ late \/ Good(log, store)
  BY ActorType
<1>2. run' = [run EXCEPT ![p] = Free] /\ lost' = lost /\ late' = late /\ store' = store
      /\ UNCHANGED netVars
  BY DEF End, history
<1>3. /\ Free \in Runs /\ Free.flow = "none" /\ FlowOK(Free, op)
      /\ Good(log, Free.st) /\ Good(log, Free.prior)
      /\ HeldOK(Free, op, Truth(log)[Tip].sp) /\ CalmOK(Free, Truth(log)[Tip].sp, lost')
  BY FreeOK
<1>4. op \in Transactions \cup {None} /\ (op # None => SentOK(op))
  BY <1>1
<1>5. lost' \/ late \/ (Good(log, store') /\ Good(log, Free.st) /\ Good(log, Free.prior))
  BY <1>1, <1>2, <1>3
<1>6. QED
  BY <1>1, <1>2, <1>3, <1>4, <1>5, OneActor

LEMMA AbandonStep == ASSUME CtInv, NEW p \in Actors, Abandon(p) PROVE CtInv'
<1> DEFINE op == IF pool[p] # None /\ pool[p].at = 0 THEN pool[p] ELSE None
<1>1. /\ End(p) /\ UNCHANGED <<netVars, store, history>> /\ op \in {None, pool[p]}
      /\ pool' = [pool EXCEPT ![p] = op]
  BY DEF Abandon, CtInv, TypesOK
<1> HIDE DEF op
<1>2. QED
  BY <1>1, EndStep

LEMMA RefuseStep == ASSUME CtInv, NEW p \in Actors, Refuse(p) PROVE CtInv'
<1>1. /\ pool' = [pool EXCEPT ![p] = None] /\ UNCHANGED <<netVars, store, history>>
      /\ IF At(p, "await") THEN End(p) ELSE UNCHANGED run
  BY DEF Refuse
<1>2. CASE At(p, "await")
  BY <1>1, <1>2, EndStep
<1>3. CASE ~ At(p, "await")
  <2>1. /\ run[p] \in Runs /\ run[p].flow \in FlowsOf[p] \cup {"none"}
        /\ FlowOK(run[p], pool[p]) /\ HeldOK(run[p], pool[p], Truth(log)[Tip].sp)
        /\ CalmOK(run[p], Truth(log)[Tip].sp, lost) /\ lost \in BOOLEAN
        /\ store \in Caches /\ store.cur <= seen
        /\ lost \/ late \/ (Good(log, store) /\ Good(log, run[p].st) /\ Good(log, run[p].prior))
    BY ActorType
  <2>2. run' = [run EXCEPT ![p] = run[p]] /\ lost' = lost /\ late' = late /\ store' = store
        /\ UNCHANGED netVars
    BY <1>1, <1>3 DEF history, CtInv, TypesOK
  <2>3. FlowOK(run[p], None) /\ HeldOK(run[p], None, Truth(log)[Tip].sp)
    BY <1>3, <2>1 DEF FlowOK, HeldOK, At
  <2>4. CalmOK(run[p], Truth(log)[Tip].sp, lost')
        /\ (lost' \/ late \/ (Good(log, store') /\ Good(log, run[p].st) /\ Good(log, run[p].prior)))
        /\ lost' \in BOOLEAN /\ (lost => lost') /\ store' \in Caches /\ store'.cur <= seen
    BY <2>1, <2>2
  <2>5. QED
    BY <1>1, <2>1, <2>2, <2>3, <2>4, OneActor
<1>4. QED
  BY <1>2, <1>3

LEMMA SetSpendableStep ==
    ASSUME CtInv, NEW p \in Actors, At(p, "await"), pool[p].at # 0, run[p].stage = "spend",
           SetSpendable(p), pool' = [pool EXCEPT ![p] = None], UNCHANGED <<netVars, lost>>
    PROVE  CtInv'
<1> DEFINE a == pool[p].at
           o == [v |-> log[a].x, r |-> {a}]
<1>1. /\ log \in Seq(Events) /\ Tip \in Nat /\ Tip = Len(log)
      /\ (\A i \in 1..Tip : log[i] \in Events) /\ seen \in Nat /\ seen <= Tip
  BY Basics DEF CtInv
<1>2. /\ FlowOK(run[p], pool[p]) /\ (pool[p] # None => SentOK(pool[p]))
      /\ store \in Caches /\ store.cur <= seen /\ lost \in BOOLEAN /\ late \in BOOLEAN
      /\ lost \/ late \/ Good(log, store)
  BY ActorType DEF CtInv, TypesOK
<1>3. a \in 1..Tip /\ log[a].type \in Spends
  <2>1. pool[p] # None /\ pool[p].type \in Spends
    BY <1>2 DEF FlowOK, At
  <2>2. QED
    BY <1>1, <1>2, <2>1 DEF SentOK
<1>4. o \in Openings
  BY <1>1, <1>3 DEF Openings, Events
<1>5. /\ run' = [Disturbed(FALSE) EXCEPT ![p] = Free]
      /\ store' = [store EXCEPT !.sp = o]
      /\ late' = (late \/ \E i \in (a + 1)..Tip : Moves(i))
      /\ lost' = lost /\ UNCHANGED netVars
  BY DEF SetSpendable
<1> HIDE DEF a
<1>6. store' \in Caches /\ store'.cur = store.cur /\ store'.cur <= seen
  BY <1>2, <1>4, <1>5 DEF Caches
<1>7. (late => late') /\ late' \in BOOLEAN /\ (~ late' => \A i \in (a + 1)..Tip : ~ Moves(i))
  BY <1>5, Zenon
<1>8. lost' \/ late' \/ Good(log, store')
  <2>1. SUFFICES ASSUME ~ lost', ~ late' PROVE Good(log, store')
    OBVIOUS
  <2>2. Good(log, store)
    BY <1>2, <1>5, <1>7, <2>1
  <2>3. \A i \in (a + 1)..Len(log) : log[i].type \notin Spends \cup {"merge"}
    BY <1>1, <1>7, <2>1 DEF Moves
  <2>4. store.cur \in 0..Len(log) /\ a \in 1..Len(log)
    BY <1>1, <1>2, <1>3 DEF Caches
  <2>5. Good(log, [store EXCEPT !.sp = [v |-> log[a].x, r |-> {a}]])
    BY <1>1, <1>2, <1>3, <2>2, <2>3, <2>4, SetSpendableIsGood
  <2>6. QED
    BY <1>5, <2>5
<1>9. /\ Free \in Runs /\ Free.flow = "none" /\ FlowOK(Free, None)
      /\ Good(log, Free.st) /\ Good(log, Free.prior)
      /\ HeldOK(Free, None, Truth(log)[Tip].sp) /\ CalmOK(Free, Truth(log)[Tip].sp, lost')
  BY FreeOK
<1>10. lost' \/ late' \/ (Good(log, store') /\ Good(log, Free.st) /\ Good(log, Free.prior))
  BY <1>8, <1>9
<1> HIDE DEF o
<1>11. /\ lost' \in BOOLEAN /\ (lost => lost') /\ late' \in BOOLEAN /\ (late => late')
       /\ Free.flow \in FlowsOf[p] \cup {"none"} /\ UNCHANGED netVars
       /\ None \in Transactions \cup {None} /\ (None # None => SentOK(None))
  BY <1>2, <1>5, <1>7, <1>9
<1>12. run' = [Disturbed(FALSE) EXCEPT ![p] = Free]
  BY <1>5
<1>13. QED
  BY <1>6, <1>9, <1>10, <1>11, <1>12, ActorStep

LEMMA AnswerStep == ASSUME CtInv, NEW p \in Actors, Answer(p) PROVE CtInv'
<1>1. /\ At(p, "await") /\ pool[p].at # 0 /\ pool' = [pool EXCEPT ![p] = None]
      /\ UNCHANGED <<netVars, lost>>
  BY DEF Answer
<1>2. CASE run[p].stage = "spend" /\ SetSpendable(p)
  BY <1>1, <1>2, SetSpendableStep
<1>3. CASE \/ run[p].stage = "register" /\ run' = [run EXCEPT ![p] = Rebuilds(@)]
                /\ UNCHANGED <<store, late>>
           \/ run[p].stage \in {"deposit", "merge"}
                /\ run' = [run EXCEPT ![p] = Polling(@, run[p].stage)]
                /\ UNCHANGED <<store, late>>
  <2> DEFINE n == IF run[p].stage = "register" THEN Rebuilds(run[p]) ELSE Polling(run[p], run[p].stage)
  <2>1. /\ run[p] \in Runs /\ run[p].flow \in FlowsOf[p] \cup {"none"}
        /\ FlowOK(run[p], pool[p]) /\ CalmOK(run[p], Truth(log)[Tip].sp, lost) /\ lost \in BOOLEAN
        /\ store \in Caches /\ store.cur <= seen
        /\ lost \/ late \/ (Good(log, store) /\ Good(log, run[p].prior))
    BY ActorType
  <2>2. run' = [run EXCEPT ![p] = n] /\ lost' = lost /\ late' = late /\ store' = store
        /\ UNCHANGED netVars
    BY <1>1, <1>3 DEF CtInv, TypesOK
  <2>3. NextOK(n, run[p]) /\ n.pc \in {"rebuild", "sync"}
    <3>1. run[p].stage \in Stages
      BY <1>3 DEF Stages
    <3>2. QED
      BY <2>1, <3>1, SyncsNext, PollingNext
  <2> HIDE DEF n
  <2>4. /\ n \in Runs /\ n.flow \in FlowsOf[p] \cup {"none"}
        /\ n.st \in {run[p].st, Fresh} /\ n.prior \in {run[p].prior, Fresh, store}
    <3>1. n \in Runs /\ n.flow \in {run[p].flow, "none"}
          /\ n.st \in {run[p].st, Fresh} /\ n.prior \in {run[p].prior, Fresh, store}
      BY <2>3 DEF NextOK
    <3>2. QED
      BY <2>1, <3>1
  <2>5. /\ log \in Seq(Events) /\ seen \in Nat /\ Fresh.cur = 0 /\ Good(log, Fresh)
    BY Basics, FreshType, FreshIsGood DEF CtInv
  <2>6. FlowOK(n, None)
    <3>1. n.st.cur <= seen /\ n.prior.cur <= seen
      BY <2>1, <2>4, <2>5 DEF FlowOK
    <3>2. QED
      BY <2>3, <3>1 DEF FlowOK
  <2>7. HeldOK(n, None, Truth(log)[Tip].sp) /\ CalmOK(n, Truth(log)[Tip].sp, lost')
    <3>1. ~ n.calm
      BY <1>1, <2>1, <2>3 DEF CalmOK, NextOK, At
    <3>2. QED
      BY <2>3, <3>1 DEF HeldOK, CalmOK
  <2>8. lost' \/ late \/ (Good(log, store') /\ Good(log, n.st) /\ Good(log, n.prior))
    <3>1. lost \/ late \/ Good(log, run[p].st)
      BY ActorType
    <3>2. QED
      BY <2>1, <2>2, <2>4, <2>5, <3>1
  <2>9. lost' \in BOOLEAN /\ (lost => lost') /\ store' \in Caches /\ store'.cur <= seen
    BY <2>1, <2>2
  <2>10. QED
    BY <1>1, <2>2, <2>4, <2>6, <2>7, <2>8, <2>9, OneActor
<1>4. QED
  BY <1>2, <1>3 DEF Answer

-----------------------------------------------------------------------------
(* Something happens to the account.                                       *)

\* An event lands: what everyone read is disturbed, of the balance too if it moves it.
LEMMA HappensStep ==
    ASSUME CtInv, NEW e \in Events, Happens(e), UNCHANGED <<seen, floor, store, history>>,
           NEW moves \in BOOLEAN, e.type \in Spends \cup {"merge"} => moves,
           run' = Disturbed(moves), log = <<>> => e.type = "register",
           pool' \in [Actors -> Transactions \cup {None}],
           \A q \in Actors :
               \/ pool'[q] = pool[q]
               \/ run[q].pc # "await" /\ pool'[q] = None
               \/ /\ pool[q] # None /\ pool'[q] # None /\ pool[q].type = e.type
                  /\ pool'[q] = [pool[q] EXCEPT !.at = Tip + 1]
    PROVE  CtInv'
<1>1. /\ log \in Seq(Events) /\ Tip \in Nat /\ Tip = Len(log) /\ seen \in Nat /\ seen <= Tip
      /\ room \in Nat /\ (\A i \in 1..Tip : log[i] \in Events)
      /\ store \in Caches /\ store.cur <= seen
  BY Basics DEF CtInv, TypesOK
<1>2. /\ log' = Append(log, e) /\ log' \in Seq(Events) /\ Tip' = Tip + 1 /\ Len(log') = Tip'
      /\ room' \in Nat /\ seen' = seen /\ floor' = floor /\ Seam' = Seam /\ store' = store
      /\ lost' = lost /\ late' = late
      /\ \A i \in 1..Tip : log'[i] = log[i]
      /\ log'[Tip + 1] = e
  BY <1>1 DEF Happens, Tip, Seam, history
<1>3. ASSUME NEW q \in Actors PROVE run' \in [Actors -> Runs] /\ Kept(run'[q], run[q], moves)
  BY <1>3, DisturbedFields
<1>4. ASSUME NEW q \in Actors
      PROVE  /\ run[q] \in Runs /\ run[q].flow \in FlowsOf[q] \cup {"none"} /\ FlowOK(run[q], pool[q])
             /\ pool[q] \in Transactions \cup {None} /\ (pool[q] # None => SentOK(pool[q]))
             /\ lost \/ late \/ (Good(log, run[q].st) /\ Good(log, run[q].prior))
             /\ HeldOK(run[q], pool[q], Truth(log)[Tip].sp)
  BY ActorType
<1>5. ASSUME NEW q \in Actors, pool[q] # None, pool'[q] # None, pool'[q] = [pool[q] EXCEPT !.at = Tip + 1]
      PROVE  pool'[q].type = pool[q].type /\ pool'[q].using = pool[q].using
             /\ pool'[q].x = pool[q].x /\ pool'[q].at = Tip + 1
  <2>1. pool[q] \in Transactions
    BY <1>4, <1>5
  <2>2. QED
    BY <1>5, <2>1 DEF Transactions
<1>6. TypesOK'
  <2>1. ASSUME NEW q \in Actors
        PROVE  FlowOK(run[q], pool[q])'
    <3>1. run'[q].st.cur <= seen /\ run'[q].prior.cur <= seen
      BY <1>3, <1>4 DEF Kept, FlowOK
    <3>2. run'[q].pc = "await" => pool'[q] # None /\ (run'[q].stage = "spend" <=> pool'[q].type \in Spends)
      BY <1>3, <1>4, <1>5 DEF Kept, FlowOK
    <3>3. /\ run'[q].pc = "submit" => run'[q].stage \in {"register", "deposit", "merge", "spend"}
          /\ run'[q].pc = "submit" /\ run'[q].stage = "spend" => run'[q].st.sp.v >= run'[q].amount
      BY <1>3, <1>4 DEF Kept, FlowOK
    <3>4. QED
      BY <1>2, <3>1, <3>2, <3>3 DEF FlowOK
  <2>2. ASSUME NEW q \in Actors, pool'[q] # None PROVE SentOK(pool[q])'
    <3>1. CASE pool'[q] = pool[q]
      BY <1>1, <1>2, <1>4, <2>2, <3>1 DEF SentOK
    <3>2. CASE pool[q] # None /\ pool'[q] = [pool[q] EXCEPT !.at = Tip + 1] /\ pool[q].type = e.type
      BY <1>1, <1>2, <1>4, <1>5, <2>2, <3>2 DEF SentOK
    <3>3. QED
      BY <2>2, <3>1, <3>2
  <2>3. \A q \in Actors : run'[q].flow \in FlowsOf[q] \cup {"none"}
    BY <1>3, <1>4 DEF Kept
  <2>4. log' # <<>> /\ log'[1].type = "register"
    <3>1. CASE log = <<>>
      BY <1>1, <1>2, <3>1
    <3>2. CASE log # <<>>
      <4>1. 1 \in 1..Tip
        BY <1>1, <3>2
      <4>2. QED
        BY <1>1, <1>2, <3>2, <4>1 DEF CtInv, TypesOK
    <3>3. QED
      BY <3>1, <3>2
  <2>5. run' \in [Actors -> Runs]
    BY DisturbedRuns
  <2>6. QED
    BY <1>1, <1>2, <2>1, <2>2, <2>3, <2>4, <2>5 DEF CtInv, TypesOK
<1>7. CachesOK'
  <2>1. SUFFICES ASSUME ~ lost, ~ late
                 PROVE  /\ Good(log', store)
                        /\ \A q \in Actors : Good(log', run'[q].st) /\ Good(log', run'[q].prior)
    BY <1>2 DEF CachesOK
  <2>2. \A b \in Caches : b.cur <= seen /\ Good(log, b) => Good(log', b)
    <3>1. \A b \in Caches : b.cur <= seen => b.cur \in 0..Len(log)
      BY <1>1 DEF Caches
    <3>2. QED
      BY <1>1, <1>2, <3>1, GoodAppend
  <2>3. Good(log', store)
    BY <1>1, <2>1, <2>2 DEF CtInv, CachesOK
  <2>4. ASSUME NEW q \in Actors PROVE Good(log', run'[q].st) /\ Good(log', run'[q].prior)
    <3>1. /\ run[q].st \in Caches /\ run[q].st.cur <= seen /\ Good(log, run[q].st)
          /\ run[q].prior \in Caches /\ run[q].prior.cur <= seen /\ Good(log, run[q].prior)
      BY <1>4, <2>1 DEF Runs, FlowOK
    <3>2. QED
      BY <1>3, <2>2, <3>1 DEF Kept
  <2>5. QED
    BY <2>3, <2>4
<1>8. SpendsOK'
  <2>1. ~ moves => Truth(log')[Tip'].sp = Truth(log)[Tip].sp
    <3> DEFINE t == Truth(log)[Tip]
    <3>1. t \in Caches /\ Truth(log')[Tip'] = Apply(t, e, Tip + 1)
      BY <1>1, <1>2, TruthSteps, TruthOfPrefix
    <3> HIDE DEF t
    <3>2. ~ moves => Apply(t, e, Tip + 1).sp = t.sp
      <4>1. Tip + 1 \in Nat /\ (~ moves => e.type \notin Spends \cup {"merge"})
        BY <1>1
      <4>2. e.type \notin Spends \cup {"merge"} => Apply(t, e, Tip + 1).sp = t.sp
        BY <3>1, <4>1, ApplyMoves
      <4>3. QED
        BY <4>1, <4>2
    <3>3. QED
      BY <3>1, <3>2 DEF t
  <2>2. ASSUME NEW q \in Actors PROVE HeldOK(run'[q], pool'[q], Truth(log')[Tip'].sp)
    <3>1. CASE moves
      BY <1>3, <3>1 DEF Kept, HeldOK
    <3>2. CASE ~ moves
      <4>1. HeldOK(run'[q], pool'[q], Truth(log)[Tip].sp)
        BY <1>1, <1>3, <1>4, <1>5 DEF Kept, HeldOK
      <4>2. QED
        BY <2>1, <3>2, <4>1
    <3>3. QED
      BY <3>1, <3>2
  <2>3. QED
    BY <2>2 DEF SpendsOK, HeldOK
<1>9. ReadsOK'
  BY <1>3 DEF ReadsOK, CalmOK, Kept
<1>10. QED
  BY <1>6, <1>7, <1>8, <1>9 DEF CtInv

LEMMA OneRegistered == ASSUME CtInv, Registered PROVE log # <<>>
BY DEF Registered

LEMMA LandStep == ASSUME CtInv, NEW p \in Actors, Land(p) PROVE CtInv'
<1> DEFINE op == pool[p]
           e == Event(op)
           moves == e.type \in Spends \cup {"merge"}
           sent == IF run[p].pc = "await" THEN [op EXCEPT !.at = Tip + 1] ELSE None
<1>1. /\ op # None /\ op.at = 0 /\ Accepts(op) /\ Happens(e)
      /\ pool' = [pool EXCEPT ![p] = sent] /\ run' = Disturbed(moves)
      /\ UNCHANGED <<seen, floor, store, history>>
  BY DEF Land, At
<1>2. /\ op \in Transactions /\ SentOK(op) /\ Tip \in Nat
      /\ pool \in [Actors -> Transactions \cup {None}]
  BY <1>1, ActorType, Basics DEF CtInv, TypesOK
<1>3. e \in Events /\ e.type = op.type
  <2>1. op.using.v \in Nat /\ op.x \in Nat
    BY <1>2 DEF Transactions, Openings
  <2>2. op.type \in Spends => op.using.v - op.x \in Nat
    BY <1>2, <2>1 DEF SentOK
  <2> DEFINE x == IF op.type \in Spends THEN op.using.v - op.x ELSE op.x
  <2>3. x \in Nat /\ e = [type |-> op.type, x |-> x]
    BY <2>1, <2>2 DEF Event
  <2>4. op.type \in {"register", "deposit", "credit", "merge"} \cup Spends
    BY <1>2 DEF Transactions
  <2> HIDE DEF e, op, x
  <2>5. QED
    BY <2>3, <2>4 DEF Events
<1>4. log = <<>> => e.type = "register"
  <2>1. op.type # "register" => Registered
    BY <1>1, <1>2 DEF Accepts, Transactions, Spends
  <2>2. QED
    BY <1>3, <2>1, OneRegistered
<1>5. sent \in Transactions \cup {None}
  <2>1. [op EXCEPT !.at = Tip + 1] \in Transactions
    BY <1>2 DEF Transactions
  <2>2. QED
    BY <2>1
<1>6. sent # None => sent = [op EXCEPT !.at = Tip + 1]
  OBVIOUS
<1>7. run[p].pc # "await" => sent = None
  OBVIOUS
<1>8. run[p].pc = "await" => sent # None
  <2>1. [op EXCEPT !.at = Tip + 1] \in Transactions
    BY <1>2 DEF Transactions
  <2>2. QED
    BY <2>1, CtAssumption
<1> HIDE DEF sent, e
<1>9. ASSUME NEW q \in Actors
      PROVE  \/ pool'[q] = pool[q]
             \/ run[q].pc # "await" /\ pool'[q] = None
             \/ /\ pool[q] # None /\ pool'[q] # None /\ pool[q].type = e.type
                /\ pool'[q] = [pool[q] EXCEPT !.at = Tip + 1]
  <2>1. CASE q # p
    BY <1>1, <1>2, <2>1
  <2>2. CASE q = p
    <3>1. pool'[p] = sent
      BY <1>1, <1>2
    <3>2. QED
      BY <1>1, <1>3, <1>6, <1>7, <1>8, <2>2, <3>1
  <2>3. QED
    BY <2>1, <2>2
<1>10. pool' \in [Actors -> Transactions \cup {None}]
  BY <1>1, <1>2, <1>5
<1>11. moves \in BOOLEAN /\ (e.type \in Spends \cup {"merge"} => moves)
  OBVIOUS
<1> HIDE DEF moves
<1>12. QED
  BY <1>1, <1>3, <1>4, <1>9, <1>10, <1>11, HappensStep

LEMMA CreditStep == ASSUME CtInv, NEW x \in Amounts, Credit(x) PROVE CtInv'
<1> DEFINE e == [type |-> "credit", x |-> x]
<1>1. /\ Registered /\ Happens(e) /\ run' = Disturbed(FALSE)
      /\ UNCHANGED <<seen, floor, store, pool, history>>
  BY DEF Credit
<1>2. e \in Events /\ e.type = "credit"
  BY CtAssumption DEF Events
<1>3. ~ (e.type \in Spends \cup {"merge"})
  BY <1>2 DEF Spends
<1>4. pool' \in [Actors -> Transactions \cup {None}] /\ \A q \in Actors : pool'[q] = pool[q]
  BY <1>1 DEF CtInv, TypesOK
<1>5. log # <<>>
  BY <1>1, OneRegistered
<1> HIDE DEF e
<1>6. QED
  BY <1>1, <1>2, <1>3, <1>4, <1>5, HappensStep

\* The RPC server serves more: nobody was calm, and no cursor is disturbed.
LEMMA ServeStep == ASSUME CtInv, Serve PROVE CtInv'
<1>1. /\ log \in Seq(Events) /\ Tip \in Nat /\ seen \in Nat /\ seen < Tip
      /\ floor \in Nat /\ Margin \in Nat /\ Seam = floor + Margin
  BY Basics DEF CtInv, Serve
<1>2. /\ seen' = seen + 1 /\ log' = log /\ room' = room /\ floor' = floor /\ store' = store
      /\ run' = run /\ pool' = pool /\ lost' = lost /\ late' = late /\ Tip' = Tip /\ Seam' = Seam
  BY DEF Serve, history, Tip, Seam
<1>3. ASSUME NEW p \in Actors PROVE FlowOK(run[p], pool[p])'
  <2>1. FlowOK(run[p], pool[p]) /\ run[p] \in Runs
    BY ActorType
  <2>2. run[p].st.cur \in Nat /\ run[p].prior.cur \in Nat
    BY <2>1 DEF Runs, Caches
  <2>3. run[p].st.cur <= seen + 1 /\ run[p].prior.cur <= seen + 1
    BY <1>1, <2>1, <2>2 DEF FlowOK
  <2>4. QED
    BY <1>2, <2>1, <2>3 DEF FlowOK
<1>4. store.cur \in Nat /\ store.cur <= seen
  BY DEF CtInv, TypesOK, Caches
<1>5. TypesOK'
  <2>1. \A p \in Actors : SentOK(pool[p])' <=> SentOK(pool[p])
    BY <1>2 DEF SentOK
  <2>2. seen' \in 0..Tip' /\ (floor' > 0 => Seam' <= seen') /\ store'.cur <= seen'
    BY <1>1, <1>2, <1>4 DEF CtInv, TypesOK
  <2>3. QED
    BY <1>2, <1>3, <2>1, <2>2 DEF CtInv, TypesOK
<1>6. CachesOK' /\ SpendsOK'
  BY <1>2 DEF CtInv, CachesOK, SpendsOK
<1>7. ReadsOK'
  <2>1. \A p \in Actors : run[p].calm => FALSE
    BY <1>1 DEF CtInv, ReadsOK, CalmOK
  <2>2. QED
    BY <1>2, <2>1 DEF ReadsOK, CalmOK
<1>8. QED
  BY <1>5, <1>6, <1>7 DEF CtInv

\* The retention window moves on, and what it leaves behind is still served.
LEMMA ExpireStep == ASSUME CtInv, Expire PROVE CtInv'
<1>1. PICK f \in Floors : floor < f /\ f + Margin <= seen /\ floor' = f
  BY DEF Expire
<1>2. /\ log' = log /\ seen' = seen /\ store' = store /\ run' = run /\ pool' = pool
      /\ lost' = lost /\ late' = late /\ Tip' = Tip /\ room' \in Nat
  BY DEF Expire, history, Tip, CtInv, TypesOK
<1>3. Seam' = f + Margin /\ floor' \in {0} \cup Floors
  BY <1>1 DEF Seam
<1>4. TypesOK'
  <2>1. \A p \in Actors : /\ SentOK(pool[p])' <=> SentOK(pool[p])
                          /\ FlowOK(run[p], pool[p])' <=> FlowOK(run[p], pool[p])
    BY <1>2 DEF SentOK, FlowOK
  <2>2. QED
    BY <1>1, <1>2, <1>3, <2>1 DEF CtInv, TypesOK
<1>5. CachesOK' /\ SpendsOK' /\ ReadsOK'
  BY <1>2 DEF CtInv, CachesOK, SpendsOK, ReadsOK, CalmOK
<1>6. QED
  BY <1>4, <1>5 DEF CtInv

LEMMA CtStutter == ASSUME CtInv, UNCHANGED ctVars PROVE CtInv'
<1>1. /\ log' = log /\ room' = room /\ seen' = seen /\ floor' = floor /\ store' = store
      /\ run' = run /\ pool' = pool /\ lost' = lost /\ late' = late /\ Tip' = Tip /\ Seam' = Seam
  BY DEF ctVars, netVars, history, Tip, Seam
<1>2. \A p \in Actors : /\ SentOK(pool[p])' <=> SentOK(pool[p])
                        /\ FlowOK(run[p], pool[p])' <=> FlowOK(run[p], pool[p])
  BY <1>1 DEF SentOK, FlowOK
<1>3. TypesOK'
  BY <1>1, <1>2 DEF CtInv, TypesOK
<1>4. CachesOK' /\ SpendsOK' /\ ReadsOK'
  BY <1>1 DEF CtInv, CachesOK, SpendsOK, ReadsOK, CalmOK
<1>5. QED
  BY <1>3, <1>4 DEF CtInv

-----------------------------------------------------------------------------
(* The invariant holds.                                                    *)

\* A client that has synced begins well.
LEMMA CtBegins == ASSUME CtInit PROVE CtInv
<1>1. /\ log \in Seq(Events) /\ room \in Nat /\ (log # <<>> => log[1].type = "register")
  BY PastsAssumption DEF CtInit
<1>2. /\ Tip \in Nat /\ Tip = Len(log) /\ OnChain = Truth(log)[Tip] /\ Truth(log)[Tip] \in Caches
  BY <1>1, TruthSteps DEF Tip, OnChain, Replayed, Truth
<1>3. /\ store = [OnChain EXCEPT !.cur = Tip] /\ seen = Tip /\ floor = 0
      /\ run = [p \in Actors |-> Free] /\ pool = [p \in Actors |-> None] /\ lost = FALSE /\ late = FALSE
  BY DEF CtInit
<1>4. /\ store \in Caches /\ store.cur = Tip /\ store.sp = Truth(log)[Tip].sp
      /\ store.rcv = Truth(log)[Tip].rcv
  BY <1>2, <1>3 DEF Caches
<1>5. Good(log, store) /\ Good(log, Fresh)
  BY <1>1, <1>4, FreshIsGood DEF Good
<1>6. /\ Free \in Runs /\ Free.flow = "none" /\ Free.st = Fresh /\ Free.prior = Fresh
      /\ Free.pc = "idle" /\ Free.alone = FALSE /\ Free.calm = FALSE
  BY FreshType DEF Free, Runs, Flows, Stages, Pcs
<1> HIDE DEF Free
<1>7. ASSUME NEW p \in Actors
      PROVE  run[p] = Free /\ pool[p] = None /\ FlowOK(run[p], pool[p])
  <2>1. run[p] = Free /\ pool[p] = None
    BY <1>3
  <2>2. QED
    BY <1>2, <1>3, <1>6, <2>1, FreshType DEF FlowOK
<1>8. TypesOK
  <2>1. run \in [Actors -> Runs] /\ pool \in [Actors -> Transactions \cup {None}]
    BY <1>3, <1>6
  <2>2. seen \in 0..Tip /\ store.cur <= seen /\ ~ (floor > 0) /\ floor \in {0} \cup Floors
    BY <1>2, <1>3, <1>4
  <2>3. lost \in BOOLEAN /\ late \in BOOLEAN
    BY <1>3
  <2>4. \A p \in Actors : run[p].flow \in FlowsOf[p] \cup {"none"} /\ (pool[p] # None => SentOK(pool[p]))
    BY <1>6, <1>7
  <2>5. QED
    BY <1>1, <1>4, <1>7, <2>1, <2>2, <2>3, <2>4 DEF TypesOK
<1>9. CachesOK /\ SpendsOK /\ ReadsOK
  BY <1>5, <1>6, <1>7 DEF CachesOK, SpendsOK, ReadsOK, HeldOK, CalmOK
<1>10. QED
  BY <1>8, <1>9 DEF CtInv

LEMMA CtPreserves == ASSUME CtInv, [CtNext]_ctVars PROVE CtInv'
<1>1. CASE UNCHANGED ctVars
  BY <1>1, CtStutter
<1>2. ASSUME NEW p \in Actors, BeginRead(p) PROVE CtInv'
  BY <1>2, BeginReadStep
<1>3. ASSUME NEW p \in Actors, NEW flow \in Flows \ {"read"}, NEW x \in Amounts, Begin(p, flow, x)
      PROVE  CtInv'
  BY <1>3, BeginFlowStep
<1>4. ASSUME NEW p \in Actors,
             \/ Load(p) \/ Sync(p) \/ Rebuild(p) \/ Save(p) \/ Verify(p) \/ Check(p) \/ Again(p)
             \/ Submit(p) \/ Land(p) \/ Refuse(p) \/ Answer(p) \/ Abandon(p)
      PROVE  CtInv'
  BY <1>4, LoadStep, SyncStep, RebuildStep, SaveStep, VerifyStep, CheckStep, AgainStep,
     SubmitStep, LandStep, RefuseStep, AnswerStep, AbandonStep
<1>5. ASSUME NEW x \in Amounts, Credit(x) PROVE CtInv'
  BY <1>5, CreditStep
<1>6. CASE Serve
  BY <1>6, ServeStep
<1>7. CASE Expire
  BY <1>7, ExpireStep
<1>8. QED
  BY <1>1, <1>2, <1>3, <1>4, <1>5, <1>6, <1>7 DEF CtNext

\* For any actors, histories and bounds: whatever tabs and flows interleave, the
\* caches in the browser's storage, in a reading and in a wait's memory are right
\* about the receiving balance of their cursor's ledger, and about the spendable
\* one unless a later spend tells it (stateEngine.ts, event-source.ts, store.ts).
THEOREM CtInvariant == CtSpec => []CtInv
BY CtBegins, CtPreserves, PTL DEF CtSpec

\* The types, and no cursor ahead of what the RPC server served: a state that is
\* stored or held was never filled from ledgers nobody could read (sync's cursor).
THEOREM CtTypeCorrect == CtSpec => []CtTypeOK
<1>1. ASSUME CtInv PROVE CtTypeOK
  <2>1. ASSUME NEW p \in Actors
        PROVE  /\ run[p].st \in Caches /\ run[p].prior \in Caches
               /\ run[p].flow \in FlowsOf[p] \cup {"none"}
               /\ At(p, "await") => pool[p] # None
               /\ pool[p] # None => pool[p].at \in 0..Tip
    BY <1>1, ActorType DEF Runs, FlowOK, SentOK, At
  <2>2. /\ seen \in 0..Tip /\ floor \in {0} \cup Floors /\ room \in Nat
        /\ store \in Caches /\ store.cur <= seen /\ {lost, late} \subseteq BOOLEAN
    BY <1>1 DEF CtInv, TypesOK
  <2>3. QED
    BY <2>1, <2>2 DEF CtTypeOK
<1>2. QED
  BY <1>1, CtInvariant, PTL

LEMMA TruthIsOnChain == OnChain = Truth(log)[Tip]
BY DEF OnChain, Replayed, Truth

\* The stored openings are one replay away from what the chain holds, whoever
\* stored them, unless an event was not to be had or a slow answer of a spend was
\* stored over a later one (StateEngine.sync, setSpendable, saveState).
THEOREM StoreCatchesUp == CtSpec => []CatchesUp
<1>1. ASSUME CtInv PROVE CatchesUp
  <2>1. SUFFICES ASSUME ~ lost, ~ late
                 PROVE  /\ Replayed(store, (store.cur + 1)..Tip).sp = OnChain.sp
                        /\ Replayed(store, (store.cur + 1)..Tip).rcv = OnChain.rcv
    BY DEF CatchesUp
  <2>2. /\ log \in Seq(Events) /\ Tip = Len(log) /\ store \in Caches
        /\ store.cur \in 0..Len(log) /\ Good(log, store)
    BY <1>1, <2>1, Basics DEF CtInv, TypesOK, CachesOK, Caches
  <2>3. QED
    BY <2>2, GoodCatchesUp, TruthIsOnChain DEF Replayed
<1>2. QED
  BY <1>1, CtInvariant, PTL

\* A spend in flight is proved about the commitment on chain, unless another
\* spend or merge landed after its flow verified the opening, or it is of the
\* settlement that went on after a deposit without verifying it: the token
\* contract refuses nobody who was alone (confidentialFlow.ts, waitUntilVerified).
THEOREM LoneSpendMatches == CtSpec => []SpendMatches
<1>1. ASSUME CtInv PROVE SpendMatches
  <2>1. ASSUME NEW p \in Actors, At(p, "await"), pool[p].type \in Spends, pool[p].at = 0
        PROVE  pool[p].using = OnChain.sp \/ ~ run[p].alone
    BY <1>1, <2>1, TruthIsOnChain DEF CtInv, SpendsOK, HeldOK, At
  <2>2. QED
    BY <2>1 DEF SpendMatches
<1>2. QED
  BY <1>1, CtInvariant, PTL

\* A balance read that runs while the chain is still and served verifies after
\* its first sync or its one rebuild, whatever was stored: the later polls of
\* reconcileForRead are only for a chain that moves or a server that lags.
THEOREM CalmReadHeals == CtSpec => []ReadHeals
<1>1. ASSUME CtInv PROVE ReadHeals
  <2>1. ASSUME NEW p \in Actors, run[p].calm, run[p].tries > 0, ~ lost
        PROVE  run[p].pc \in {"rebuild", "rebuilt", "check"}
    BY <1>1, <2>1, ActorType DEF CalmOK, Runs
  <2>2. lost \in BOOLEAN
    BY <1>1 DEF CtInv, TypesOK
  <2>3. QED
    BY <2>1, <2>2 DEF ReadHeals
<1>2. QED
  BY <1>1, CtInvariant, PTL
=============================================================================
