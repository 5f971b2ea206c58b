---------------------------- MODULE AdminWrites ----------------------------
(***************************************************************************)
(* What the issuer's handlers may rely on when they write to the chain     *)
(* through the admin account, as AdminTx provides it.  A call hands over   *)
(* its operation, which is applied at most once on the call's behalf, maybe*)
(* after the call gave up.  A call that succeeds saw its operation applied *)
(* while it ran.  The account has at most one write on its way.            *)
(***************************************************************************)
EXTENDS Naturals, FiniteSets

CONSTANTS Writers, Writes, NoWrite

VARIABLES
    held,       \* the write on its way, if any, and the calls it is made for
    write       \* writer -> its call

writeVars == <<held, write>>

Resting == [pc |-> "idle", op |-> NoWrite, seen |-> FALSE, mine |-> FALSE]
Is(c, pc) == write[c].pc = pc

Ended(c, pc) == write' = [write EXCEPT ![c].pc = pc, ![c].seen = FALSE]

\* The write on its way is no longer made for a writer that starts again.
Disown(C) == held' = {[h EXCEPT !.by = @ \ C] : h \in held}

Start(c, op) ==
    /\ ~Is(c, "active")
    /\ write' = [write EXCEPT ![c] = [Resting EXCEPT !.pc = "active", !.op = op]]
    /\ Disown({c})

\* Calls that may have made the write c makes: two calls may share one
\* transaction, and one that was dropped may be handed over again.
Sharing(c) == {d \in DOMAIN write : write[d].op = write[c].op /\ ~write[d].mine}

\* The network takes the operation.
Taken(c) ==
    /\ Is(c, "active")
    /\ ~write[c].mine
    /\ \A h \in held : h.op = write[c].op
    /\ \E D \in SUBSET Sharing(c) :
           held' = {[op |-> write[c].op, by |-> {c} \cup D]}

Take(c) == Taken(c) /\ UNCHANGED write

\* The network takes it and the call fails.
TakeAndFail(c) == Taken(c) /\ Ended(c, "failed")

Applied(h) ==
    /\ held' = {}
    /\ write' = [c \in DOMAIN write |->
           [write[c] EXCEPT !.mine = write[c].mine \/ c \in h.by,
                            !.seen = write[c].seen
                                     \/ (Is(c, "active") /\ h.op = write[c].op)]]

Dropped(h) == held' = {} /\ UNCHANGED write

Succeed(c) ==
    /\ Is(c, "active")
    /\ write[c].seen
    /\ Ended(c, "done")
    /\ UNCHANGED held

Fail(c) ==
    /\ Is(c, "active")
    /\ Ended(c, "failed")
    /\ UNCHANGED held

Progress(c) == Take(c) \/ TakeAndFail(c) \/ Succeed(c) \/ Fail(c)

WritesInit ==
    /\ held = {}
    /\ write = [c \in Writers |-> Resting]

WritesNext ==
    \/ \E c \in Writers : Progress(c) \/ (\E op \in Writes : Start(c, op))
    \/ \E h \in held : Applied(h) \/ Dropped(h)

WritesSpec == WritesInit /\ [][WritesNext]_writeVars
=============================================================================
