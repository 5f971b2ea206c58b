---------------------------- MODULE MCAppSession ----------------------------
(* Small instance of AppSession: two wallets that stand for one another.    *)
EXTENDS AppSession, TLC

MCSymmetry == Permutations(Wallets)

\* One account and two credentials, or two and one.  Of two calls that wait at
\* once one records a settlement.  A page loaded on a device without a session
\* waits for the extension beside any call, while the first account and the
\* first credential are made.
MCBound ==
    /\ made.accts + made.creds <= 3
    /\ IF \E c \in calls : c.kind = "load" /\ c.saved = None
       THEN made.accts <= 1 /\ made.creds <= 1
       ELSE Cardinality(calls) <= 1 \/ \E c \in calls : c.kind = "record"
=============================================================================
