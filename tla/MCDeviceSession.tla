-------------------------- MODULE MCDeviceSession --------------------------
(* Small instance of DeviceSession: what an account and a browser may be    *)
(* like before, by the number of rules that were added and removed.         *)
EXTENDS DeviceSession, Sequences, TLC

CONSTANT Other

Key      == [no |-> 1, exp |-> Lifetime]
First(policy) == Rule(Passkey, policy, Forever)
Removed  == [Rule(Other, "current", 2) EXCEPT !.live = FALSE]

\* (Bound: of two handlers and two unanswered reads a past leaves some.)
Past(rs, k, starts, fails) ==
    [rules |-> [i \in 0 .. Len(rs) - 1 |-> rs[i + 1]], key |-> k,
     used |-> [starts |-> 2 - starts, fails |-> 2 - fails, keys |-> IF k = None THEN 0 ELSE k.no]]

\* (The app removes no rule; another client of the account may have.)
\* No account; one whose session is on; a legacy one whose session is on; and
\* one whose own rule comes after removed rules and another device's.
MCPasts ==
    {Past(<<>>, None, 2, 1),
     Past(<<First("current"), Rule(1, "current", Lifetime)>>, Key, 2, 1),
     Past(<<First("legacy"), Rule(1, "current", Lifetime)>>, Key, 1, 2),
     Past(<<First("current"), Removed, Rule(Other, "current", 3), Removed, Rule(1, "current", 2)>>, Key, 2, 0)}

MCSymmetry == Permutations(Pages)
=============================================================================
