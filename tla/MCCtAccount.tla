---------------------------- MODULE MCCtAccount ----------------------------
(* Small instances of CtAccount.                                            *)
EXTENDS CtAccount

\* One page with the user's flows, and another that merges and refreshes.
MCActors == {"user", "other"}
MCFlows  == [p \in MCActors |-> IF p = "other" THEN {"read", "merge"} ELSE Flows \ {"read", "merge"}]

Did(type, x) == [type |-> type, x |-> x]

\* A new account, one that has registered, and one with a spendable unit and
\* another to be merged.
MCPasts ==
    {[log |-> <<>>, room |-> 2],
     [log |-> <<Did("register", 0)>>, room |-> 2],
     [log |-> <<Did("register", 0), Did("deposit", 1), Did("merge", 0), Did("credit", 1)>>, room |-> 2]}

\* One page merges while another refreshes the balance it shows.
MCTwoPages == [p \in MCActors |-> IF p = "other" THEN {"read"} ELSE {"merge"}]

\* An account that once withdrew and has been paid since.
MCOldPasts ==
    {[log |-> <<Did("register", 0), Did("deposit", 2), Did("merge", 0), Did("withdraw", 1), Did("credit", 1)>>,
      room |-> 2]}
=============================================================================
