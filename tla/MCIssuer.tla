------------------------------ MODULE MCIssuer ------------------------------
(* Small instances of Issuer.  Requests are alike, and so are wallets.       *)
EXTENDS Issuer

MCWrites ==
    {SetRoot(w) : w \in Wallets}
    \cup {SetNoteRoot(n) : n \in SeqOf(Requests, LEAVES)}
    \cup {SetRevRoot(r) : r \in SeqOf(Commitments, LEAVES)}

Symmetry == Permutations(Requests) \cup Permutations(Wallets)
=============================================================================
