-------------------------- MODULE MCPolicyVerifier --------------------------
(* Small instance of PolicyVerifier: one contract, two policies routed to   *)
(* two circuits, scoped and legacy inputs, words that overflow, alias or    *)
(* are zero.                                                                *)
EXTENDS PolicyVerifier

CONSTANTS elig, pof, noKey

MCUltraHonk == {elig, pof, noKey}
MCWithKey   == {elig, pof}

\* u32::MAX is scaled down to 5 and 2^128 to 16: the word 6 overflows a u32,
\* 16 folds to 0, 17 to 1, and 22 to 6, which overflows.
MCU32Max     == 5
MCU128Values == 16

MCInputs == {
    <<0, 0, 1, 1, 1, 7>>,     \* RWA settlement
    <<0, 0, 1, 2, 1, 7>>,     \* the same nullifier in the USDC scope
    <<0, 0, 1, 17, 1, 7>>,    \* and once more, under an alias of RWA
    <<0, 0, 1, 6, 1, 7>>,     \* asset word over u32::MAX
    <<0, 0, 1, 16, 1, 6>>,    \* asset word that folds to zero
    <<0, 0, 1, 2, 22, 5>>,    \* action word over u32::MAX once folded
    <<0, 0, 1, 2, 0, 8>>,     \* action word zero
    <<0, 0, 2, 7>>,           \* proof of funds, no scope
    <<0, 0, 2, 9, 4>>,        \* five words: still unscoped
    <<0, 0, 2>> }             \* too short to hold a nullifier

MCProofs ==
    {[circuit |-> IF Len(i) >= 6 THEN elig ELSE pof, inputs |-> i, bytes |-> 14592] :
        i \in MCInputs}
    \cup {[circuit |-> elig, inputs |-> <<0, 0, 1, 1, 1, 7>>, bytes |-> 100]}
=============================================================================
