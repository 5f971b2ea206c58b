---------------------------- MODULE MCSettlement ----------------------------
(* Small instances of Settlement: the deployment (every contract on policy  *)
(* 1, the eligibility circuit) and the migration scripts' re-pointing.      *)
EXTENDS Settlement, Functions, TLC

CONSTANT elig

MCU32Max     == 3
MCU128Values == 8

\* Every proof carries the policy the contracts are configured with, as deployed.
MCInputs == {
    <<0, 0, 1, 1, 1, 7>>,     \* RWA
    <<0, 0, 1, 10, 1, 8>>,    \* USDC, under an alias of its asset word
    <<0, 0, 1, 3, 1, 9>> }    \* EURC

\* A migration is explored with one policy, a second policy in one instance.
MCBound ==
    \/ \A pv \in Instances : verifiers[pv][2] = None
    \/ \A pv \in Instances \ {AdapterVerifier0} : \A p \in PolicyIds : verifiers[pv][p] = None

MCProofs ==
    {[circuit |-> elig, inputs |-> i, bytes |-> 14592] : i \in PublicInputs}

MCAmounts == {-1, 1}

\* No contract tells one holder from another.
MCSymmetry == Permutations(Holders)

\* RwaToken transfers move tokens and only mint and admin_mint create them:
\* the balances always add up to what was issued.
RwaSupplyIsIssued == FoldFunction(+, 0, rwaBal) = issued
=============================================================================
