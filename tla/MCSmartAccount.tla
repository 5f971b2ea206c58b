--------------------------- MODULE MCSmartAccount ---------------------------
(* Small instance of SmartAccount: one smart account that pays bob, one     *)
(* proof in the RWA scope and one in the EURC scope.                        *)
EXTENDS SmartAccount

CONSTANT elig

MCU32Max     == 3
MCU128Values == 8

MCInputs == {<<0, 0, 1, 1, 1, 7>>, <<0, 0, 1, 3, 1, 9>>}

MCProofs ==
    {[circuit |-> elig, inputs |-> i, bytes |-> 14592] : i \in PublicInputs}
=============================================================================
