----------------------------- MODULE MCFaucet ------------------------------
(* Small instances of Faucet: an admin account and one more.                *)
EXTENDS Faucet

MCFunders == <<"admin", "eligible">>
=============================================================================
