----------------------------- MODULE MCPassport -----------------------------
(* Small instance of Passport: two handlers at once, and one asset.         *)
EXTENDS Passport
=============================================================================
