------------------------------ MODULE Vouchers ------------------------------
(***************************************************************************)
(* What the settlement contracts promise together: a scoped nullifier is a *)
(* voucher.  Every gated operation redeems exactly one voucher that was    *)
(* never redeemed or burned before, and no voucher ever comes back.        *)
(***************************************************************************)
EXTENDS Naturals, FiniteSets

VARIABLES
    gone,       \* vouchers that cannot be used any more
    redeemed,   \* those a gated operation used
    granted     \* number of gated operations that went through

vouchVars == <<gone, redeemed, granted>>

VouchInit == gone = {} /\ redeemed = {} /\ granted = 0

\* A gated operation uses a voucher that is still there.
Redeem ==
    \E v \in gone' :
        /\ v \notin gone
        /\ gone' = gone \cup {v}
        /\ redeemed' = redeemed \cup {v}
        /\ granted' = granted + 1

\* A voucher may also be used up without anything being granted for it.
Burn ==
    \E v \in gone' :
        /\ v \notin gone
        /\ gone' = gone \cup {v}
        /\ UNCHANGED <<redeemed, granted>>

VouchNext == Redeem \/ Burn

VouchSpec == VouchInit /\ [][VouchNext]_vouchVars
=============================================================================
