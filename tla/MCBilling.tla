------------------------------- MODULE MCBilling -------------------------------
(* Instances of Billing.tla for TLC: two subscription codes for different   *)
(* plans, and three of which two are for the same plan.                    *)
EXTENDS Billing, TLC

CONSTANTS c1, c2, c3

MCTwoPlans == (c1 :> "pro") @@ (c2 :> "enterprise")

MCThreeCodes == (c1 :> "pro") @@ (c2 :> "enterprise") @@ (c3 :> "pro")

MCSymmetry == Permutations(Requests)

=============================================================================
