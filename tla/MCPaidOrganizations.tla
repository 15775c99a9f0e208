-------------------------- MODULE MCPaidOrganizations --------------------------
(* The instance of PaidOrganizations.tla for TLC: one payer, who bought two *)
(* subscriptions for one organization and one for another.                 *)
EXTENDS PaidOrganizations, TLC

CONSTANTS o1, o2, c1, c2, c3, p1

MCOrgOf == (c1 :> o1) @@ (c2 :> o2) @@ (c3 :> o1)

MCPayerOf == [c \in Codes |-> p1]

=============================================================================
