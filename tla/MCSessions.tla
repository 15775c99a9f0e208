------------------------------ MODULE MCSessions ------------------------------
(* Lifetimes for TLC, in half seconds: a refresh token outlives the others. *)
EXTENDS Sessions, TLC

MCLife == [access |-> 0, refresh |-> 4, mfa_pending |-> 0]

MCSymmetry == Permutations(Requests)

=============================================================================
