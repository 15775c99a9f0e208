----------------------------- MODULE MCIdentities -----------------------------
(* The instance of Identities.tla for TLC: two users of one provider and    *)
(* one of another, and three addresses between them.                       *)
EXTENDS Identities, TLC

CONSTANTS p1, p2, p3

MCIdentities == {[provider |-> "google", pid |-> p1], [provider |-> "google", pid |-> p2],
                 [provider |-> "github", pid |-> p3]}

MCSymmetry == Permutations(Requests) \cup Permutations(Emails)

=============================================================================
