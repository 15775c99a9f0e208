--------------------------- MODULE MCOrganizations ---------------------------
(* Instances of Organizations.tla for TLC: the configurations give the sets  *)
(* as model values, this module adds the symmetry they have.  Symmetry is    *)
(* not used where a temporal property is checked.                            *)
EXTENDS Organizations, TLC

MCSymmetry == Permutations(Users) \cup Permutations(Orgs) \cup Permutations(MemberIds)
                \cup Permutations(Invitations) \cup Permutations(Requests)

=============================================================================
