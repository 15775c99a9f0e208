-------------------------------- MODULE MCSchema --------------------------------
(* The instance of Schema.tla for TLC: three processes and an application  *)
(* that registers the seed's address and slug and stores a subscription.   *)
EXTENDS Schema, TLC

MCRows == {<<"users", "admin">>, <<"organizations", "acme">>, <<"subscriptions", "sub">>}

MCSymmetry == Permutations(Workers)

=============================================================================
