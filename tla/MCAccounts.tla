------------------------------ MODULE MCAccounts ------------------------------
(* Instances of Accounts.tla for TLC.  Passwords, tokens, secrets and       *)
(* request slots are interchangeable; identities are few enough.            *)
EXTENDS Accounts, TLC

MCSymmetry == Permutations(Requests) \cup Permutations(Passwords)
                \cup Permutations(Tokens) \cup Permutations(Secrets)

=============================================================================
