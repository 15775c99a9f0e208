----------------------------- MODULE MCNotifications -----------------------------
(* The instance of Notifications.tla for TLC: one user who has two          *)
(* requests and a client at work, and another one.                         *)
EXTENDS Notifications, TLC

MCSymmetry == Permutations(Requests) \cup Permutations(Rows)

=============================================================================
