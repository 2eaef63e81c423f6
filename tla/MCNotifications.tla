-------------------------- MODULE MCNotifications --------------------------
(* Small instances of Notifications for TLC. *)
EXTENDS Notifications, TLC

\* Callers may be exchanged; so may peers, when nobody removes one of them.
Symmetry == Permutations(Notes) \cup Permutations(Peers \ Removable)
=============================================================================
