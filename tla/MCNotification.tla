--------------------------- MODULE MCNotification ---------------------------
(* Notification on small instances.                                        *)
EXTENDS Notification, TLC

Symmetry == Permutations(Users) \cup Permutations(RetryWorkers)

=============================================================================
