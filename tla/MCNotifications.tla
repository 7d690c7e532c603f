--------------------------- MODULE MCNotifications ---------------------------
(* Instances of Notifications for TLC.                                      *)
EXTENDS Notifications, TLC

(* Events and dispatchers are interchangeable; for runs without liveness.   *)
Symmetry == Permutations(Event) \cup Permutations(Dispatcher)
=============================================================================
