---------------------- MODULE MCNotificationDelivery ----------------------
(* Small instances of the delivery side for TLC.                           *)
EXTENDS NotificationDelivery, TLC

Symmetry == Permutations(Events) \cup Permutations(Consumers)
              \cup Permutations(Copies)
=============================================================================
