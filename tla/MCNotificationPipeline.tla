---------------------- MODULE MCNotificationPipeline ----------------------
(* Small instances of the whole pipeline for TLC.                          *)
EXTENDS NotificationPipeline, TLC

Symmetry == Permutations(Workers) \cup Permutations(Tokens)
              \cup Permutations(Consumers) \cup Permutations(Copies)
=============================================================================
