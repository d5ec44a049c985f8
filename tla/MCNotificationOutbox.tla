----------------------- MODULE MCNotificationOutbox -----------------------
(* Small instances of the outbox for TLC.                                  *)
EXTENDS NotificationOutbox, TLC

\* Loops and tokens are interchangeable; rows are not, ClaimNext orders them.
Symmetry == Permutations(Workers) \cup Permutations(Tokens)
=============================================================================
