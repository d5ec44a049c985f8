---------------------------- MODULE MCEngagement ----------------------------
(* Small instances of Engagement for TLC.                                  *)
EXTENDS Engagement, TLC

Symmetry == Permutations(Sessions)
=============================================================================
