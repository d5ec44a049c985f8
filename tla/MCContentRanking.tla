-------------------------- MODULE MCContentRanking --------------------------
(* Small instances of ContentRanking for TLC.                              *)
EXTENDS ContentRanking
=============================================================================
