------------------------------ MODULE MCContent ------------------------------
(* Small instances of Content and of its readers for TLC.                  *)
EXTENDS ContentReading, TLC

MCNameOf == [i \in Tags |-> "go"]
Symmetry == Permutations(Sessions)
=============================================================================
