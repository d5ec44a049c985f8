------------------------------ MODULE MCReports ------------------------------
(* Small instances of Reports for TLC.                                     *)
EXTENDS Reports, TLC

MCNameOf == [i \in Tags |-> "go"]
\* Report 3 is on a comment, any other on the item.
MCTargetOf == [r \in ReportIds |-> IF r = 3 THEN "comment" ELSE "item"]
Symmetry == Permutations(Admins)
=============================================================================
