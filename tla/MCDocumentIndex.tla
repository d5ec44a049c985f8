--------------------------- MODULE MCDocumentIndex ---------------------------
(* Small instances of the document index for TLC.                          *)
EXTENDS DocumentIndex

\* Later versions are shorter, so old points can be left over.
MCSize == [v \in Ids |-> IF v = 1 THEN 2 ELSE 1]
=============================================================================
