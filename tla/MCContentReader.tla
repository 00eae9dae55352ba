--------------------------- MODULE MCContentReader ----------------------------
(* Files for the runs of ContentReader: two records, then one.                *)
EXTENDS ContentReader

MCFiles == <<2, 1>>
=============================================================================
