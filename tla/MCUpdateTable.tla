--------------------------- MODULE MCUpdateTable ---------------------------
(* Model values for the runs of UpdateTable.                              *)
EXTENDS UpdateTable, TLC

MCIds == {"i1", "i2", "i3"}
=============================================================================
