---------------------------- MODULE MCVaLabels ----------------------------
(* Model values for the runs of VaLabels.                                 *)
EXTENDS VaLabels, TLC
=============================================================================
