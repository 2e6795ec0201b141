----------------------------- MODULE MCI2cScan -----------------------------
(* The runs of I2cScan: the candidate devices are given in the cfg.       *)
EXTENDS I2cScan, TLC
=============================================================================
