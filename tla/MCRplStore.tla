---------------------------- MODULE MCRplStore ----------------------------
(* Small instance of RplStore: three sources for two entries, so that the *)
(* list fills up and a reset frees it for other sources.                  *)
EXTENDS RplStore, TLC

MCSrcs == {1, 2, 3}

=============================================================================
