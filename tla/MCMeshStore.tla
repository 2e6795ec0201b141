---------------------------- MODULE MCMeshStore ----------------------------
(* Small instance of MeshStore: the short delay, the generic timeout and   *)
(* the replay-list timeout scaled to 1, 2 and 3 ticks (500 ms, 2 s and a   *)
(* longer RPL timeout), a store rate of 2 so that a sequence number is     *)
(* stored every other message, and two networks to provision.              *)
EXTENDS MeshStore, TLC

MCMarkCats == {"RPL", "VA"}

=============================================================================
