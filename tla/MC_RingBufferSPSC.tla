------------------------- MODULE MC_RingBufferSPSC -------------------------
(***************************************************************************)
(* Instances of RingBufferSPSC for TLC.  Two values are enough to tell a   *)
(* lost, repeated or reordered value from the right one, because both      *)
(* orders of every pair are tried.  MaxPush is more than twice SIZE, so    *)
(* that every slot is reused and the ring is full and empty at every       *)
(* offset.  MCPosMod stands for 2^64: far above every position.            *)
(***************************************************************************)
EXTENDS RingBufferSPSC

CONSTANTS v1, v2

MCValues == {v1, v2}
MCPosMod == 2^20
=============================================================================
