-------------------------- MODULE MCSpokeCollector --------------------------
(***************************************************************************)
(* SpokeCollector for TLC: three spokes and two workers, so that a spoke   *)
(* waits for admission while two others are collected, and a worker takes  *)
(* a second spoke.                                                         *)
(***************************************************************************)
EXTENDS SpokeCollector
=============================================================================
