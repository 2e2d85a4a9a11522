----------------------------- MODULE MCReadLoop -----------------------------
(***************************************************************************)
(* Instances of ReadLoop for TLC.                                          *)
(***************************************************************************)
EXTENDS LoopChannels
=============================================================================
