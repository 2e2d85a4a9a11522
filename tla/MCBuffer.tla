------------------------------ MODULE MCBuffer ------------------------------
(***************************************************************************)
(* Instances of Buffer for TLC.  The region sizes are chosen so that the   *)
(* queue holds MaxOffset bytes, far fewer than in the daemon, and entries  *)
(* wrap around its end at every offset.                                    *)
(***************************************************************************)
EXTENDS BufferChannel, BufferAccess
=============================================================================
