---------------------------- MODULE LoopChannels ----------------------------
(***************************************************************************)
(* ReadLoop implements two instances of LogChannel next to each other: one *)
(* for UE logs, through the reserved region, and one for queue entries.    *)
(* A log is received when it was decoded.                                  *)
(***************************************************************************)
EXTENDS ReadLoop

UeLogs ==
  INSTANCE LogChannel WITH
    Lossy <- FALSE, sent <- nextUe - 1, received <- processed, broken <- FALSE

QueueEntries ==
  INSTANCE LogChannel WITH
    Lossy <- FALSE, sent <- nextEntry - 1, received <- stored, broken <- FALSE

(* As long as nothing throws, the flags of the two hand-overs and the      *)
(* ready bit in the same word do not disturb each other: both ways are     *)
(* reliable, what the BIOS sends on one of them while the other is being   *)
(* served included.                                                        *)
ImplementsReliableChannels == UeLogs!Spec /\ QueueEntries!Spec

=============================================================================
