--------------------------- MODULE BufferChannel ----------------------------
(***************************************************************************)
(* Buffer implements LogChannel: BiosPublish sends an entry, ReturnEntries *)
(* receives a batch, and every other step, of initialize() too, changes    *)
(* nothing the two ends of the channel can see.  The channel breaks when   *)
(* one side sees a pointer of the other half written.                      *)
(***************************************************************************)
EXTENDS Buffer

Reliable ==
  INSTANCE LogChannel WITH
    Lossy <- FALSE, sent <- nextId - 1, received <- delivered, broken <- torn

Unreliable ==
  INSTANCE LogChannel WITH
    Lossy <- TRUE, sent <- nextId - 1, received <- delivered, broken <- torn

(* Without faults, and while no pointer was seen half written,             *)
(* readErrorLogs and the BIOS's appends are a reliable channel: every      *)
(* entry is returned once and in order, only after it was published, and a *)
(* read that is running hides nothing and undoes nothing.                  *)
ImplementsReliableChannel == Reliable!Spec

(* With restarts, and while no pointer was seen half written, it is still  *)
(* a channel that keeps the order and repeats nothing: an append that      *)
(* straddles the initialize() of a restart cannot bring back what was      *)
(* received before.                                                        *)
ImplementsLossyChannel == Unreliable!Spec

=============================================================================
