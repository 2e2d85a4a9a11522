---------------------------- MODULE BufferAccess ----------------------------
(***************************************************************************)
(* PciDataHandler below Buffer: every access of BufferImpl to the queue    *)
(* goes through it.                                                        *)
(***************************************************************************)
EXTENDS Buffer, PciDataHandler

(* Wherever the cached read pointer is, also a corrupted one, an access    *)
(* reaches no byte outside the region, for regions below, at and above     *)
(* what a uint16_t counts, and the size it returns is the one asked for    *)
(* exactly if it reached all its bytes.  The checks of initialize,         *)
(* readBufferHeader, updateReadPtr, updateBmcFlags and wraparoundRead rely *)
(* on this.  The lengths exceed what the 16-bit counter of write can count,*)
(* although those checks' own lengths do not.                              *)
AccessesStayInRegion ==
  \A regionSize \in RegionSizes, length \in AccessLengths :
    StaysInRegion(regionSize, cached.bmcReadPtr, length)

=============================================================================
