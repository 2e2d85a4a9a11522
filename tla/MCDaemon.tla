------------------------------ MODULE MCDaemon ------------------------------
(***************************************************************************)
(* Instances of Daemon for TLC: an annotation dictionary in two packets    *)
(* and a schema dictionary in one.                                         *)
(***************************************************************************)
EXTENDS Daemon

CONSTANTS annotation, schema, a1, a2, s1

MCTransfer == <<[resource |-> annotation, chunk |-> a1],
                [resource |-> annotation, chunk |-> a2],
                [resource |-> schema, chunk |-> s1]>>

(* The middle packet with one field changed.                               *)
MCAlteredPackets ==
  LET p == PacketOf(MCTransfer, 2) IN
  {[p EXCEPT !.flag = "End"], [p EXCEPT !.resource = schema],
   [p EXCEPT !.data = <<s1>>], [p EXCEPT !.sizeMatches = FALSE]}
=============================================================================
