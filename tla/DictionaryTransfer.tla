------------------------- MODULE DictionaryTransfer -------------------------
(***************************************************************************)
(* RdeCommandHandler at the end of a way on which packets get lost.        *)
(*                                                                         *)
(* The BIOS (external) sends the dictionaries of a transfer in packets;    *)
(* packets can be lost on the way, when the BMC erases the queue or the    *)
(* BIOS finds it full, and the BIOS can begin a new transfer at any time,  *)
(* as a host reboot does.                                                  *)
(***************************************************************************)
EXTENDS RdeHandler

CONSTANTS
  Transfers,        \* what the BIOS may send: sequences of pieces, where a
                    \*   piece is [resource |-> r, chunk |-> c]
  MayLose,          \* whether packets can get lost
  StrayPackets,     \* packets that belong to no transfer
  MaxTransfers,     \* bound: transfers begun in one behaviour
  MaxStray          \* bound: stray packets in one behaviour

ASSUME TransferAssumption ==
  /\ \A t \in Transfers :
       /\ t \in Seq([resource : ResourceIds, chunk : Chunks])
       /\ t # <<>> /\ OneAfterAnother(t)
  /\ StrayPackets \subseteq Packets
  /\ MayLose \in BOOLEAN
  /\ MaxTransfers \in Nat /\ MaxStray \in Nat

VARIABLE bios     \* the BIOS: transfer, packets sent, and whether one of
                  \*   them got lost or a stray one came in between: in this
                  \*   transfer ("now"), in an earlier one only, or never

vars == <<handlerVars, bios>>

-----------------------------------------------------------------------------
(* The BIOS and the way to the handler (external).                         *)

NoTransfer == <<>>
SentTransfers == Transfers \cup {NoTransfer}
Breaks == {"never", "earlier", "now"}
Senders == [begun : Nat, transfer : SentTransfers, sent : Nat,
            broken : Breaks, receivedEnd : BOOLEAN, strays : Nat]

BeginTransfer ==
  /\ bios.begun < MaxTransfers
  /\ \E t \in Transfers :
       bios' = [bios EXCEPT !.begun = @ + 1, !.transfer = t, !.sent = 0,
                            !.broken = IF @ = "now" THEN "earlier" ELSE @,
                            !.receivedEnd = FALSE]
  /\ UNCHANGED handlerVars

HasNext == bios.sent < Len(bios.transfer)

DeliverPacket ==
  /\ HasNext
  /\ MultiPartReceiveResp(PacketOf(bios.transfer, bios.sent + 1))
  /\ bios' = [bios EXCEPT !.sent = @ + 1,
                          !.receivedEnd = bios.sent + 1 = Len(bios.transfer)]

LosePacket ==
  /\ MayLose
  /\ HasNext
  /\ bios' = [bios EXCEPT !.sent = @ + 1, !.broken = "now"]
  /\ UNCHANGED handlerVars

(* Commands other than the transfer's own packets come in between.         *)
StrayPacket ==
  /\ bios.strays < MaxStray
  /\ \E p \in StrayPackets : MultiPartReceiveResp(p)
  /\ bios' = [bios EXCEPT !.strays = @ + 1, !.broken = "now",
                          !.receivedEnd = FALSE]

OtherCommand ==
  /\ \/ \E r \in ResourceIds : OperationInitRequest(r)
     \/ OperationInitEarly
     \/ InvalidCommandType
     \/ ShortCommand
  /\ bios' = [bios EXCEPT !.receivedEnd = FALSE]

-----------------------------------------------------------------------------
Init ==
  /\ HandlerInit
  /\ bios = [begun |-> 0, transfer |-> NoTransfer, sent |-> 0, broken |-> "never",
             receivedEnd |-> FALSE, strays |-> 0]

Next ==
  \/ BeginTransfer \/ DeliverPacket \/ LosePacket
  \/ StrayPacket \/ OtherCommand

Spec == Init /\ [][Next]_vars

-----------------------------------------------------------------------------
(* Properties.                                                             *)

(* Every variable keeps its type, and the BIOS is within a transfer.       *)
TypeOK ==
  /\ flagState \in {"RdeStateIdle", "RdeStateStartRecvd"}
  /\ prevDictResourceId \in ResourceIds
  /\ dictionaryManager \in Managers
  /\ crc \in Seq(Chunks)
  /\ status \in Statuses
  /\ bios \in Senders
  /\ bios.sent <= Len(bios.transfer)

(* getDictionaryCount() is the number of usable dictionaries, whatever     *)
(* packets arrive in whatever order: every path that sets or clears valid  *)
(* adjusts the counter once.                                               *)
DictionaryCount == CountIsExact(dictionaryManager)

(* Once a transfer is accepted (RdeStopFlagReceived, "the checksum is      *)
(* correct"), each of its dictionaries is valid and is exactly the data    *)
(* the BIOS sent for it in this transfer: lost packets, leftovers of an    *)
(* aborted transfer and the splitting by resource id never slip through    *)
(* the checksum, as long as all packets are those of transfers.            *)
AcceptedIsIntact ==
  bios.receivedEnd /\ status = "RdeStopFlagReceived" /\ bios.strays = 0 =>
    \A r \in ResourcesOf(bios.transfer) :
      /\ HasDictionary(dictionaryManager, r)
      /\ IsDataOf(dictionaryManager.dictionaries[r].data, bios.transfer, r)

(* A transfer of which every packet arrives is accepted, whatever an       *)
(* aborted one, or an END that was refused after its dictionary had been   *)
(* marked complete, left in flagState, prevDictResourceId, crc and the map.*)
CompleteTransferAccepted ==
  bios.receivedEnd /\ bios.broken # "now" => status = "RdeStopFlagReceived"

(* d is the whole dictionary of r in some transfer.                        *)
IsWhole(r, d) == \E t \in Transfers : r \in ResourcesOf(t) /\ IsDataOf(d, t, r)

(* "a pointer to the dictionary, if the dictionary is complete else        *)
(* std::nullopt" (getDictionary): a log that is published was decoded with *)
(* a schema and an annotation dictionary that are each the whole           *)
(* dictionary of a transfer.                                               *)
DecodedWithWholeDictionaries ==
  published.used =>
    /\ IsWhole(published.resource, published.schema)
    /\ IsWhole(annotationResourceId, published.annotation)

(* While no packet is lost this is so, in the middle of a transfer and     *)
(* after transfers that were given up too: a dictionary that is restarted, *)
(* continued or half received is never used.                               *)
WholeUnlessLost == bios.broken = "never" => DecodedWithWholeDictionaries

=============================================================================
