---------------------- MODULE DictionaryTransferProofs ----------------------
(***************************************************************************)
(* Proofs about what RdeCommandHandler gathers from the packets of a       *)
(* transfer: what it accepts, what it has then, and what getDictionary     *)
(* gives out, for all resource ids, chunks, transfers and stray packets.   *)
(***************************************************************************)
EXTENDS DictionaryTransfer, RdeHandlerProofs

(* All pieces the BIOS has to send.                                        *)
PiecesSent == UNION {{t[i] : i \in DOMAIN t} : t \in Transfers}

LEMMA TransfersAreProper == Transfers \subseteq AllTransfers
BY TransferAssumption DEF AllTransfers, Pieces

-----------------------------------------------------------------------------
(* The specification.                                                      *)

(* The BIOS's part of TypeOK.                                              *)
BiosInv ==
  /\ bios \in Senders
  /\ bios.sent <= Len(bios.transfer)

(* A transfer has a length; an empty one has no next packet.               *)
LEMMA NextPacket ==
  ASSUME BiosInv, HasNext
  PROVE  /\ bios.transfer \in Transfers
         /\ Len(bios.transfer) \in Nat
         /\ bios.sent + 1 \in 1 .. Len(bios.transfer)
<1>1. bios.transfer # NoTransfer
  <2>1. bios.sent \in Nat /\ bios.sent < Len(bios.transfer)
    BY DEF BiosInv, Senders, HasNext
  <2>2. Len(NoTransfer) = 0
    BY DEF NoTransfer
  <2>. QED
    BY <2>1, <2>2
<1>2. bios.transfer \in Transfers
  BY <1>1 DEF BiosInv, Senders, SentTransfers
<1>3. bios.transfer \in Seq([resource : ResourceIds, chunk : Chunks])
  BY <1>2, TransferAssumption
<1>. QED
  BY <1>2, <1>3 DEF BiosInv, HasNext, Senders

(* The four ways a step changes the sender keep its type.                  *)
LEMMA BeginIsSender ==
  ASSUME NEW b \in Senders, NEW t \in SentTransfers
  PROVE  [b EXCEPT !.begun = @ + 1, !.transfer = t, !.sent = 0,
                   !.broken = IF @ = "now" THEN "earlier" ELSE @,
                   !.receivedEnd = FALSE] \in Senders
<1>1. b.begun + 1 \in Nat
  BY DEF Senders, Breaks
<1>. QED
  BY <1>1, Zenon DEF Senders, Breaks

LEMMA DeliverIsSender ==
  ASSUME NEW b \in Senders, NEW e \in BOOLEAN
  PROVE  [b EXCEPT !.sent = @ + 1, !.receivedEnd = e] \in Senders
<1>1. b.sent + 1 \in Nat
  BY DEF Senders, Breaks
<1>. QED
  BY <1>1 DEF Senders, Breaks

LEMMA LoseIsSender ==
  ASSUME NEW b \in Senders
  PROVE  [b EXCEPT !.sent = @ + 1, !.broken = "now"] \in Senders
<1>1. b.sent + 1 \in Nat
  BY DEF Senders, Breaks
<1>. QED
  BY <1>1, Zenon DEF Senders, Breaks

LEMMA StrayIsSender ==
  ASSUME NEW b \in Senders
  PROVE  [b EXCEPT !.strays = @ + 1, !.broken = "now",
                   !.receivedEnd = FALSE] \in Senders
<1>1. b.strays + 1 \in Nat
  BY DEF Senders, Breaks
<1>. QED
  BY <1>1, Zenon DEF Senders, Breaks

LEMMA TransferInit == Init => HandlerInv /\ BiosInv
<1>. SUFFICES ASSUME Init PROVE HandlerInv /\ BiosInv
  OBVIOUS
<1>1. HandlerInv
  BY NewHandler DEF Init
<1>2. BiosInv
  <2>1. NoTransfer \in SentTransfers /\ Len(NoTransfer) = 0
    BY DEF SentTransfers, NoTransfer
  <2>. QED
    BY <2>1 DEF Init, BiosInv, Senders, Breaks
<1>. QED
  BY <1>1, <1>2

LEMMA TransferStep ==
  ASSUME HandlerInv, BiosInv, [Next]_vars
  PROVE  HandlerInv' /\ BiosInv'
<1>1. CASE BeginTransfer
  <2>1. PICK t \in Transfers :
          bios' = [bios EXCEPT !.begun = @ + 1, !.transfer = t, !.sent = 0,
                               !.broken = IF @ = "now" THEN "earlier" ELSE @,
                               !.receivedEnd = FALSE]
    BY <1>1 DEF BeginTransfer
  <2>2. Len(t) \in Nat
    BY TransferAssumption
  <2>3. bios' \in Senders
    <3>1. t \in SentTransfers
      BY DEF SentTransfers
    <3>. QED
      BY <2>1, <3>1, BeginIsSender DEF BiosInv
  <2>4. bios'.sent = 0 /\ bios'.transfer = t
    BY <2>1 DEF BiosInv, Senders
  <2>5. BiosInv'
    BY <2>2, <2>3, <2>4 DEF BiosInv
  <2>. QED
    BY <1>1, <2>5 DEF BeginTransfer, handlerVars, HandlerInv
<1>2. CASE DeliverPacket
  <2>1. PacketOf(bios.transfer, bios.sent + 1) \in Packets
    BY <1>2, NextPacket, PacketType, TransfersAreProper DEF DeliverPacket
  <2>2. HandlerInv'
    BY <1>2, <2>1, PacketHandlerInv DEF DeliverPacket
  <2>3. BiosInv'
    <3>1. bios' \in Senders
      BY <1>2, DeliverIsSender, Zenon DEF DeliverPacket, BiosInv
    <3>2. bios'.sent = bios.sent + 1 /\ bios'.transfer = bios.transfer
      BY <1>2 DEF DeliverPacket, BiosInv, Senders
    <3>. QED
      BY <1>2, <3>1, <3>2, NextPacket DEF DeliverPacket, BiosInv
  <2>. QED
    BY <2>2, <2>3
<1>3. CASE LosePacket
  <2>1. BiosInv'
    <3>1. bios' \in Senders
      BY <1>3, LoseIsSender DEF LosePacket, BiosInv
    <3>2. bios'.sent = bios.sent + 1 /\ bios'.transfer = bios.transfer
      BY <1>3 DEF LosePacket, BiosInv, Senders
    <3>. QED
      BY <1>3, <3>1, <3>2, NextPacket DEF LosePacket, BiosInv
  <2>. QED
    BY <1>3, <2>1 DEF LosePacket, handlerVars, HandlerInv
<1>4. CASE StrayPacket
  <2>1. HandlerInv'
    BY <1>4, TransferAssumption, PacketHandlerInv DEF StrayPacket
  <2>2. BiosInv'
    <3>1. bios' \in Senders
      BY <1>4, StrayIsSender DEF StrayPacket, BiosInv
    <3>2. bios'.sent = bios.sent /\ bios'.transfer = bios.transfer
      BY <1>4 DEF StrayPacket, BiosInv, Senders
    <3>. QED
      BY <3>1, <3>2 DEF BiosInv
  <2>. QED
    BY <2>1, <2>2
<1>5. CASE OtherCommand
  <2>1. BiosInv'
    BY <1>5 DEF OtherCommand, BiosInv, Senders
  <2>. QED
    BY <1>5, <2>1, OtherHandlerInv DEF OtherCommand
<1>6. CASE UNCHANGED vars
  BY <1>6 DEF vars, handlerVars, HandlerInv, BiosInv
<1>. QED
  BY <1>1, <1>2, <1>3, <1>4, <1>5, <1>6 DEF Next

(* Whatever packets arrive, get lost or stray in, in whatever order,       *)
(* getDictionaryCount() is exactly the number of dictionaries that can be  *)
(* used, its counter never wraps below zero, and every variable has its    *)
(* type.                                                                   *)
THEOREM CountCorrect == Spec => [](TypeOK /\ DictionaryCount)
<1>1. HandlerInv /\ BiosInv => TypeOK /\ DictionaryCount
  BY DEF HandlerInv, BiosInv, TypeOK, DictionaryCount, WellFormed
<1>. QED
  BY <1>1, TransferInit, TransferStep, PTL DEF Spec

-----------------------------------------------------------------------------
(* Transfers that arrive.                                                  *)

(* While every packet of the transfer arrives, the handler has gathered    *)
(* the pieces sent so far: none of what happened before is left.           *)
KeepsUp ==
  bios.broken # "now" /\ bios.sent > 0 /\ bios.sent < Len(bios.transfer) =>
    Holding(FirstPieces(bios.transfer, bios.sent))

(* A packet of an unbroken transfer: what it leaves.                       *)
LEMMA UnbrokenPacket ==
  ASSUME HandlerInv, BiosInv, KeepsUp, DeliverPacket, bios.broken # "now"
  PROVE  /\ KeepsUp'
         /\ CompleteTransferAccepted'
<1>. SUFFICES ASSUME NEW t, t = bios.transfer, NEW n, n = bios.sent
              PROVE  KeepsUp' /\ CompleteTransferAccepted'
  OBVIOUS
<1>1. /\ t \in Transfers /\ t \in AllTransfers
      /\ Len(t) \in Nat /\ n \in Nat /\ n + 1 \in 1 .. Len(t)
  BY NextPacket, TransfersAreProper DEF DeliverPacket, BiosInv, Senders
<1>2. /\ bios'.transfer = t /\ bios'.sent = n + 1
      /\ bios'.receivedEnd = (n + 1 = Len(t))
  BY DEF DeliverPacket, BiosInv, Senders
<1>3. MultiPartReceiveResp(PacketOf(t, n + 1))
  BY DEF DeliverPacket
<1>4. CASE n = 0 /\ Len(t) # 1
  <2>1. Holding(<<t[1]>>)'
    BY <1>1, <1>3, <1>4, StartHolds
  <2>2. FirstPieces(t, 1) = <<t[1]>> /\ n + 1 = 1
    BY <1>1, <1>4, FirstPiecesAppend
  <2>3. Holding(FirstPieces(t, 1))'
    BY <2>1, <2>2
  <2>. QED
    BY <1>1, <1>2, <1>4, <2>2, <2>3 DEF KeepsUp, CompleteTransferAccepted
<1>5. CASE n = 0 /\ Len(t) = 1
  <2>1. status' = "RdeStopFlagReceived"
    BY <1>1, <1>3, <1>5, SingleStops
  <2>. QED
    BY <1>1, <1>2, <1>5, <2>1 DEF KeepsUp, CompleteTransferAccepted
<1>6. CASE n # 0
  <2>. SUFFICES ASSUME NEW recv, recv = FirstPieces(t, n),
                       NEW next, next = FirstPieces(t, n + 1),
                       NEW i, i = n + 1
                PROVE  KeepsUp' /\ CompleteTransferAccepted'
    OBVIOUS
  <2>1. n \in 1 .. Len(t) /\ n < Len(t) /\ n > 0
    BY <1>1, <1>6
  <2>2. recv \in Seq(Pieces) /\ recv # <<>> /\ Continues(next, recv, t[i])
    BY <1>1, <2>1, FirstPiecesAppend
  <2>3. Holding(recv)
    BY <2>1 DEF KeepsUp
  <2>4. CASE i < Len(t)
    <3>1. i \in 2 .. Len(t) - 1
      BY <1>1, <1>6, <2>4
    <3>2. Holding(next)'
      BY <1>1, <1>3, <2>2, <2>3, <3>1, MiddleHolds
    <3>3. KeepsUp'
      BY <1>2, <3>2 DEF KeepsUp
    <3>4. ~bios'.receivedEnd
      <4>1. n + 1 # Len(t)
        BY <1>1, <2>4
      <4>. QED
        BY <1>2, <4>1, Zenon
    <3>. QED
      BY <3>3, <3>4 DEF CompleteTransferAccepted
  <2>5. CASE i = Len(t)
    <3>1. next = t
      BY <1>1, <2>5, FirstPiecesAppend
    <3>2. i # 1 /\ MultiPartReceiveResp(PacketOf(t, i))
      BY <1>1, <1>3, <1>6
    <3>3. ChunksOf(next) = ChunksOf(t) => status' = "RdeStopFlagReceived"
      BY <1>1, <2>2, <2>3, <2>5, <3>2, EndStops
    <3>. QED
      BY <1>1, <1>2, <2>5, <3>1, <3>3 DEF KeepsUp, CompleteTransferAccepted
  <2>. QED
    BY <1>1, <2>4, <2>5
<1>. QED
  BY <1>4, <1>5, <1>6

(* How the other steps change the sender.                                  *)
LEMMA OtherSteps ==
  ASSUME BiosInv
  PROVE  /\ BeginTransfer =>
              /\ bios'.sent = 0 /\ ~bios'.receivedEnd
              /\ bios'.strays = bios.strays /\ bios'.transfer \in Transfers
              /\ bios'.broken = "never" => bios.broken = "never"
         /\ LosePacket =>
              /\ bios'.broken = "now" /\ bios'.strays = bios.strays
              /\ bios'.transfer = bios.transfer
              /\ bios'.receivedEnd = bios.receivedEnd
         /\ StrayPacket =>
              /\ bios'.broken = "now" /\ ~bios'.receivedEnd
              /\ bios'.strays # 0
         /\ OtherCommand =>
              /\ bios'.sent = bios.sent /\ ~bios'.receivedEnd
              /\ bios'.strays = bios.strays /\ bios'.transfer = bios.transfer
              /\ bios'.broken = bios.broken
              /\ UNCHANGED <<flagState, prevDictResourceId, dictionaryManager, crc>>
<1>1. ASSUME BeginTransfer
      PROVE  /\ bios'.sent = 0 /\ ~bios'.receivedEnd
             /\ bios'.strays = bios.strays /\ bios'.transfer \in Transfers
             /\ bios'.broken = "never" => bios.broken = "never"
  BY <1>1 DEF BeginTransfer, BiosInv, Senders, Breaks
<1>2. ASSUME LosePacket
      PROVE  /\ bios'.broken = "now" /\ bios'.strays = bios.strays
             /\ bios'.transfer = bios.transfer
             /\ bios'.receivedEnd = bios.receivedEnd
  BY <1>2 DEF LosePacket, BiosInv, Senders, Breaks
<1>3. ASSUME StrayPacket
      PROVE  /\ bios'.broken = "now" /\ ~bios'.receivedEnd
             /\ bios'.strays # 0
  <2>1. bios.strays \in Nat
    BY DEF BiosInv, Senders
  <2>. QED
    BY <1>3, <2>1 DEF StrayPacket, BiosInv, Senders, Breaks
<1>4. ASSUME OtherCommand
      PROVE  /\ bios'.sent = bios.sent /\ ~bios'.receivedEnd
             /\ bios'.strays = bios.strays /\ bios'.transfer = bios.transfer
             /\ bios'.broken = bios.broken
             /\ UNCHANGED <<flagState, prevDictResourceId, dictionaryManager, crc>>
  <2>1. UNCHANGED <<flagState, prevDictResourceId, dictionaryManager, crc>>
    BY <1>4 DEF OtherCommand, OperationInitRequest, OperationInitEarly,
                InvalidCommandType, ShortCommand
  <2>. QED
    BY <1>4, <2>1 DEF OtherCommand, BiosInv, Senders, Breaks
<1>. QED
  BY <1>1, <1>2, <1>3, <1>4

LEMMA KeepsUpStep ==
  ASSUME HandlerInv, BiosInv, KeepsUp, [Next]_vars
  PROVE  KeepsUp'
<1>1. CASE BeginTransfer
  BY <1>1, OtherSteps DEF KeepsUp
<1>2. CASE DeliverPacket
  <2>1. bios'.broken = bios.broken
    BY <1>2 DEF DeliverPacket, BiosInv, Senders
  <2>. QED
    BY <1>2, <2>1, UnbrokenPacket DEF KeepsUp
<1>3. CASE LosePacket \/ StrayPacket
  BY <1>3, OtherSteps DEF KeepsUp
<1>4. CASE OtherCommand
  BY <1>4, OtherSteps DEF KeepsUp, Holding
<1>5. CASE UNCHANGED vars
  BY <1>5 DEF vars, handlerVars, KeepsUp, Holding
<1>. QED
  BY <1>1, <1>2, <1>3, <1>4, <1>5 DEF Next

(* A transfer of which every packet arrives is accepted, whatever came     *)
(* before it: START sets flagState, crc and its dictionary anew, and the   *)
(* dictionaries a transfer goes on to are started when its resource id     *)
(* changes.  What the transfer needs of the state it meets is nothing.     *)
THEOREM CompleteAccepted == Spec => []CompleteTransferAccepted
<1>. DEFINE Inv == HandlerInv /\ BiosInv /\ KeepsUp /\ CompleteTransferAccepted
<1>1. Init => Inv
  <2>1. Init => KeepsUp /\ CompleteTransferAccepted
    BY DEF Init, KeepsUp, CompleteTransferAccepted
  <2>. QED
    BY <2>1, TransferInit
<1>2. Inv /\ [Next]_vars => Inv'
  <2>. SUFFICES ASSUME Inv, [Next]_vars PROVE Inv'
    OBVIOUS
  <2>1. HandlerInv' /\ BiosInv' /\ KeepsUp'
    BY TransferStep, KeepsUpStep
  <2>2. CompleteTransferAccepted'
    <3>1. CASE BeginTransfer \/ LosePacket \/ StrayPacket \/ OtherCommand
      BY <3>1, OtherSteps DEF CompleteTransferAccepted
    <3>2. CASE DeliverPacket
      <4>1. bios'.broken = bios.broken
        BY <3>2 DEF DeliverPacket, BiosInv, Senders
      <4>. QED
        BY <3>2, <4>1, UnbrokenPacket DEF CompleteTransferAccepted
    <3>3. CASE UNCHANGED vars
      BY <3>3 DEF vars, handlerVars, CompleteTransferAccepted
    <3>. QED
      BY <3>1, <3>2, <3>3 DEF Next
  <2>. QED
    BY <2>1, <2>2
<1>. QED
  BY <1>1, <1>2, PTL DEF Spec

-----------------------------------------------------------------------------
(* Transfers that are accepted.                                            *)

(* What the BIOS sends keeps the dictionaries apart for the checksum.      *)
ChunksNameResources == NamedByChunks(PiecesSent)

(* Whatever the handler is gathering is the data of pieces that were sent, *)
(* from one START on and without a gap, each resource's kept apart: only   *)
(* they need not be the pieces of one transfer.                            *)
GathersSent ==
  bios.strays = 0 /\ flagState = "RdeStateStartRecvd" =>
    \E recv \in Seq(PiecesSent) : recv # <<>> /\ Holding(recv)

LEMMA SentPieces ==
  /\ \A recv \in Seq(PiecesSent) : recv \in Seq(Pieces)
  /\ \A t \in Transfers : t \in Seq(PiecesSent)
  /\ PiecesSent \in SUBSET Pieces
<1>1. PiecesSent \subseteq Pieces
  BY TransfersAreProper, TransferPieces DEF PiecesSent
<1>2. ASSUME NEW recv \in Seq(PiecesSent)
      PROVE  recv \in Seq(Pieces)
  BY <1>1
<1>3. ASSUME NEW t \in Transfers
      PROVE  t \in Seq(PiecesSent)
  <2>1. /\ t \in Seq(Pieces) /\ Len(t) \in Nat /\ DOMAIN t = 1 .. Len(t)
    BY TransfersAreProper, TransferPieces
  <2>2. \A i \in 1 .. Len(t) : t[i] \in PiecesSent
    BY <2>1 DEF PiecesSent
  <2>. QED
    BY <2>1, <2>2
<1>. QED
  BY <1>1, <1>2, <1>3

(* A packet of a transfer: what it leaves.                                 *)
LEMMA SentPacket ==
  ASSUME ChunksNameResources, HandlerInv, BiosInv, GathersSent,
         DeliverPacket, bios.strays = 0
  PROVE  GathersSent' /\ AcceptedIsIntact'
<1>. SUFFICES ASSUME NEW t, t = bios.transfer, NEW n, n = bios.sent,
                     NEW i, i = n + 1
              PROVE  GathersSent' /\ AcceptedIsIntact'
  OBVIOUS
<1>1. /\ t \in Transfers /\ t \in AllTransfers
      /\ Len(t) \in Nat /\ n \in Nat /\ i \in 1 .. Len(t)
      /\ t[i] \in Pieces /\ t[i] \in PiecesSent /\ t \in Seq(PiecesSent)
  <2>1. /\ t \in Transfers /\ t \in AllTransfers
        /\ Len(t) \in Nat /\ n \in Nat /\ i \in 1 .. Len(t)
    BY NextPacket, TransfersAreProper DEF DeliverPacket, BiosInv, Senders
  <2>2. t[i] \in Pieces /\ i \in DOMAIN t
    BY <2>1, TransferPieces
  <2>. QED
    BY <2>1, <2>2, SentPieces DEF PiecesSent
<1>2. /\ bios'.transfer = t /\ bios'.strays = 0
      /\ bios'.receivedEnd = (n + 1 = Len(t))
  BY DEF DeliverPacket, BiosInv, Senders
<1>3. MultiPartReceiveResp(PacketOf(t, i))
  BY DEF DeliverPacket
<1>4. i # Len(t) => ~bios'.receivedEnd
  BY <1>2, Zenon
<1>5. ASSUME Complete(dictionaryManager'.dictionaries, t)
      PROVE  AcceptedIsIntact'
  BY <1>2, <1>5 DEF AcceptedIsIntact, Complete, HasDictionary
<1>6. CASE n = 0 /\ Len(t) # 1
  <2>1. <<t[1]>> \in Seq(PiecesSent) /\ <<t[1]>> # <<>> /\ Holding(<<t[1]>>)'
    BY <1>1, <1>3, <1>6, StartHolds
  <2>2. GathersSent'
    BY <2>1 DEF GathersSent
  <2>. QED
    BY <1>1, <1>4, <1>6, <2>2 DEF AcceptedIsIntact
<1>7. CASE n = 0 /\ Len(t) = 1
  <2>1. /\ flagState' = "RdeStateIdle"
        /\ Complete(dictionaryManager'.dictionaries, t)
    BY <1>1, <1>3, <1>7, SingleStops
  <2>. QED
    BY <1>5, <2>1 DEF GathersSent
<1>8. CASE n # 0 /\ flagState # "RdeStateStartRecvd"
  <2>1. i \in 2 .. Len(t)
    BY <1>1, <1>8
  <2>2. flagState' # "RdeStateStartRecvd" /\ status' = "RdeInvalidPktOrder"
    BY <1>1, <1>3, <1>8, <2>1, OutOfOrderRefused
  <2>. QED
    BY <2>2 DEF GathersSent, AcceptedIsIntact
<1>9. CASE n # 0 /\ flagState = "RdeStateStartRecvd"
  <2>1. PICK recv \in Seq(PiecesSent) : recv # <<>> /\ Holding(recv)
    BY <1>9 DEF GathersSent
  <2>. SUFFICES ASSUME NEW next, next = Append(recv, t[i])
                PROVE  GathersSent' /\ AcceptedIsIntact'
    OBVIOUS
  <2>2. /\ recv \in Seq(Pieces) /\ Continues(next, recv, t[i])
        /\ next \in Seq(PiecesSent) /\ next # <<>>
    <3>1. recv \in Seq(Pieces)
      BY SentPieces
    <3>2. next \in Seq(PiecesSent) /\ next # <<>>
      BY <1>1
    <3>. QED
      BY <3>1, <3>2 DEF Continues
  <2>3. CASE i # Len(t)
    <3>1. i \in 2 .. Len(t) - 1
      BY <1>1, <1>9, <2>3
    <3>2. Holding(next)'
      BY <1>1, <1>3, <2>1, <2>2, <3>1, MiddleHolds
    <3>3. GathersSent'
      BY <2>2, <3>2 DEF GathersSent
    <3>. QED
      BY <1>4, <2>3, <3>3 DEF AcceptedIsIntact
  <2>4. CASE i = Len(t)
    <3>1. i # 1
      BY <1>1, <1>9
    <3>2. /\ flagState' = "RdeStateIdle"
          /\ ChunksOf(next) = ChunksOf(t) /\ OneAfterAnother(next) =>
               Complete(dictionaryManager'.dictionaries, next)
          /\ ChunksOf(next) # ChunksOf(t) => status' = "RdeInvalidChecksum"
      BY <1>1, <1>3, <2>1, <2>2, <2>4, <3>1, EndStops
    <3>3. GathersSent'
      BY <3>2 DEF GathersSent
    <3>4. CASE ChunksOf(next) = ChunksOf(t)
      <4>1. next = t
        BY <1>1, <2>2, <3>4, SentPieces, SameChunks DEF ChunksNameResources
      <4>2. OneAfterAnother(t)
        BY <1>1, TransferPieces
      <4>. QED
        BY <1>5, <3>2, <3>3, <3>4, <4>1, <4>2
    <3>5. CASE ChunksOf(next) # ChunksOf(t)
      BY <3>2, <3>3, <3>5 DEF AcceptedIsIntact
    <3>. QED
      BY <3>4, <3>5
  <2>. QED
    BY <2>3, <2>4
<1>. QED
  BY <1>6, <1>7, <1>8, <1>9

(* Once the checksum is correct, every dictionary of the transfer can be   *)
(* used and is exactly the data the BIOS sent for it in this transfer.     *)
THEOREM AcceptedIntact ==
  ASSUME ChunksNameResources
  PROVE  Spec => []AcceptedIsIntact
<1>. DEFINE Inv == HandlerInv /\ BiosInv /\ GathersSent /\ AcceptedIsIntact
<1>1. Init => Inv
  <2>1. Init => GathersSent /\ AcceptedIsIntact
    BY DEF Init, HandlerInit, GathersSent, AcceptedIsIntact
  <2>. QED
    BY <2>1, TransferInit
<1>2. Inv /\ [Next]_vars => Inv'
  <2>. SUFFICES ASSUME Inv, [Next]_vars PROVE Inv'
    OBVIOUS
  <2>1. HandlerInv' /\ BiosInv'
    BY TransferStep
  <2>2. GathersSent' /\ AcceptedIsIntact'
    <3>1. CASE BeginTransfer
      <4>1. UNCHANGED handlerVars
        BY <3>1 DEF BeginTransfer
      <4>. QED
        BY <3>1, <4>1, OtherSteps
           DEF handlerVars, GathersSent, AcceptedIsIntact, Holding
    <3>2. CASE LosePacket
      <4>1. UNCHANGED handlerVars
        BY <3>2 DEF LosePacket
      <4>. QED
        BY <3>2, <4>1, OtherSteps
           DEF handlerVars, GathersSent, AcceptedIsIntact, Holding
    <3>3. CASE StrayPacket
      BY <3>3, OtherSteps DEF GathersSent, AcceptedIsIntact
    <3>4. CASE OtherCommand
      BY <3>4, OtherSteps DEF GathersSent, AcceptedIsIntact, Holding
    <3>5. CASE DeliverPacket
      <4>1. bios'.strays = bios.strays
        BY <3>5 DEF DeliverPacket, BiosInv, Senders
      <4>. QED
        BY <3>5, <4>1, SentPacket DEF GathersSent, AcceptedIsIntact
    <3>6. CASE UNCHANGED vars
      BY <3>6 DEF vars, handlerVars, GathersSent, AcceptedIsIntact, Holding
    <3>. QED
      BY <3>1, <3>2, <3>3, <3>4, <3>5, <3>6 DEF Next
  <2>. QED
    BY <2>1, <2>2
<1>. QED
  BY <1>1, <1>2, PTL DEF Spec

-----------------------------------------------------------------------------
(* Dictionaries that are given out.                                        *)

(* While no packet was lost, getDictionary returns whole dictionaries.     *)
OnlyWhole ==
  bios.broken = "never" =>
    \A r \in ResourceIds :
      HasDictionary(dictionaryManager, r) =>
        IsWhole(r, dictionaryManager.dictionaries[r].data)

LEMMA PiecesOfFirst ==
  ASSUME NEW t \in AllTransfers, NEW n \in 1 .. Len(t), NEW r,
         NEW recv, recv = FirstPieces(t, n)
  PROVE  /\ Len(t) \in Nat /\ DOMAIN t = 1 .. Len(t)
         /\ DOMAIN recv = 1 .. n
         /\ \A i \in 1 .. n : recv[i] = t[i]
         /\ PiecesOf(recv, r) = PiecesOf(t, r) \cap (1 .. n)
         /\ ResourcesOf(recv) \subseteq ResourcesOf(t)
<1>1. /\ Len(t) \in Nat /\ DOMAIN t = 1 .. Len(t)
      /\ DOMAIN recv = 1 .. n
      /\ \A i \in 1 .. n : recv[i] = t[i]
      /\ \A i \in 1 .. n : i \in 1 .. Len(t)
  BY TransferPieces DEF FirstPieces
<1>. QED
  BY <1>1 DEF PiecesOf, ResourcesOf

(* What is sent of a transfer is sent one after the other too.             *)
LEMMA FirstOneAfterAnother ==
  ASSUME NEW t \in AllTransfers, NEW n \in 1 .. Len(t)
  PROVE  OneAfterAnother(FirstPieces(t, n))
<1>. SUFFICES ASSUME NEW recv, recv = FirstPieces(t, n),
                     NEW r \in ResourcesOf(recv)
              PROVE  \E first, last \in DOMAIN recv :
                       PiecesOf(recv, r) = first .. last
  BY DEF OneAfterAnother
<1>1. /\ Len(t) \in Nat /\ DOMAIN t = 1 .. Len(t) /\ DOMAIN recv = 1 .. n
      /\ PiecesOf(recv, r) = PiecesOf(t, r) \cap (1 .. n)
      /\ r \in ResourcesOf(t)
  BY PiecesOfFirst
<1>2. PICK first, last \in 1 .. Len(t) : PiecesOf(t, r) = first .. last
  BY <1>1, TransferPieces DEF OneAfterAnother
<1>3. PICK i \in 1 .. n : i \in PiecesOf(recv, r)
  BY <1>1 DEF ResourcesOf, PiecesOf
<1>4. PiecesOf(recv, r) = (first .. last) \cap (1 .. n)
  BY <1>1, <1>2
<1>5. first \in 1 .. n /\ first <= last
  BY <1>1, <1>2, <1>3, <1>4
<1>6. CASE last <= n
  <2>1. PiecesOf(recv, r) = first .. last /\ last \in 1 .. n
    BY <1>1, <1>2, <1>4, <1>5, <1>6
  <2>. QED
    BY <1>1, <1>5, <2>1
<1>7. CASE last > n
  <2>1. PiecesOf(recv, r) = first .. n /\ n \in 1 .. n
    BY <1>1, <1>2, <1>4, <1>5, <1>7
  <2>. QED
    BY <1>1, <1>5, <2>1
<1>8. last <= n \/ last > n
  BY <1>1, <1>2
<1>. QED
  BY <1>6, <1>7, <1>8, Zenon

(* A resource is whole when the next piece is of another one.              *)
LEMMA PiecesBeforeNext ==
  ASSUME NEW t \in AllTransfers, NEW n \in 1 .. Len(t),
         NEW recv, recv = FirstPieces(t, n), NEW r \in ResourcesOf(recv),
         n + 1 \notin PiecesOf(t, r)
  PROVE  PiecesOf(t, r) = PiecesOf(recv, r)
<1>1. /\ Len(t) \in Nat /\ DOMAIN t = 1 .. Len(t) /\ DOMAIN recv = 1 .. n
      /\ PiecesOf(recv, r) = PiecesOf(t, r) \cap (1 .. n)
      /\ r \in ResourcesOf(t)
  BY PiecesOfFirst
<1>2. PICK first, last \in 1 .. Len(t) : PiecesOf(t, r) = first .. last
  BY <1>1, TransferPieces DEF OneAfterAnother
<1>3. PICK i \in 1 .. n : i \in PiecesOf(recv, r)
  BY <1>1 DEF ResourcesOf, PiecesOf
<1>4. i \in first .. last
  BY <1>1, <1>2, <1>3
<1>5. last <= n
  BY <1>1, <1>2, <1>4
<1>. QED
  BY <1>1, <1>2, <1>5

LEMMA WholeBeforeNext ==
  ASSUME NEW t \in AllTransfers, NEW n \in 1 .. Len(t),
         NEW recv, recv = FirstPieces(t, n), NEW r \in ResourcesOf(recv),
         n + 1 \notin PiecesOf(t, r), NEW d \in Seq(Chunks), IsDataOf(d, recv, r)
  PROVE  IsDataOf(d, t, r)
<1>1. /\ DOMAIN t = 1 .. Len(t) /\ DOMAIN recv = 1 .. n
      /\ \A i \in 1 .. n : recv[i] = t[i] /\ i \in 1 .. Len(t)
      /\ PiecesOf(recv, r) \subseteq 1 .. n
  BY PiecesOfFirst
<1>2. PiecesOf(t, r) = PiecesOf(recv, r)
  BY PiecesBeforeNext
<1>3. PICK first \in 1 .. n :
        /\ PiecesOf(recv, r) = first .. first + Len(d) - 1
        /\ \A k \in DOMAIN d : d[k] = recv[first + k - 1].chunk
  BY <1>1 DEF IsDataOf
<1>4. first \in DOMAIN t
  BY <1>1
<1>5. ASSUME NEW k \in DOMAIN d
      PROVE  d[k] = t[first + k - 1].chunk
  <2>1. first + k - 1 \in first .. first + Len(d) - 1
    <3>1. k \in 1 .. Len(d) /\ Len(d) \in Nat
      OBVIOUS
    <3>2. first \in Int
      OBVIOUS
    <3>. QED
      BY <3>1, <3>2
  <2>. QED
    BY <1>1, <1>3, <2>1
<1>. QED
  BY <1>2, <1>3, <1>4, <1>5 DEF IsDataOf

(* A packet of an unbroken transfer: what getDictionary returns after it.  *)
LEMMA WholePacket ==
  ASSUME HandlerInv, BiosInv, KeepsUp, OnlyWhole, DeliverPacket,
         bios.broken = "never"
  PROVE  OnlyWhole'
<1>. SUFFICES ASSUME NEW t, t = bios.transfer, NEW n, n = bios.sent,
                     NEW i, i = n + 1,
                     NEW ds, ds = dictionaryManager.dictionaries,
                     NEW ds2, ds2 = dictionaryManager'.dictionaries,
                     NEW q \in ResourceIds, ds2[q].found, ds2[q].valid
              PROVE  IsWhole(q, ds2[q].data)
  BY DEF OnlyWhole, HasDictionary, IsWhole
<1>1. /\ t \in Transfers /\ t \in AllTransfers
      /\ Len(t) \in Nat /\ n \in Nat /\ i \in 1 .. Len(t)
      /\ t[i] \in Pieces /\ i \in DOMAIN t
  <2>1. /\ t \in Transfers /\ t \in AllTransfers
        /\ Len(t) \in Nat /\ n \in Nat /\ i \in 1 .. Len(t)
    BY NextPacket, TransfersAreProper DEF DeliverPacket, BiosInv, Senders
  <2>. QED
    BY <2>1, TransferPieces
<1>2. MultiPartReceiveResp(PacketOf(t, i))
  BY DEF DeliverPacket
<1>3. ds2[q] = ds[q] => IsWhole(q, ds2[q].data)
  BY DEF OnlyWhole, HasDictionary
<1>4. ASSUME Complete(ds2, t), q \in ResourcesOf(t)
      PROVE  IsWhole(q, ds2[q].data)
  BY <1>1, <1>4 DEF Complete, IsWhole
<1>5. CASE n = 0 /\ Len(t) # 1
  <2>1. MultiPartReceiveResp(PacketOf(t, 1))
    BY <1>1, <1>2, <1>5
  <2>2. /\ ~dictionaryManager'.dictionaries[t[1].resource].valid
        /\ \A r \in ResourceIds \ {t[1].resource} :
             dictionaryManager'.dictionaries[r] = dictionaryManager.dictionaries[r]
    BY <1>1, <1>5, <2>1, StartHolds
  <2>. QED
    BY <1>3, <2>2
<1>6. CASE n = 0 /\ Len(t) = 1
  <2>1. /\ Complete(ds2, t)
        /\ \A r \in ResourceIds \ ResourcesOf(t) : ds2[r] = ds[r]
    BY <1>1, <1>2, <1>6, SingleStops
  <2>. QED
    BY <1>3, <1>4, <2>1
<1>7. CASE n # 0
  <2>. SUFFICES ASSUME NEW recv, recv = FirstPieces(t, n),
                       NEW next, next = FirstPieces(t, i)
                PROVE  IsWhole(q, ds2[q].data)
    OBVIOUS
  <2>1. n \in 1 .. Len(t) /\ n < Len(t) /\ n > 0
    BY <1>1, <1>7
  <2>2. recv \in Seq(Pieces) /\ recv # <<>> /\ Continues(next, recv, t[i])
    BY <1>1, <2>1, FirstPiecesAppend
  <2>3. Holding(recv)
    BY <2>1 DEF KeepsUp
  <2>4. OneAfterAnother(recv) /\ Gathered(ds, recv)
    BY <1>1, <2>1, <2>3, FirstOneAfterAnother DEF Holding
  <2>5. CASE i # Len(t)
    <3>. SUFFICES ASSUME NEW last, last = LastResource(recv),
                         NEW x \in Pieces, x = t[i]
                  PROVE  IsWhole(q, ds2[q].data)
      BY <1>1
    <3>1. i \in 2 .. Len(t) - 1
      BY <1>1, <1>7, <2>5
    <3>2. Stores(ds, ds2, last, x)
      BY <1>1, <1>2, <2>2, <2>3, <3>1, MiddleHolds
    <3>3. q # x.resource
      BY <3>2 DEF Stores
    <3>4. CASE q # last
      BY <1>3, <3>2, <3>3, <3>4 DEF Stores
    <3>5. CASE q = last
      <4>1. ds2[q].data = ds[q].data
        BY <3>2, <3>3, <3>5 DEF Stores
      <4>2. q \in ResourcesOf(recv)
        BY <2>2, <3>5, ResourcesOfPieces
      <4>3. IsDataOf(ds[q].data, recv, q)
        BY <2>4, <4>2 DEF Gathered
      <4>4. ds[q].data \in Seq(Chunks)
        BY DEF HandlerInv, WellFormed, Managers, DictionaryEntry
      <4>5. n + 1 \notin PiecesOf(t, q)
        BY <3>3 DEF PiecesOf
      <4>6. IsDataOf(ds[q].data, t, q)
        BY <1>1, <2>1, <4>2, <4>3, <4>4, <4>5, WholeBeforeNext
      <4>7. q \in ResourcesOf(t)
        BY <1>1, <2>1, <4>2, PiecesOfFirst
      <4>. QED
        BY <1>1, <4>1, <4>6, <4>7 DEF IsWhole
    <3>. QED
      BY <3>4, <3>5
  <2>6. CASE i = Len(t)
    <3>1. next = t /\ i # 1
      BY <1>1, <1>7, <2>6, FirstPiecesAppend
    <3>2. OneAfterAnother(t)
      BY <1>1, TransferPieces
    <3>3. ChunksOf(next) = ChunksOf(t) /\ OneAfterAnother(next) =>
            /\ Complete(ds2, next)
            /\ \A r \in ResourceIds \ ResourcesOf(next) : ds2[r] = ds[r]
      BY <1>1, <1>2, <2>2, <2>3, <2>6, <3>1, EndStops
    <3>4. /\ Complete(ds2, t)
          /\ \A r \in ResourceIds \ ResourcesOf(t) : ds2[r] = ds[r]
      BY <3>1, <3>2, <3>3
    <3>. QED
      BY <1>3, <1>4, <3>4
  <2>. QED
    BY <2>5, <2>6
<1>. QED
  BY <1>5, <1>6, <1>7

(* While no packet is lost and no other one comes in between, a log that   *)
(* is published was decoded with two whole dictionaries, in the middle of  *)
(* a transfer and after one that was given up too: a dictionary that is    *)
(* being received is not valid before its last piece is in, and one that   *)
(* is restarted stops being valid at once.                                 *)
THEOREM WholeDictionaries == Spec => []WholeUnlessLost
<1>. DEFINE Inv == HandlerInv /\ BiosInv /\ KeepsUp /\ OnlyWhole /\ WholeUnlessLost
<1>1. Init => Inv
  <2>1. Init => KeepsUp /\ OnlyWhole /\ WholeUnlessLost
    BY DEF Init, HandlerInit, KeepsUp, OnlyWhole, WholeUnlessLost,
           DecodedWithWholeDictionaries, NothingPublished, HasDictionary,
           NoDictionaries, Absent
  <2>. QED
    BY <2>1, TransferInit
<1>2. Inv /\ [Next]_vars => Inv'
  <2>. SUFFICES ASSUME Inv, [Next]_vars PROVE Inv'
    OBVIOUS
  <2>1. HandlerInv' /\ BiosInv' /\ KeepsUp'
    BY TransferStep, KeepsUpStep
  <2>2. OnlyWhole' /\ WholeUnlessLost'
    <3>1. CASE BeginTransfer
      <4>1. UNCHANGED handlerVars
        BY <3>1 DEF BeginTransfer
      <4>2. bios'.broken = "never" => bios.broken = "never"
        BY <3>1, OtherSteps
      <4>. QED
        BY <4>1, <4>2 DEF handlerVars, OnlyWhole, WholeUnlessLost,
                          DecodedWithWholeDictionaries
    <3>2. CASE LosePacket \/ StrayPacket
      BY <3>2, OtherSteps DEF OnlyWhole, WholeUnlessLost
    <3>3. CASE DeliverPacket
      <4>1. bios'.broken = bios.broken
        BY <3>3 DEF DeliverPacket, BiosInv, Senders
      <4>2. UNCHANGED published
        BY <3>3 DEF DeliverPacket, MultiPartReceiveResp
      <4>3. OnlyWhole'
        BY <3>3, <4>1, WholePacket DEF OnlyWhole
      <4>. QED
        BY <4>1, <4>2, <4>3 DEF WholeUnlessLost, DecodedWithWholeDictionaries
    <3>4. CASE OtherCommand
      <4>1. UNCHANGED dictionaryManager /\ bios'.broken = bios.broken
        BY <3>4, OtherSteps
      <4>2. OnlyWhole'
        BY <4>1 DEF OnlyWhole
      <4>3. \/ UNCHANGED published
            \/ \E r \in ResourceIds :
                 /\ HasDictionary(dictionaryManager, r)
                 /\ HasDictionary(dictionaryManager, annotationResourceId)
                 /\ published' =
                      [resource |-> r, used |-> TRUE,
                       schema |-> dictionaryManager.dictionaries[r].data,
                       annotation |-> dictionaryManager.dictionaries
                                        [annotationResourceId].data]
        BY <3>4 DEF OtherCommand, OperationInitRequest, OperationInitEarly,
                    InvalidCommandType, ShortCommand
      <4>4. WholeUnlessLost'
        BY <4>1, <4>3, ResourceAssumption
           DEF OnlyWhole, WholeUnlessLost, DecodedWithWholeDictionaries
      <4>. QED
        BY <4>2, <4>4
    <3>5. CASE UNCHANGED vars
      BY <3>5 DEF vars, handlerVars, OnlyWhole, WholeUnlessLost,
                  DecodedWithWholeDictionaries
    <3>. QED
      BY <3>1, <3>2, <3>3, <3>4, <3>5 DEF Next
  <2>. QED
    BY <2>1, <2>2
<1>. QED
  BY <1>1, <1>2, PTL DEF Spec

=============================================================================
