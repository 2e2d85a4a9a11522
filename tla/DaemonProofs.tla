---------------------------- MODULE DaemonProofs ----------------------------
(***************************************************************************)
(* Proofs about the daemon as a whole: what the ready bit stands for, for  *)
(* every transfer, every queue and every fault of readLoop, and any number *)
(* of boots of the host.                                                   *)
(*                                                                         *)
(* The BIOS numbers its entries, and each one's content follows from the   *)
(* one before.  As long as nothing is erased the handler has seen all      *)
(* entries up to the next one, so it stands where the BIOS was when it     *)
(* wrote that one; and what erases entries clears the ready bit.  A single *)
(* packet that is dropped at a full queue, or changed without anyone       *)
(* noticing, does not clear it, and ends all that is proved here.          *)
(***************************************************************************)
EXTENDS Daemon, ReadLoopProofs, RdeHandlerProofs

PiecesSent == {Transfer[i] : i \in DOMAIN Transfer}

LastPacket == Len(Transfer)

(* The number of the entry that is decoded next: what came before it was   *)
(* decoded or is lost.                                                     *)
ToDecode == nextEntry - Len(queue) - Len(entryPairs)

(* The entries that wait are the last ones, with nothing missing between   *)
(* them; they can be corrupted in the queue only.                          *)
Numbered ==
  /\ contents \in Seq(0 .. LastPacket) /\ Len(contents) = nextEntry - 1
  /\ ToDecode >= 1
  /\ \A i \in 1 .. Len(entryPairs) : entryPairs[i] = ToDecode - 1 + i
  /\ \A i \in 1 .. Len(queue) :
       queue[i] \in {CorruptEntry, ToDecode + Len(entryPairs) - 1 + i}
  /\ pc \notin {"decode", "setReady"} => entryPairs = <<>>

(* What the BIOS may write after an entry with content c: the next packet, *)
(* the first one of another boot, or a log after the last packet.          *)
Follows(c, next) ==
  next = 1 \/ next = c + 1 \/ (next = Log /\ c \in {LastPacket, Log})

(* The last entry has content c, and s packets were sent since the boot.   *)
SentUpTo(c, s) == s = 0 \/ s = c \/ (c = Log /\ s = LastPacket)

InSequence ==
  /\ host \in [boots : Nat, sent : 0 .. LastPacket]
  /\ \A e \in 1 .. Len(contents) - 1 : Follows(contents[e], contents[e + 1])
  /\ IF contents = <<>> THEN host.sent = 0
     ELSE SentUpTo(contents[Len(contents)], host.sent)

(* The bit says that the BMC is ready, or is about to.                     *)
Ready == pc # "erase" /\ (hdr.bmcFlags.ready = 1 \/ pc = "setReady")

(* The handler stands where it should after an entry with content c.       *)
Stands(c) ==
  IF flagState = "RdeStateStartRecvd"
  THEN c \in 1 .. LastPacket - 1 /\ Holding(FirstPieces(Transfer, c))
  ELSE c \in {LastPacket, Log} /\ AllWhole

Found == status # "RdeNoDictionary"

InStep ==
  Ready => /\ ToDecode > 1 /\ Found
           /\ \E c \in 0 .. LastPacket : c = contents[ToDecode - 1] /\ Stands(c)

(* Also when the bit is not set, the handler gathers pieces that were sent.*)
Gathering ==
  flagState = "RdeStateStartRecvd" =>
    \E recv \in Seq(PiecesSent) : recv # <<>> /\ Holding(recv)

(* A log that waits was sent to a BMC that was ready, and still is.        *)
LogsWait ==
  \A e \in ToDecode .. nextEntry - 1 : contents[e] = Log => hdr.bmcFlags.ready = 1

(* The checksum tells the dictionaries apart: it does not cover the        *)
(* resource ids, and what is left of two transfers may add up to one.      *)
ChunksNameResources == NamedByChunks(PiecesSent)

LoopInv == FlagsInv /\ DataTypes

UndisturbedInv ==
  LoopInv /\ HandlerInv /\ Numbered /\ InSequence /\ InStep /\ Gathering /\ LogsWait

(* A single packet that is dropped or changed unnoticed ends all this.     *)
DaemonInv == disturbed \/ UndisturbedInv

-----------------------------------------------------------------------------
(* The transfer.                                                           *)

LEMMA TransferIsProper ==
  /\ Transfer \in AllTransfers
  /\ LastPacket \in Nat \ {0} /\ DOMAIN Transfer = 1 .. LastPacket
  /\ Transfer \in Seq(PiecesSent) /\ PiecesSent \in SUBSET Pieces
  /\ \A i \in 1 .. LastPacket : Transfer[i] \in PiecesSent
<1>1. Transfer \in Seq(Pieces) /\ OneAfterAnother(Transfer)
  BY DaemonAssumption DEF Pieces
<1>2. Transfer # <<>>
  <2>1. annotationResourceId \in ResourcesOf(Transfer)
    BY DaemonAssumption
  <2>. QED
    BY <2>1 DEF ResourcesOf
<1>3. Transfer \in AllTransfers
  BY <1>1, <1>2 DEF AllTransfers
<1>4. /\ LastPacket \in Nat \ {0} /\ DOMAIN Transfer = 1 .. LastPacket
      /\ \A i \in 1 .. LastPacket : Transfer[i] \in Pieces
  BY <1>3, TransferPieces DEF LastPacket
<1>5. PiecesSent \in SUBSET Pieces /\ \A i \in 1 .. LastPacket : Transfer[i] \in PiecesSent
  BY <1>4 DEF PiecesSent
<1>6. Transfer \in Seq(PiecesSent)
  BY <1>1, <1>4, <1>5 DEF LastPacket
<1>. QED
  BY <1>3, <1>4, <1>5, <1>6

LEMMA OneMorePiece ==
  ASSUME NEW S, NEW recv \in Seq(S), NEW x \in S
  PROVE  \E next \in Seq(S) : next # <<>> /\ Continues(next, recv, x)
<1>1. Append(recv, x) \in Seq(S)
  OBVIOUS
<1>2. Append(recv, x) # <<>>
  <2>1. Len(Append(recv, x)) = Len(recv) + 1 /\ Len(recv) \in Nat /\ Len(<<>>) = 0
    OBVIOUS
  <2>. QED
    BY <2>1
<1>3. Continues(Append(recv, x), recv, x)
  BY DEF Continues
<1>. QED
  BY <1>1, <1>2, <1>3

(* One packet of the transfer, wherever the handler is.                    *)
LEMMA PacketReceived ==
  ASSUME ChunksNameResources, HandlerInv, Gathering,
         NEW i \in 1 .. LastPacket, MultiPartReceiveResp(PacketOf(Transfer, i))
  PROVE  /\ HandlerInv' /\ Gathering'
         /\ status' \in {"RdeOk", "RdeStopFlagReceived", "RdeInvalidChecksum",
                         "RdeInvalidPktOrder"}
         /\ status' = "RdeStopFlagReceived" => i = LastPacket /\ Stands(i)'
         /\ \A c \in 0 .. LastPacket : Stands(c) /\ Follows(c, i) => Stands(i)'
<1>. USE TransferIsProper
<1>1. HandlerInv'
  BY PacketType, PacketHandlerInv DEF LastPacket
<1>2. ASSUME Complete(dictionaryManager'.dictionaries, Transfer), i = LastPacket,
             flagState' = "RdeStateIdle"
      PROVE  Stands(i)'
  <2>1. AllWhole'
    BY <1>2 DEF Complete, AllWhole, IsWholeNow, HasDictionary
  <2>. QED
    BY <1>2, <2>1 DEF Stands
<1>3. CASE i = 1 /\ LastPacket = 1
  <2>1. /\ flagState' = "RdeStateIdle" /\ status' = "RdeStopFlagReceived"
        /\ Complete(dictionaryManager'.dictionaries, Transfer)
    BY <1>3, SingleStops DEF LastPacket
  <2>. QED
    BY <1>1, <1>2, <1>3, <2>1 DEF Gathering
<1>4. CASE i = 1 /\ LastPacket # 1
  <2>1. Holding(<<Transfer[1]>>)' /\ status' = "RdeOk"
    BY <1>4, StartHolds DEF LastPacket
  <2>2. FirstPieces(Transfer, 1) = <<Transfer[1]>>
    BY FirstPiecesAppend DEF LastPacket
  <2>3. <<Transfer[1]>> \in Seq(PiecesSent) /\ <<Transfer[1]>> # <<>>
    BY <1>4
  <2>4. flagState' = "RdeStateStartRecvd"
    BY <2>1 DEF Holding
  <2>5. Gathering'
    BY <2>1, <2>3 DEF Gathering
  <2>6. Stands(i)'
    <3>1. Holding(FirstPieces(Transfer, 1))'
      BY <2>1, <2>2
    <3>2. i = 1 /\ i \in 1 .. LastPacket - 1
      BY <1>4
    <3>. QED
      BY <2>4, <3>1, <3>2 DEF Stands
  <2>. QED
    BY <1>1, <2>1, <2>5, <2>6
<1>5. CASE i # 1 /\ flagState # "RdeStateStartRecvd"
  <2>1. i \in 2 .. LastPacket
    BY <1>5
  <2>2. UNCHANGED flagState /\ status' = "RdeInvalidPktOrder"
    BY <1>5, <2>1, OutOfOrderRefused DEF LastPacket
  <2>3. ASSUME NEW c \in 0 .. LastPacket, Stands(c), Follows(c, i)
        PROVE  FALSE
    <3>1. c \in {LastPacket, 0}
      BY <1>5, <2>3 DEF Stands, Log
    <3>. QED
      BY <1>5, <2>1, <2>3, <3>1 DEF Follows, Log
  <2>4. Gathering'
    BY <1>5, <2>2 DEF Gathering
  <2>. QED
    BY <1>1, <2>2, <2>3, <2>4
<1>6. CASE i # 1 /\ flagState = "RdeStateStartRecvd" /\ i # LastPacket
  <2>1. i \in 2 .. LastPacket - 1
    BY <1>6
  <2>2. ASSUME NEW recv \in Seq(Pieces), recv # <<>>, Holding(recv),
               NEW next, Continues(next, recv, Transfer[i])
        PROVE  Holding(next)' /\ status' = "RdeOk"
    BY <2>1, <2>2, MiddleHolds DEF LastPacket
  <2>3. Gathering' /\ status' = "RdeOk"
    <3>1. PICK recv \in Seq(PiecesSent) : recv # <<>> /\ Holding(recv)
      BY <1>6 DEF Gathering
    <3>2. recv \in Seq(Pieces)
      OBVIOUS
    <3>3. PICK next \in Seq(PiecesSent) :
            next # <<>> /\ Continues(next, recv, Transfer[i])
      BY <3>1, OneMorePiece
    <3>4. Holding(next)' /\ status' = "RdeOk"
      BY <2>2, <3>1, <3>2, <3>3
    <3>. QED
      BY <3>3, <3>4 DEF Gathering
  <2>4. ASSUME NEW c \in 0 .. LastPacket, Stands(c), Follows(c, i)
        PROVE  Stands(i)'
    <3>1. c \in 1 .. LastPacket - 1 /\ Holding(FirstPieces(Transfer, c))
      BY <1>6, <2>4 DEF Stands
    <3>2. i = c + 1
      BY <1>6, <2>4, <3>1 DEF Follows, Log
    <3>3. c \in 1 .. Len(Transfer) /\ c < Len(Transfer)
      BY <3>1 DEF LastPacket
    <3>4. /\ FirstPieces(Transfer, c) \in Seq(Pieces)
          /\ FirstPieces(Transfer, c) # <<>>
          /\ Continues(FirstPieces(Transfer, i), FirstPieces(Transfer, c),
                       Transfer[i])
      BY <3>2, <3>3, FirstPiecesAppend
    <3>5. Holding(FirstPieces(Transfer, i))'
      BY <2>2, <3>1, <3>4
    <3>6. flagState' = "RdeStateStartRecvd"
      BY <3>5 DEF Holding
    <3>. QED
      BY <2>1, <3>5, <3>6 DEF Stands
  <2>5. ~(status' = "RdeStopFlagReceived")
    BY <2>3
  <2>. QED
    BY <1>1, <2>3, <2>4, <2>5
<1>7. CASE i # 1 /\ flagState = "RdeStateStartRecvd" /\ i = LastPacket
  <2>1. ASSUME NEW recv \in Seq(Pieces), recv # <<>>, Holding(recv),
               NEW next, Continues(next, recv, Transfer[i])
        PROVE  /\ flagState' = "RdeStateIdle"
               /\ next = Transfer =>
                    /\ status' = "RdeStopFlagReceived"
                    /\ Complete(dictionaryManager'.dictionaries, Transfer)
               /\ ChunksOf(next) # ChunksOf(Transfer) =>
                    status' = "RdeInvalidChecksum"
    BY <1>7, <2>1, EndStops DEF LastPacket, AllTransfers
  <2>2. /\ flagState' = "RdeStateIdle"
        /\ status' \in {"RdeStopFlagReceived", "RdeInvalidChecksum"}
        /\ status' = "RdeStopFlagReceived" => Stands(i)'
    <3>1. PICK recv \in Seq(PiecesSent) : recv # <<>> /\ Holding(recv)
      BY <1>7 DEF Gathering
    <3>2. recv \in Seq(Pieces)
      OBVIOUS
    <3>3. PICK next \in Seq(PiecesSent) : Continues(next, recv, Transfer[i])
      BY <3>1, OneMorePiece
    <3>4. ChunksOf(next) = ChunksOf(Transfer) => next = Transfer
      BY SameChunks DEF ChunksNameResources
    <3>5. CASE next = Transfer
      BY <1>2, <1>7, <2>1, <3>1, <3>2, <3>3, <3>5
    <3>6. CASE next # Transfer
      BY <2>1, <3>1, <3>2, <3>3, <3>4, <3>6
    <3>. QED
      BY <3>5, <3>6
  <2>3. ASSUME NEW c \in 0 .. LastPacket, Stands(c), Follows(c, i)
        PROVE  Stands(i)'
    <3>1. c \in 1 .. LastPacket - 1 /\ Holding(FirstPieces(Transfer, c))
      BY <1>7, <2>3 DEF Stands
    <3>2. i = c + 1
      BY <1>7, <2>3, <3>1 DEF Follows, Log
    <3>3. /\ FirstPieces(Transfer, c) \in Seq(Pieces)
          /\ FirstPieces(Transfer, c) # <<>>
          /\ Continues(FirstPieces(Transfer, i), FirstPieces(Transfer, c),
                       Transfer[i])
          /\ FirstPieces(Transfer, i) = Transfer
      BY <1>7, <3>1, <3>2, FirstPiecesAppend DEF LastPacket
    <3>. QED
      BY <1>2, <1>7, <2>1, <2>2, <3>1, <3>3
  <2>4. Gathering'
    BY <2>2 DEF Gathering
  <2>. QED
    BY <1>1, <1>7, <2>2, <2>3, <2>4
<1>. QED
  BY <1>3, <1>4, <1>5, <1>6, <1>7

-----------------------------------------------------------------------------
(* The numbers of the entries.                                             *)

LEMMA EntriesKept ==
  ASSUME Numbered, DataTypes, UNCHANGED <<queue, entryPairs, nextEntry, contents>>,
         pc' \in {"decode", "setReady"} \/ entryPairs = <<>>
  PROVE  Numbered' /\ ToDecode' = ToDecode
BY DEF Numbered, ToDecode

LEMMA EntriesTaken ==
  ASSUME Numbered, DataTypes, pc = "read", pc' = "decode", ~Unreadable(queue),
         entryPairs' = queue, queue' = <<>>, UNCHANGED <<nextEntry, contents>>
  PROVE  Numbered' /\ ToDecode' = ToDecode
<1>1. entryPairs = <<>> /\ Len(entryPairs) = 0 /\ Len(queue') = 0
  BY DEF Numbered
<1>2. Len(queue) \in Nat /\ DOMAIN queue = 1 .. Len(queue) /\ nextEntry \in Nat
  BY DEF DataTypes
<1>3. ToDecode = nextEntry - Len(queue) /\ ToDecode' = ToDecode
  BY <1>1, <1>2 DEF ToDecode
<1>4. \A i \in 1 .. Len(queue) : queue[i] = ToDecode - 1 + i
  <2>. SUFFICES ASSUME NEW i \in 1 .. Len(queue) PROVE queue[i] = ToDecode - 1 + i
    OBVIOUS
  <2>1. queue[i] # CorruptEntry
    BY <1>2 DEF Unreadable
  <2>2. queue[i] \in {CorruptEntry, ToDecode + Len(entryPairs) - 1 + i}
    BY DEF Numbered
  <2>. QED
    BY <1>1, <1>2, <1>3, <2>1, <2>2
<1>. QED
  BY <1>1, <1>3, <1>4 DEF Numbered

LEMMA EntriesLost ==
  ASSUME Numbered, DataTypes, entryPairs' = <<>>, queue' \in {queue, <<>>},
         UNCHANGED <<nextEntry, contents>>
  PROVE  /\ Numbered' /\ ToDecode' \in Int /\ ToDecode' >= ToDecode
         /\ entryPairs = <<>> /\ queue' = queue => ToDecode' = ToDecode
         /\ queue' = <<>> => ToDecode' = nextEntry'
<1>1. /\ Len(queue) \in Nat /\ Len(entryPairs) \in Nat /\ nextEntry \in Nat
      /\ Len(entryPairs') = 0 /\ Len(<<>>) = 0
  BY DEF DataTypes
<1>2. ToDecode' >= ToDecode /\ ToDecode \in Int /\ ToDecode' \in Int
  BY <1>1 DEF ToDecode
<1>3. queue' = <<>> => ToDecode' = nextEntry'
  BY <1>1 DEF ToDecode
<1>4. queue' = queue => ToDecode' = ToDecode + Len(entryPairs)
  BY <1>1 DEF ToDecode
<1>5. \A i \in 1 .. Len(queue') :
        queue'[i] \in {CorruptEntry, ToDecode' + Len(entryPairs') - 1 + i}
  <2>1. CASE queue' = queue
    <3>. SUFFICES ASSUME NEW i \in 1 .. Len(queue)
                  PROVE  queue[i] \in {CorruptEntry, ToDecode' + 0 - 1 + i}
      BY <1>1, <2>1
    <3>1. ToDecode + Len(entryPairs) - 1 + i = ToDecode' + 0 - 1 + i
      BY <1>1, <1>2, <1>4, <2>1
    <3>. QED
      BY <3>1 DEF Numbered
  <2>2. CASE queue' = <<>>
    BY <1>1, <2>2
  <2>. QED
    BY <2>1, <2>2
<1>6. Numbered'
  BY <1>1, <1>2, <1>5 DEF Numbered
<1>. QED
  BY <1>1, <1>2, <1>3, <1>4, <1>6

LEMMA EntryDecoded ==
  ASSUME Numbered, DataTypes, entryPairs # <<>>, entryPairs' = Tail(entryPairs),
         pc' \in {"decode", "setReady"}, UNCHANGED <<queue, nextEntry, contents>>
  PROVE  Numbered' /\ ToDecode' = ToDecode + 1
<1>1. /\ Len(queue) \in Nat /\ Len(entryPairs) \in Nat /\ nextEntry \in Nat
      /\ Len(entryPairs') = Len(entryPairs) - 1
      /\ \A i \in 1 .. Len(entryPairs') : entryPairs'[i] = entryPairs[i + 1]
  BY DEF DataTypes
<1>2. ToDecode' = ToDecode + 1 /\ ToDecode \in Int
  BY <1>1 DEF ToDecode
<1>3. \A i \in 1 .. Len(entryPairs') : entryPairs'[i] = ToDecode' - 1 + i
  BY <1>1, <1>2 DEF Numbered
<1>4. ToDecode' + Len(entryPairs') = ToDecode + Len(entryPairs)
  BY <1>1, <1>2
<1>5. \A i \in 1 .. Len(queue') :
        queue'[i] \in {CorruptEntry, ToDecode' + Len(entryPairs') - 1 + i}
  <2>. SUFFICES ASSUME NEW i \in 1 .. Len(queue)
                PROVE  queue[i] \in {CorruptEntry, ToDecode + Len(entryPairs) - 1 + i}
    BY <1>1, <1>2, <1>4
  <2>. QED
    BY DEF Numbered
<1>. QED
  BY <1>2, <1>3, <1>5 DEF Numbered

(* The entry that is decoded is in contents, and the one before it.        *)
LEMMA EntryToDecode ==
  ASSUME Numbered, DataTypes, entryPairs # <<>>
  PROVE  /\ Head(entryPairs) = ToDecode
         /\ ToDecode \in 1 .. Len(contents) /\ ToDecode \in 1 .. nextEntry - 1
<1>1. /\ Len(queue) \in Nat /\ Len(entryPairs) \in Nat /\ Len(entryPairs) > 0
      /\ Head(entryPairs) = entryPairs[1] /\ nextEntry \in Nat
  BY DEF DataTypes
<1>. QED
  BY <1>1 DEF Numbered, ToDecode

LEMMA EntryWritten ==
  ASSUME Numbered, DataTypes, NEW c \in 0 .. LastPacket,
         queue' = Append(queue, nextEntry), nextEntry' = nextEntry + 1,
         contents' = Append(contents, c), UNCHANGED <<entryPairs, pc>>
  PROVE  Numbered' /\ ToDecode' = ToDecode
<1>1. /\ Len(queue) \in Nat /\ Len(entryPairs) \in Nat /\ nextEntry \in Nat
      /\ Len(queue') = Len(queue) + 1
      /\ \A i \in 1 .. Len(queue) : queue'[i] = queue[i]
      /\ queue'[Len(queue) + 1] = nextEntry
  BY DEF DataTypes
<1>2. ToDecode' = ToDecode /\ ToDecode \in Int
      /\ nextEntry = ToDecode + Len(entryPairs) - 1 + Len(queue) + 1
  BY <1>1 DEF ToDecode
<1>3. contents' \in Seq(0 .. LastPacket) /\ Len(contents') = nextEntry' - 1
  BY <1>1 DEF Numbered
<1>4. \A i \in 1 .. Len(queue') :
        queue'[i] \in {CorruptEntry, ToDecode' + Len(entryPairs') - 1 + i}
  <2>. SUFFICES ASSUME NEW i \in 1 .. Len(queue) + 1
                PROVE  queue'[i] \in {CorruptEntry, ToDecode + Len(entryPairs) - 1 + i}
    BY <1>1, <1>2
  <2>1. CASE i = Len(queue) + 1
    BY <1>1, <1>2, <2>1
  <2>2. CASE i \in 1 .. Len(queue)
    BY <1>1, <2>2 DEF Numbered
  <2>. QED
    BY <1>1, <2>1, <2>2
<1>. QED
  BY <1>2, <1>3, <1>4 DEF Numbered

LEMMA EntryCorrupted ==
  ASSUME Numbered, DataTypes, NEW i \in DOMAIN queue,
         queue' = [queue EXCEPT ![i] = CorruptEntry],
         UNCHANGED <<entryPairs, pc, nextEntry, contents>>
  PROVE  Numbered' /\ ToDecode' = ToDecode
<1>1. /\ Len(queue) \in Nat /\ DOMAIN queue = 1 .. Len(queue)
      /\ queue' \in Seq(Nat) /\ Len(queue') = Len(queue)
      /\ \A j \in 1 .. Len(queue) : queue'[j] \in {queue[j], CorruptEntry}
  BY DEF DataTypes, CorruptEntry
<1>2. ToDecode' = ToDecode
  BY <1>1 DEF ToDecode
<1>3. \A j \in 1 .. Len(queue') :
        queue'[j] \in {CorruptEntry, ToDecode' + Len(entryPairs') - 1 + j}
  BY <1>1, <1>2 DEF Numbered
<1>. QED
  BY <1>2, <1>3 DEF Numbered

-----------------------------------------------------------------------------
(* What the daemon does to the variables of readLoop, ReadLoop allows.     *)

LEMMA BmcStepIsBmc == BmcStep => Bmc
<1>. SUFFICES ASSUME BmcStep PROVE Bmc
  OBVIOUS
<1>1. UNCHANGED <<biosVars, faults>>
  BY DEF BmcStep
<1>2. CASE LoopStep
  BY <1>1, <1>2 DEF LoopStep, Bmc
<1>3. CASE EraseStep
  BY <1>1, <1>3 DEF EraseStep, Bmc
<1>4. CASE DecodeUeLog
  <2>1. \E outcome \in UeOutcomes \cup {"zero", "cut"} : DecodeUe(outcome)
    BY <1>4, DaemonAssumption DEF DecodeUeLog
  <2>. QED
    BY <1>1, <2>1 DEF Bmc
<1>5. CASE DecodeQueueEntry
  <2>1. \E outcome \in EntryOutcomes : DecodeEntry(outcome)
    <3>1. OutcomeOf(status') \in EntryOutcomes
      BY DaemonAssumption DEF OutcomeOf
    <3>2. "throws" \in EntryOutcomes
      BY DaemonAssumption
    <3>. QED
      BY <1>5, <3>1, <3>2 DEF DecodeQueueEntry
  <2>. QED
    BY <1>1, <2>1 DEF Bmc
<1>. QED
  BY <1>2, <1>3, <1>4, <1>5 DEF BmcStep

LEMMA LoopInvStep ==
  ASSUME LoopInv, DaemonNext, ~disturbed'
  PROVE  LoopInv'
<1>1. CASE BmcStep
  BY <1>1, BmcStepIsBmc, FlagsBmc, DataBmc DEF LoopInv
<1>2. CASE BiosStep
  <2>1. Bios
    BY <1>2 DEF BiosStep, SendPacket, SendLog, ReportStep, Bios
  <2>. QED
    BY <2>1, FlagsBios, DataOthers DEF LoopInv
<1>3. CASE Boot
  <2>1. DataTypes'
    BY <1>3 DEF Boot, shared, bmcVars, LoopInv, DataTypes
  <2>2. FlagsInv'
    BY <1>3, HeaderTypes DEF Boot, shared, bmcVars, LoopInv, FlagsInv, FlagTypes,
                             FlagsCoherent, ErasedFlags
  <2>. QED
    BY <2>1, <2>2 DEF LoopInv
<1>4. CASE RestartStep
  BY <1>4, FlagsFaults, DataOthers DEF RestartStep, LoopInv
<1>5. CASE CorruptStep
  BY <1>5, FlagsFaults, DataOthers DEF CorruptStep, LoopInv
<1>. QED
  BY <1>1, <1>2, <1>3, <1>4, <1>5 DEF DaemonNext, DropPacket, AlterStep

-----------------------------------------------------------------------------
(* Steps that decode no entry and lose none.                               *)

Quiet ==
  /\ Numbered' /\ ToDecode' = ToDecode
  /\ Ready' => Ready
  /\ hdr.bmcFlags.ready = 1 => hdr'.bmcFlags.ready = 1

(* The flags word that is computed from the cached one has its ready bit.  *)
LEMMA FlagsWritten ==
  ASSUME LoopInv, AckUe \/ AckOverflow \/ SetReady
  PROVE  /\ hdr'.bmcFlags.ready = IF pc = "setReady" THEN 1 ELSE hdr.bmcFlags.ready
         /\ pc \in {"ackUe", "ackOverflow", "setReady"}
<1>1. cached.bmcFlags \in BmcFlags /\ FlagTypes
  BY DEF LoopInv, FlagsInv, FlagTypes, Header
<1>2. CASE AckUe
  <2>1. cached.bmcFlags = hdr.bmcFlags /\ pc = "ackUe"
    BY <1>2 DEF AckUe, LoopInv, FlagsInv, FlagsCoherent, UsesCache
  <2>2. hdr'.bmcFlags = [cached.bmcFlags EXCEPT !.ueSwitch = Toggle(@)]
    BY <1>1, <1>2, ComputedFlags, UpdateBmcFlagsCoherent DEF AckUe
  <2>. QED
    BY <1>1, <2>1, <2>2, ComputedFlags
<1>3. CASE AckOverflow
  <2>1. cached.bmcFlags = hdr.bmcFlags /\ pc = "ackOverflow"
    BY <1>3 DEF AckOverflow, LoopInv, FlagsInv, FlagsCoherent, UsesCache
  <2>2. hdr'.bmcFlags = [cached.bmcFlags EXCEPT !.overflow = Toggle(@)]
    BY <1>1, <1>3, ComputedFlags, UpdateBmcFlagsCoherent DEF AckOverflow
  <2>. QED
    BY <1>1, <2>1, <2>2, ComputedFlags
<1>4. CASE SetReady
  <2>1. hdr'.bmcFlags = [cached.bmcFlags EXCEPT !.ready = 1] /\ pc = "setReady"
    BY <1>1, <1>4, ComputedFlags, UpdateBmcFlagsCoherent DEF SetReady
  <2>. QED
    BY <1>1, <2>1, ComputedFlags
<1>. QED
  BY <1>2, <1>3, <1>4

LEMMA LoopStepQuiet ==
  ASSUME LoopInv, Numbered, LoopStep, UNCHANGED <<biosVars, contents>>
  PROVE  Quiet
<1>. USE DEF LoopInv, Quiet
<1>1. UNCHANGED <<nextEntry, contents>>
  BY DEF biosVars
<1>2. pc \notin {"decode", "setReady"} => entryPairs = <<>>
  BY DEF Numbered
<1>3. CASE ReadUeHeader \/ ReadUeRegion \/ CheckForOverflow \/ Rearm
  <2>1. /\ UNCHANGED <<hdr, queue, entryPairs>> /\ entryPairs = <<>>
        /\ pc' # "setReady" /\ pc # "erase"
    BY <1>2, <1>3 DEF ReadUeHeader, ReadUeRegion, CheckForOverflow, Rearm, shared, Throw
  <2>. QED
    BY <1>1, <2>1, EntriesKept DEF Ready
<1>4. CASE AckUe \/ AckOverflow
  <2>1. /\ UNCHANGED <<queue, entryPairs>> /\ entryPairs = <<>>
        /\ pc' \notin {"erase", "setReady"} /\ pc \notin {"erase", "setReady"}
    BY <1>2, <1>4 DEF AckUe, AckOverflow, UpdateBmcFlags
  <2>2. hdr'.bmcFlags.ready = hdr.bmcFlags.ready
    BY <1>4, <2>1, FlagsWritten
  <2>. QED
    BY <1>1, <2>1, <2>2, EntriesKept DEF Ready
<1>5. CASE SetReady
  <2>1. UNCHANGED <<queue, entryPairs>> /\ pc' = "decode" /\ pc = "setReady"
    BY <1>5 DEF SetReady, UpdateBmcFlags
  <2>2. hdr'.bmcFlags.ready = 1
    BY <1>5, <2>1, FlagsWritten
  <2>. QED
    BY <1>1, <2>1, <2>2, EntriesKept DEF Ready
<1>6. CASE ReadErrorLogs
  <2>1. /\ pc = "read" /\ entryPairs = <<>> /\ hdr' = hdr
    BY <1>2, <1>6 DEF ReadErrorLogs
  <2>2. CASE entryPairs' = queue /\ queue' = <<>> /\ pc' = "decode" /\ ~Unreadable(queue)
    BY <1>1, <2>1, <2>2, EntriesTaken DEF Ready
  <2>3. CASE entryPairs' = <<>> /\ queue' = queue /\ pc' = "erase"
    BY <1>1, <2>1, <2>3, EntriesLost DEF Ready
  <2>. QED
    BY <1>6, <2>2, <2>3 DEF ReadErrorLogs, Throw
<1>7. CASE InitializeHeader
  <2>1. /\ UNCHANGED <<queue, entryPairs>> /\ entryPairs = <<>>
        /\ pc = "writeHeader" /\ pc' = "idle" /\ hdr' = InitialHeader
    BY <1>2, <1>7 DEF InitializeHeader
  <2>2. hdr.bmcFlags.ready = 0 /\ hdr'.bmcFlags.ready = 0
    BY <2>1 DEF FlagsInv, ErasedFlags, InitialHeader, ZeroHeader
  <2>. QED
    BY <1>1, <2>1, <2>2, EntriesKept DEF Ready
<1>. QED
  BY <1>3, <1>4, <1>5, <1>6, <1>7 DEF LoopStep

LEMMA DecodeUeQuiet ==
  ASSUME LoopInv, Numbered, NEW outcome, DecodeUe(outcome),
         UNCHANGED <<biosVars, contents>>
  PROVE  Quiet /\ (outcome \in {"bad", "cut"} => pc' = "erase")
<1>. USE DEF LoopInv, Quiet
<1>1. UNCHANGED <<nextEntry, contents, hdr, queue>> /\ pc = "decodeUe"
  BY DEF biosVars, DecodeUe, shared
<1>2. entryPairs = <<>>
  BY <1>1 DEF Numbered
<1>3. CASE entryPairs' = entryPairs /\ pc' = "ackUe" /\ outcome \notin {"bad", "cut"}
  BY <1>1, <1>2, <1>3, EntriesKept DEF Ready
<1>4. CASE entryPairs' = <<>> /\ pc' = "erase"
  BY <1>1, <1>2, <1>4, EntriesLost DEF Ready
<1>. QED
  BY <1>3, <1>4 DEF DecodeUe, Throw

LEMMA CorruptQuiet ==
  ASSUME LoopInv, Numbered, CorruptStep
  PROVE  Quiet /\ UNCHANGED nextEntry
<1>. USE DEF LoopInv, Quiet
<1>1. UNCHANGED <<contents, nextEntry, entryPairs, pc>>
  BY DEF CorruptStep, CorruptSizes, CorruptQueue, bmcVars, biosVars
<1>2. hdr'.bmcFlags = hdr.bmcFlags
  BY FlagsFaults DEF CorruptStep
<1>3. Numbered' /\ ToDecode' = ToDecode
  <2>1. CASE CorruptSizes
    <3>1. UNCHANGED queue
      BY <2>1 DEF CorruptSizes
    <3>2. pc' \in {"decode", "setReady"} \/ entryPairs = <<>>
      BY <1>1 DEF Numbered
    <3>. QED
      BY <1>1, <3>1, <3>2, EntriesKept
  <2>2. CASE \E i \in DOMAIN queue : CorruptDetected(i)
    BY <1>1, <2>2, EntryCorrupted DEF CorruptDetected
  <2>. QED
    BY <2>1, <2>2 DEF CorruptStep
<1>. QED
  BY <1>1, <1>2, <1>3 DEF Ready

LEMMA BootQuiet ==
  ASSUME LoopInv, Numbered, Boot
  PROVE  Quiet /\ UNCHANGED nextEntry
<1>. USE DEF LoopInv, Quiet
<1>1. UNCHANGED <<contents, nextEntry, queue, entryPairs, pc, hdr>>
  BY DEF Boot, shared, bmcVars
<1>2. pc' \in {"decode", "setReady"} \/ entryPairs = <<>>
  BY <1>1 DEF Numbered
<1>. QED
  BY <1>1, <1>2, EntriesKept DEF Ready

(* What such a step keeps, if it also leaves the handler alone.            *)
LEMMA QuietKeeps ==
  ASSUME LoopInv, Numbered, InStep, Gathering, Quiet,
         UNCHANGED <<flagState, prevDictResourceId, dictionaryManager, crc>>,
         \A e \in 1 .. Len(contents) : contents'[e] = contents[e],
         Ready' /\ Found => Found'
  PROVE  InStep' /\ Gathering'
<1>1. Gathering'
  BY DEF Gathering, Holding
<1>2. \A c : Stands(c)' = Stands(c)
  BY DEF Stands, Holding, AllWhole, IsWholeNow
<1>3. ASSUME Ready'
      PROVE  /\ ToDecode' > 1 /\ Found'
             /\ \E c \in 0 .. LastPacket : c = contents'[ToDecode' - 1] /\ Stands(c)'
  <2>1. Ready /\ ToDecode' = ToDecode
    BY <1>3 DEF Quiet
  <2>2. /\ ToDecode > 1 /\ Found
        /\ \E c \in 0 .. LastPacket : c = contents[ToDecode - 1] /\ Stands(c)
    BY <2>1 DEF InStep
  <2>3. ToDecode - 1 \in 1 .. Len(contents)
    <3>1. /\ Len(queue) \in Nat /\ Len(entryPairs) \in Nat /\ nextEntry \in Nat
          /\ Len(contents) = nextEntry - 1
      BY DEF LoopInv, DataTypes, Numbered
    <3>. QED
      BY <2>2, <3>1 DEF ToDecode
  <2>. QED
    BY <1>2, <1>3, <2>1, <2>2, <2>3
<1>4. InStep'
  BY <1>3 DEF InStep
<1>. QED
  BY <1>1, <1>4

(* Nothing is sent, and entries are decoded or lost at most.               *)
LEMMA LogsWaitKept ==
  ASSUME LogsWait, ToDecode \in Int, ToDecode' \in Int, nextEntry \in Int,
         UNCHANGED <<contents, nextEntry>>, ToDecode' >= ToDecode,
         hdr.bmcFlags.ready = 1 => hdr'.bmcFlags.ready = 1
  PROVE  LogsWait'
BY DEF LogsWait

LEMMA NoLogWaits ==
  ASSUME nextEntry' \in Nat, ToDecode' = nextEntry'
  PROVE  LogsWait'
<1>1. ASSUME NEW n \in Nat, NEW e \in n .. n - 1
      PROVE  FALSE
  OBVIOUS
<1>. QED
  BY <1>1 DEF LogsWait

LEMMA InSequenceKept ==
  ASSUME InSequence, UNCHANGED <<contents, host>>
  PROVE  InSequence'
BY DEF InSequence

-----------------------------------------------------------------------------
(* The BIOS.                                                               *)

LEMMA EntrySent ==
  ASSUME LoopInv, Numbered, InSequence, LogsWait, BiosAppend, UNCHANGED bmcVars,
         NEW c \in 0 .. LastPacket, contents' = Append(contents, c),
         host' \in [boots : Nat, sent : 0 .. LastPacket],
         contents # <<>> => Follows(contents[Len(contents)], c),
         SentUpTo(c, host'.sent), c = Log => hdr.bmcFlags.ready = 1
  PROVE  /\ Quiet /\ InSequence' /\ LogsWait'
         /\ \A e \in 1 .. Len(contents) : contents'[e] = contents[e]
<1>1. /\ Len(contents) \in Nat /\ Len(contents') = Len(contents) + 1
      /\ contents'[Len(contents) + 1] = c /\ contents' # <<>>
      /\ \A e \in 1 .. Len(contents) : contents'[e] = contents[e]
      /\ contents # <<>> <=> Len(contents) > 0
      /\ nextEntry = Len(contents) + 1
  <2>1. /\ contents \in Seq(0 .. LastPacket)
        /\ Len(contents) = nextEntry - 1 /\ nextEntry \in Nat
    BY DEF Numbered, LoopInv, DataTypes
  <2>. QED
    BY <2>1
<1>2. /\ queue' = Append(queue, nextEntry) /\ nextEntry' = nextEntry + 1
      /\ UNCHANGED <<entryPairs, pc, hdr>>
  BY DEF BiosAppend, bmcVars
<1>3. Numbered' /\ ToDecode' = ToDecode
  BY <1>2, EntryWritten DEF LoopInv
<1>4. Quiet
  BY <1>2, <1>3 DEF Quiet, Ready
<1>5. InSequence'
  <2>1. ASSUME NEW e \in 1 .. Len(contents') - 1
        PROVE  Follows(contents'[e], contents'[e + 1])
    <3>1. CASE e = Len(contents)
      BY <1>1, <3>1
    <3>2. CASE e # Len(contents)
      <4>1. e \in 1 .. Len(contents) - 1 /\ e + 1 \in 1 .. Len(contents)
        BY <1>1, <3>2
      <4>2. contents'[e] = contents[e] /\ contents'[e + 1] = contents[e + 1]
        BY <1>1, <4>1
      <4>. QED
        BY <4>1, <4>2 DEF InSequence
    <3>. QED
      BY <3>1, <3>2
  <2>. QED
    BY <1>1, <2>1 DEF InSequence
<1>6. LogsWait'
  <2>. SUFFICES ASSUME NEW e \in ToDecode' .. nextEntry' - 1, contents'[e] = Log
                PROVE  hdr'.bmcFlags.ready = 1
    BY DEF LogsWait
  <2>1. e \in ToDecode .. nextEntry /\ hdr' = hdr
    BY <1>1, <1>2, <1>3
  <2>2. CASE e = nextEntry
    BY <1>1, <2>1, <2>2
  <2>3. CASE e # nextEntry
    <3>1. ToDecode >= 1 /\ ToDecode \in Int
      BY DEF Numbered, ToDecode, LoopInv, DataTypes
    <3>2. e \in ToDecode .. nextEntry - 1 /\ e \in 1 .. Len(contents)
      BY <1>1, <2>1, <2>3, <3>1
    <3>. QED
      BY <1>1, <2>1, <3>2 DEF LogsWait
  <2>. QED
    BY <2>2, <2>3
<1>. QED
  BY <1>1, <1>4, <1>5, <1>6

LEMMA BiosKeeps ==
  ASSUME LoopInv, Numbered, InSequence, LogsWait, BiosStep
  PROVE  /\ Quiet /\ InSequence' /\ LogsWait'
         /\ \A e \in 1 .. Len(contents) : contents'[e] = contents[e]
<1>. USE TransferIsProper
<1>1. /\ UNCHANGED <<bmcVars, faults>>
      /\ Len(contents) \in Nat /\ nextEntry \in Nat
      /\ ToDecode \in Int
  BY DEF BiosStep, LoopInv, DataTypes, Numbered, ToDecode
<1>2. /\ host.boots \in Nat /\ host.sent \in 0 .. LastPacket
      /\ contents = <<>> => host.sent = 0
      /\ contents # <<>> => /\ SentUpTo(contents[Len(contents)], host.sent)
                            /\ contents[Len(contents)] \in 0 .. LastPacket
  <2>1. contents # <<>> => contents[Len(contents)] \in 0 .. LastPacket
    BY DEF Numbered
  <2>. QED
    BY <2>1 DEF InSequence
<1>3. CASE SendPacket
  <2>. DEFINE c == host.sent + 1
  <2>1. /\ host.sent < LastPacket /\ BiosAppend
        /\ contents' = Append(contents, host.sent + 1)
        /\ host' = [host EXCEPT !.sent = @ + 1]
    BY <1>3 DEF SendPacket, LastPacket
  <2>2. c \in 0 .. LastPacket /\ c # Log
    BY <1>2, <2>1 DEF Log
  <2>3. host' \in [boots : Nat, sent : 0 .. LastPacket] /\ host'.sent = c
    BY <1>2, <2>1, <2>2 DEF InSequence
  <2>4. contents # <<>> => Follows(contents[Len(contents)], c)
    BY <1>2, <2>1 DEF SentUpTo, Follows
  <2>5. SentUpTo(c, host'.sent)
    BY <2>3 DEF SentUpTo
  <2>. HIDE DEF c
  <2>6. contents' = Append(contents, c)
    BY <2>1 DEF c
  <2>. QED
    BY <1>1, <2>1, <2>2, <2>3, <2>4, <2>5, <2>6, EntrySent
<1>4. CASE SendLog
  <2>1. /\ host.sent = LastPacket /\ hdr.bmcFlags.ready = 1 /\ BiosAppend
        /\ contents' = Append(contents, Log) /\ host' = host
    BY <1>4 DEF SendLog, LastPacket
  <2>2. /\ Log \in 0 .. LastPacket /\ contents # <<>>
        /\ contents[Len(contents)] \in {LastPacket, Log}
    BY <1>2, <2>1 DEF Log, SentUpTo
  <2>3. /\ Follows(contents[Len(contents)], Log) /\ SentUpTo(Log, host'.sent)
    BY <2>1, <2>2 DEF Follows, SentUpTo
  <2>4. host' \in [boots : Nat, sent : 0 .. LastPacket]
    BY <2>1 DEF InSequence
  <2>. QED
    BY <1>1, <2>1, <2>2, <2>3, <2>4, EntrySent
<1>5. CASE ReportStep
  <2>1. UNCHANGED <<contents, host, nextEntry, queue, entryPairs, pc>>
    BY <1>1, <1>5 DEF ReportStep, BiosWriteUe, BiosToggleUe, BiosOverflow, bmcVars
  <2>2. hdr'.bmcFlags = hdr.bmcFlags
    BY <1>1, <1>5, FlagsBios DEF LoopInv, ReportStep, Bios
  <2>3. pc' \in {"decode", "setReady"} \/ entryPairs = <<>>
    BY <2>1 DEF Numbered
  <2>4. Numbered' /\ ToDecode' = ToDecode
    BY <2>1, <2>3, EntriesKept DEF LoopInv
  <2>5. Quiet
    BY <2>1, <2>2, <2>4 DEF Quiet, Ready
  <2>6. LogsWait'
    BY <1>1, <2>1, <2>4, <2>5, LogsWaitKept DEF Quiet
  <2>. QED
    BY <2>1, <2>5, <2>6, InSequenceKept
<1>. QED
  BY <1>3, <1>4, <1>5 DEF BiosStep

LEMMA BootKeeps ==
  ASSUME InSequence, Boot
  PROVE  InSequence'
<1>1. /\ host' = [boots |-> host.boots + 1, sent |-> 0] /\ contents' = contents
      /\ host.boots \in Nat /\ 0 \in 0 .. LastPacket
  BY TransferIsProper DEF Boot, InSequence
<1>2. host' \in [boots : Nat, sent : 0 .. LastPacket] /\ host'.sent = 0
  BY <1>1
<1>. QED
  BY <1>1, <1>2 DEF InSequence, SentUpTo

-----------------------------------------------------------------------------
(* The entries of the queue.                                               *)

LEMMA DecodeEntryEffect ==
  ASSUME LoopInv, Numbered, NEW outcome, DecodeEntry(outcome),
         UNCHANGED <<biosVars, contents>>
  PROVE  /\ Numbered' /\ ToDecode' >= ToDecode
         /\ UNCHANGED <<hdr, nextEntry, contents>> /\ pc = "decode"
         /\ outcome = "throws" => pc' = "erase"
         /\ outcome # "throws" =>
              /\ ToDecode' = ToDecode + 1
              /\ pc' = IF outcome = "stop" THEN "setReady" ELSE "decode"
<1>. USE DEF LoopInv
<1>1. /\ UNCHANGED <<nextEntry, contents, hdr, queue>>
      /\ pc = "decode" /\ entryPairs # <<>> /\ ToDecode \in Int
  BY DEF biosVars, DecodeEntry, shared, DataTypes, ToDecode
<1>2. CASE outcome = "throws"
  <2>1. pc' = "erase" /\ entryPairs' = <<>>
    BY <1>2 DEF DecodeEntry, Throw
  <2>. QED
    BY <1>1, <1>2, <2>1, EntriesLost
<1>3. CASE outcome # "throws"
  <2>1. /\ entryPairs' = Tail(entryPairs)
        /\ pc' = IF outcome = "stop" THEN "setReady" ELSE "decode"
    BY <1>1, <1>3 DEF DecodeEntry
  <2>. QED
    BY <1>1, <1>3, <2>1, EntryDecoded
<1>. QED
  BY <1>2, <1>3

(* A log that is decoded meets a handler that is ready for it.             *)
LEMMA LogMeetsDictionaries ==
  ASSUME UndisturbedInv, entryPairs # <<>>, pc = "decode",
         contents[Head(entryPairs)] = Log
  PROVE  AllWhole /\ flagState # "RdeStateStartRecvd" /\ Found
<1>1. /\ Head(entryPairs) = ToDecode
      /\ ToDecode \in 1 .. Len(contents) /\ ToDecode \in 1 .. nextEntry - 1
      /\ Len(contents) \in Nat /\ nextEntry \in Nat
  BY EntryToDecode DEF UndisturbedInv, LoopInv, DataTypes, Numbered
<1>2. hdr.bmcFlags.ready = 1
  BY <1>1 DEF UndisturbedInv, LogsWait
<1>3. PICK c \in 0 .. LastPacket :
        ToDecode > 1 /\ Found /\ c = contents[ToDecode - 1] /\ Stands(c)
  BY <1>2 DEF UndisturbedInv, InStep, Ready
<1>4. Follows(c, Log)
  <2>1. ToDecode - 1 \in 1 .. Len(contents) - 1 /\ ToDecode - 1 + 1 = ToDecode
    BY <1>1, <1>3
  <2>2. Follows(contents[ToDecode - 1], contents[ToDecode - 1 + 1])
    BY <2>1 DEF UndisturbedInv, InSequence
  <2>. QED
    BY <1>1, <1>3, <2>1, <2>2
<1>5. c \in {LastPacket, Log}
  BY <1>4 DEF Follows, Log
<1>. QED
  BY <1>3, <1>5, TransferIsProper DEF Stands, Log

LEMMA EntryKeeps ==
  ASSUME ChunksNameResources, UndisturbedInv, DecodeQueueEntry,
         UNCHANGED <<biosVars, contents, host>>
  PROVE  HandlerInv' /\ Numbered' /\ InSequence' /\ InStep' /\ Gathering' /\ LogsWait'
<1>. USE DEF UndisturbedInv
<1>1. /\ Head(entryPairs) = ToDecode /\ entryPairs # <<>>
      /\ ToDecode \in 1 .. Len(contents) /\ ToDecode \in 1 .. nextEntry - 1
      /\ Len(contents) \in Nat /\ nextEntry \in Nat /\ ToDecode \in Int
  BY EntryToDecode DEF DecodeQueueEntry, LoopInv, DataTypes, Numbered
<1>2. PICK content \in 0 .. LastPacket : content = contents[ToDecode]
  <2>1. contents \in Seq(0 .. LastPacket)
    BY DEF Numbered
  <2>2. contents[ToDecode] \in 0 .. LastPacket
    BY <1>1, <2>1, ElementOfSeq
  <2>. QED
    BY <2>2
<1>3. InSequence'
  BY InSequenceKept
<1>4. ASSUME NEW outcome, DecodeEntry(outcome)
      PROVE  Numbered' /\ LogsWait'
  <2>1. Numbered' /\ ToDecode' >= ToDecode /\ UNCHANGED <<hdr, nextEntry, contents>>
    BY <1>4, DecodeEntryEffect
  <2>2. ToDecode' \in Int
    BY <2>1 DEF Numbered, ToDecode, LoopInv, DataTypes
  <2>. QED
    BY <1>1, <2>1, <2>2, LogsWaitKept
<1>5. ASSUME NEW outcome, DecodeEntry(outcome), outcome # "throws",
             Ready' => Found' /\ Stands(content)'
      PROVE  InStep'
  <2>1. ToDecode' = ToDecode + 1 /\ contents' = contents
    BY <1>5, DecodeEntryEffect
  <2>2. ToDecode' > 1 /\ contents'[ToDecode' - 1] = content
    BY <1>1, <1>2, <2>1
  <2>. QED
    BY <1>2, <1>5, <2>2 DEF InStep
<1>6. CASE content \in DOMAIN Transfer
           /\ MultiPartReceiveResp(PacketOf(Transfer, content))
           /\ DecodeEntry(OutcomeOf(status'))
  <2>1. content \in 1 .. LastPacket
    BY <1>2, <1>6, TransferIsProper DEF Log
  <2>2. /\ HandlerInv' /\ Gathering'
        /\ status' \in {"RdeOk", "RdeStopFlagReceived", "RdeInvalidChecksum",
                        "RdeInvalidPktOrder"}
        /\ status' = "RdeStopFlagReceived" => Stands(content)'
        /\ \A c \in 0 .. LastPacket : Stands(c) /\ Follows(c, content) => Stands(content)'
    BY <1>6, <2>1, PacketReceived
  <2>3. OutcomeOf(status') # "throws" /\ Found'
        /\ (OutcomeOf(status') = "stop" => status' = "RdeStopFlagReceived")
    BY <2>2 DEF OutcomeOf, Found
  <2>4. ASSUME Ready'
        PROVE  Stands(content)'
    <3>1. /\ UNCHANGED hdr /\ pc = "decode"
          /\ pc' = IF OutcomeOf(status') = "stop" THEN "setReady" ELSE "decode"
      BY <1>6, <2>3, DecodeEntryEffect
    <3>2. CASE OutcomeOf(status') = "stop"
      BY <2>2, <2>3, <3>2
    <3>3. CASE OutcomeOf(status') # "stop"
      <4>1. Ready
        BY <2>4, <3>1, <3>3 DEF Ready
      <4>2. PICK c \in 0 .. LastPacket :
              ToDecode > 1 /\ c = contents[ToDecode - 1] /\ Stands(c)
        BY <4>1 DEF InStep
      <4>3. ToDecode - 1 \in 1 .. Len(contents) - 1 /\ ToDecode - 1 + 1 = ToDecode
        BY <1>1, <4>2
      <4>4. Follows(contents[ToDecode - 1], contents[ToDecode - 1 + 1])
        BY <4>3 DEF InSequence
      <4>5. Follows(c, content)
        BY <1>2, <4>2, <4>3, <4>4
      <4>. QED
        BY <2>2, <4>2, <4>5
    <3>. QED
      BY <3>2, <3>3
  <2>. QED
    BY <1>3, <1>4, <1>5, <1>6, <2>2, <2>3, <2>4
<1>7. ASSUME content = Log, NEW outcome, DecodeEntry(outcome),
             UNCHANGED <<flagState, prevDictResourceId, dictionaryManager, crc>>,
             HandlerInv', Found' \/ outcome = "throws"
      PROVE  HandlerInv' /\ Numbered' /\ InSequence' /\ InStep' /\ Gathering' /\ LogsWait'
  <2>1. pc = "decode"
    BY <1>7, DecodeEntryEffect
  <2>2. AllWhole /\ flagState # "RdeStateStartRecvd"
    BY <1>1, <1>2, <1>7, <2>1, LogMeetsDictionaries
  <2>3. Stands(content)'
    BY <1>7, <2>2 DEF Stands, AllWhole, IsWholeNow
  <2>4. Gathering'
    BY <1>7, <2>2 DEF Gathering
  <2>5. InStep'
    <3>1. CASE outcome = "throws"
      <4>1. pc' = "erase"
        BY <1>7, <3>1, DecodeEntryEffect
      <4>. QED
        BY <4>1 DEF InStep, Ready
    <3>2. CASE outcome # "throws"
      BY <1>5, <1>7, <2>3, <3>2
    <3>. QED
      BY <3>1, <3>2
  <2>. QED
    BY <1>3, <1>4, <1>7, <2>4, <2>5
<1>8. CASE content = Log /\ DecodeLog(logResourceId) /\ DecodeEntry(OutcomeOf(status'))
  <2>1. /\ UNCHANGED <<flagState, prevDictResourceId, dictionaryManager, crc>>
        /\ OperationInitRequest(logResourceId) /\ logResourceId \in ResourceIds
    BY <1>8, DaemonAssumption DEF DecodeLog, OperationInitRequest
  <2>2. HandlerInv'
    BY <2>1, OtherHandlerInv
  <2>3. pc = "decode"
    BY <1>8 DEF DecodeEntry
  <2>4. AllWhole
    BY <1>1, <1>2, <1>8, <2>3, LogMeetsDictionaries
  <2>5. /\ HasDictionary(dictionaryManager, logResourceId)
        /\ HasDictionary(dictionaryManager, annotationResourceId)
    BY <2>4, DaemonAssumption DEF AllWhole, IsWholeNow
  <2>6. Found'
    BY <2>1, <2>5 DEF OperationInitRequest, LateReturns, Found
  <2>. QED
    BY <1>7, <1>8, <2>1, <2>2, <2>6
<1>9. CASE content = Log /\ DecodeLogThrows /\ DecodeEntry("throws")
  <2>1. UNCHANGED handlerVars
    BY <1>9 DEF DecodeLogThrows
  <2>2. HandlerInv' /\ UNCHANGED <<flagState, prevDictResourceId, dictionaryManager, crc>>
    BY <2>1 DEF handlerVars, HandlerInv
  <2>. QED
    BY <1>7, <1>9, <2>2
<1>10. content # Altered
  BY <1>2, TransferIsProper DEF Altered
<1>. QED
  BY <1>1, <1>2, <1>6, <1>8, <1>9, <1>10 DEF DecodeQueueEntry

-----------------------------------------------------------------------------
(* All steps.                                                              *)

LEMMA UndisturbedInit == DaemonInit => UndisturbedInv
<1>. SUFFICES ASSUME DaemonInit PROVE UndisturbedInv
  OBVIOUS
<1>1. LoopInv /\ HandlerInv
  BY FlagsInit, DataInit, NewHandler DEF DaemonInit, LoopInv
<1>2. /\ queue = <<>> /\ entryPairs = <<>> /\ nextEntry = 1 /\ pc = "idle"
      /\ hdr.bmcFlags.ready = 0 /\ contents = <<>> /\ host = [boots |-> 0, sent |-> 0]
      /\ flagState = "RdeStateIdle" /\ Len(<<>>) = 0
  BY DEF DaemonInit, Init, HandlerInit, InitialHeader, ZeroHeader
<1>3. ToDecode = 1
  BY <1>2 DEF ToDecode
<1>4. Numbered
  BY <1>2, <1>3 DEF Numbered
<1>5. InSequence
  BY <1>2, TransferIsProper DEF InSequence
<1>6. InStep /\ Gathering
  BY <1>2 DEF InStep, Ready, Gathering
<1>7. LogsWait
  BY <1>2, <1>3 DEF LogsWait
<1>. QED
  BY <1>1, <1>4, <1>5, <1>6, <1>7 DEF UndisturbedInv

(* Steps of readLoop that decode no entry.                                 *)
LEMMA QuietBmcKeeps ==
  ASSUME UndisturbedInv, Quiet, UNCHANGED <<nextEntry, contents, host>>,
         UNCHANGED <<flagState, prevDictResourceId, dictionaryManager, crc>>,
         Ready' /\ Found => Found'
  PROVE  Numbered' /\ InSequence' /\ InStep' /\ Gathering' /\ LogsWait'
<1>. USE DEF UndisturbedInv
<1>1. Numbered' /\ ToDecode' = ToDecode /\ ToDecode \in Int /\ nextEntry \in Int
  BY DEF Quiet, ToDecode, LoopInv, DataTypes
<1>2. InStep' /\ Gathering'
  BY QuietKeeps
<1>3. LogsWait'
  BY <1>1, LogsWaitKept DEF Quiet
<1>. QED
  BY <1>1, <1>2, <1>3, InSequenceKept

LEMMA UndisturbedStep ==
  ASSUME ChunksNameResources, UndisturbedInv, [DaemonNext]_daemonVars, ~disturbed'
  PROVE  UndisturbedInv'
<1>. USE DEF UndisturbedInv
<1>. DEFINE Rest == Numbered /\ InSequence /\ InStep /\ Gathering /\ LogsWait
<1>1. CASE UNCHANGED daemonVars
  <2>1. UNCHANGED <<vars, handlerVars, contents, host>>
    BY <1>1 DEF daemonVars
  <2>2. LoopInv' /\ HandlerInv'
    BY <2>1 DEF vars, shared, bmcVars, biosVars, handlerVars, LoopInv, DataTypes,
                FlagsInv, FlagTypes, FlagsCoherent, ErasedFlags, HandlerInv
  <2>3. UNCHANGED <<queue, entryPairs, nextEntry, contents, pc, hdr, status>>
    BY <2>1 DEF vars, shared, bmcVars, biosVars, handlerVars
  <2>4. pc' \in {"decode", "setReady"} \/ entryPairs = <<>>
    BY <2>3 DEF Numbered
  <2>5. Quiet
    BY <2>3, <2>4, EntriesKept DEF Quiet, Ready, LoopInv
  <2>6. Rest'
    BY <2>1, <2>3, <2>5, QuietBmcKeeps DEF handlerVars, Found
  <2>. QED
    BY <2>2, <2>6
<1>2. CASE DaemonNext
  <2>1. LoopInv'
    BY <1>2, LoopInvStep
  <2>2. CASE BmcStep
    <3>1. UNCHANGED <<biosVars, nextEntry, contents, host>>
      BY <2>2 DEF BmcStep, biosVars
    <3>2. CASE LoopStep
      <4>1. UNCHANGED handlerVars /\ Quiet
        BY <3>1, <3>2, LoopStepQuiet DEF LoopStep
      <4>2. /\ UNCHANGED <<flagState, prevDictResourceId, dictionaryManager, crc>>
            /\ UNCHANGED status /\ HandlerInv'
        BY <4>1 DEF handlerVars, HandlerInv
      <4>. QED
        BY <2>1, <3>1, <4>1, <4>2, QuietBmcKeeps DEF Found
    <3>3. CASE EraseStep
      <4>1. /\ UNCHANGED handlerVars /\ pc = "erase" /\ pc' = "writeHeader"
            /\ queue' = <<>> /\ UNCHANGED entryPairs /\ hdr' = ZeroHeader
        BY <3>3 DEF EraseStep, InitializeErase
      <4>2. HandlerInv' /\ Gathering'
        BY <4>1 DEF handlerVars, HandlerInv, Gathering, Holding
      <4>3. entryPairs' = <<>>
        BY <4>1 DEF Numbered
      <4>4. Numbered' /\ ToDecode' = nextEntry'
        BY <3>1, <4>1, <4>3, EntriesLost DEF LoopInv
      <4>5. InStep'
        BY <4>1 DEF InStep, Ready, ZeroHeader
      <4>6. LogsWait'
        <5>1. nextEntry' \in Nat
          BY <2>1 DEF LoopInv, DataTypes
        <5>. QED
          BY <4>4, <5>1, NoLogWaits
      <4>7. InSequence'
        BY <3>1, InSequenceKept
      <4>. QED
        BY <2>1, <4>2, <4>4, <4>5, <4>6, <4>7
    <3>4. CASE DecodeUeLog
      <4>1. PICK outcome :
              /\ DecodeUe(outcome)
              /\ \/ DecodeLog(logResourceId) \/ DecodeLogThrows
                 \/ OperationInitEarly
              /\ status' # "RdeNoDictionary" \/ outcome = "bad" \/ status' = status
        BY <3>4 DEF DecodeUeLog, DecodeLogThrows, handlerVars
      <4>2. Quiet /\ (outcome \in {"bad", "cut"} => pc' = "erase")
        BY <3>1, <4>1, DecodeUeQuiet
      <4>3. /\ UNCHANGED <<flagState, prevDictResourceId, dictionaryManager, crc>>
            /\ HandlerInv'
        <5>1. CASE DecodeLogThrows
          BY <5>1 DEF DecodeLogThrows, handlerVars, HandlerInv
        <5>2. CASE DecodeLog(logResourceId)
          BY <5>2, OtherHandlerInv, DaemonAssumption
             DEF DecodeLog, OperationInitRequest
        <5>3. CASE OperationInitEarly
          BY <5>3, OtherHandlerInv DEF OperationInitEarly
        <5>. QED
          BY <4>1, <5>1, <5>2, <5>3
      <4>4. Ready' /\ Found => Found'
        BY <4>1, <4>2 DEF Ready, Found
      <4>. QED
        BY <2>1, <3>1, <4>2, <4>3, <4>4, QuietBmcKeeps
    <3>5. CASE DecodeQueueEntry
      BY <2>1, <3>1, <3>5, EntryKeeps
    <3>. QED
      BY <2>2, <3>2, <3>3, <3>4, <3>5 DEF BmcStep
  <2>3. CASE BiosStep
    <3>1. UNCHANGED <<flagState, prevDictResourceId, dictionaryManager, crc, status>>
      BY <2>3 DEF BiosStep, handlerVars
    <3>2. HandlerInv'
      BY <3>1 DEF HandlerInv
    <3>3. /\ Quiet /\ InSequence' /\ LogsWait'
          /\ \A e \in 1 .. Len(contents) : contents'[e] = contents[e]
      BY <2>3, BiosKeeps
    <3>4. InStep' /\ Gathering'
      BY <3>1, <3>3, QuietKeeps DEF Found
    <3>. QED
      BY <2>1, <3>2, <3>3, <3>4 DEF Quiet
  <2>4. CASE Boot
    <3>1. UNCHANGED <<flagState, prevDictResourceId, dictionaryManager, crc, status,
                      contents>>
      BY <2>4 DEF Boot, handlerVars
    <3>2. HandlerInv'
      BY <3>1 DEF HandlerInv
    <3>3. Quiet /\ UNCHANGED nextEntry /\ InSequence'
      BY <2>4, BootQuiet, BootKeeps
    <3>4. InStep' /\ Gathering'
      BY <3>1, <3>3, QuietKeeps DEF Found
    <3>5. LogsWait'
      <4>1. ToDecode' = ToDecode /\ ToDecode \in Int /\ nextEntry \in Int
        BY <3>3 DEF Quiet, ToDecode, LoopInv, DataTypes
      <4>. QED
        BY <3>1, <3>3, <4>1, LogsWaitKept DEF Quiet
    <3>. QED
      BY <2>1, <3>2, <3>3, <3>4, <3>5 DEF Quiet
  <2>5. CASE RestartStep
    <3>1. /\ entryPairs' = <<>> /\ pc' = "erase"
          /\ UNCHANGED <<queue, nextEntry, contents, host, hdr>>
      BY <2>5 DEF RestartStep, Restart, Throw, shared, biosVars
    <3>2. HandlerInv' /\ Gathering'
      BY <2>5, NewHandler, ResourceAssumption
         DEF RestartStep, HandlerInv, Gathering, Statuses
    <3>3. Numbered' /\ ToDecode' \in Int /\ ToDecode' >= ToDecode
      BY <3>1, EntriesLost DEF LoopInv
    <3>4. InStep'
      BY <3>1 DEF InStep, Ready
    <3>5. LogsWait'
      <4>1. ToDecode \in Int /\ nextEntry \in Int
        BY DEF ToDecode, LoopInv, DataTypes
      <4>. QED
        BY <3>1, <3>3, <4>1, LogsWaitKept
    <3>6. InSequence'
      BY <3>1, InSequenceKept
    <3>. QED
      BY <2>1, <3>2, <3>3, <3>4, <3>5, <3>6
  <2>6. CASE CorruptStep
    <3>1. /\ UNCHANGED <<flagState, prevDictResourceId, dictionaryManager, crc, status>>
          /\ UNCHANGED <<contents, host>>
      BY <2>6 DEF CorruptStep, handlerVars
    <3>2. HandlerInv'
      BY <3>1 DEF HandlerInv
    <3>3. Quiet /\ UNCHANGED nextEntry
      BY <2>6, CorruptQuiet
    <3>. QED
      BY <2>1, <3>1, <3>2, <3>3, QuietBmcKeeps DEF Found
  <2>. QED
    BY <1>2, <2>2, <2>3, <2>4, <2>5, <2>6 DEF DaemonNext, DropPacket, AlterStep
<1>. QED
  BY <1>1, <1>2

LEMMA DisturbedStays ==
  ASSUME [DaemonNext]_daemonVars, ~disturbed'
  PROVE  ~disturbed
<1>1. CASE UNCHANGED daemonVars
  BY <1>1 DEF daemonVars, history
<1>2. CASE BmcStep \/ BiosStep
  BY <1>2 DEF BmcStep, BiosStep, history
<1>3. CASE Boot \/ RestartStep \/ CorruptStep
  BY <1>3 DEF Boot, RestartStep, CorruptStep, history
<1>4. CASE DropPacket \/ AlterStep
  BY <1>4 DEF DropPacket, AlterStep
<1>. QED
  BY <1>1, <1>2, <1>3, <1>4 DEF DaemonNext

LEMMA DaemonInvStep ==
  ASSUME ChunksNameResources, DaemonInv, [DaemonNext]_daemonVars
  PROVE  DaemonInv'
<1>. SUFFICES ASSUME ~disturbed' PROVE UndisturbedInv'
  BY DEF DaemonInv
<1>1. UndisturbedInv
  BY DisturbedStays DEF DaemonInv
<1>. QED
  BY <1>1, UndisturbedStep

-----------------------------------------------------------------------------
(* The inductive invariant: as long as no packet is dropped or changed     *)
(* unnoticed and the ready bit is set, the handler stands where the BIOS   *)
(* was when it wrote the last entry that was decoded, whatever resets,     *)
(* restarts and boots come in between.                                     *)
THEOREM DaemonStaysInStep ==
  ASSUME ChunksNameResources
  PROVE  DaemonSpec => []DaemonInv
<1>1. DaemonInv /\ [DaemonNext]_daemonVars => DaemonInv'
  BY DaemonInvStep
<1>2. DaemonInit => DaemonInv
  BY UndisturbedInit DEF DaemonInv
<1>. QED
  BY <1>1, <1>2, PTL DEF DaemonSpec

(* The ready bit, which readLoop sets after RdeStopFlagReceived, stands    *)
(* for dictionaries: unless a transfer is going on, decodeRdeCommand has   *)
(* all that the BIOS sent, whole, for every transfer and any number of     *)
(* boots, restarts and resets, until a packet is dropped or changed        *)
(* unnoticed.                                                              *)
THEOREM ReadyIsMeant ==
  ASSUME ChunksNameResources
  PROVE  DaemonSpec => []ReadyMeansDictionaries
<1>1. DaemonInv => ReadyMeansDictionaries
  BY DEF DaemonInv, UndisturbedInv, InStep, Ready, Stands, ReadyMeansDictionaries
<1>2. DaemonSpec => []DaemonInv
  BY DaemonStaysInStep
<1>. QED
  BY <1>1, <1>2, PTL

(* Only decodeRdeCommand on an entry takes it from the batch and lets the  *)
(* daemon live.                                                            *)
LEMMA OnlyDecodingTakes ==
  ASSUME UndisturbedInv, DaemonNext
  PROVE  /\ stored' # stored => DecodeQueueEntry
         /\ entryPairs # <<>> /\ entryPairs' = Tail(entryPairs) =>
              DecodeQueueEntry \/ status' = "RdeOk"
<1>1. /\ pc \notin {"decode", "setReady"} => entryPairs = <<>>
      /\ entryPairs # <<>> => entryPairs # Tail(entryPairs)
  <2>1. entryPairs \in Seq(Nat)
    BY DEF UndisturbedInv, LoopInv, DataTypes
  <2>2. entryPairs # <<>> => Len(Tail(entryPairs)) # Len(entryPairs)
    BY <2>1
  <2>. QED
    BY <2>2 DEF UndisturbedInv, Numbered
<1>2. ASSUME LoopStep \/ EraseStep \/ DecodeUeLog
      PROVE  stored' = stored /\ (entryPairs' = entryPairs \/ entryPairs = <<>>)
  BY <1>1, <1>2 DEF LoopStep, EraseStep, DecodeUeLog, DecodeUe, ReadUeHeader,
     ReadUeRegion, AckUe, CheckForOverflow, AckOverflow, ReadErrorLogs, SetReady,
     Rearm, InitializeHeader, InitializeErase, Throw
<1>3. ASSUME BiosStep \/ Boot \/ CorruptStep \/ AlterStep \/ DropPacket
      PROVE  stored' = stored /\ entryPairs' = entryPairs
  BY <1>3 DEF BiosStep, Boot, CorruptStep, CorruptSizes, CorruptQueue, AlterStep,
              DropPacket, bmcVars
<1>4. ASSUME RestartStep
      PROVE  stored' = stored /\ status' = "RdeOk"
  BY <1>4 DEF RestartStep, Restart
<1>. QED
  BY <1>1, <1>2, <1>3, <1>4 DEF DaemonNext, BmcStep

(* Whenever readLoop has an entry with a log decoded and published, the    *)
(* handler has all dictionaries, whole: also after a restart, and after a  *)
(* transfer that was cut short and taken up again.  This is so until a     *)
(* packet is dropped or changed unnoticed.                                 *)
THEOREM QueueLogsAreWhole ==
  ASSUME ChunksNameResources
  PROVE  DaemonSpec => QueueLogsDecodedWhole
<1>. DEFINE Step ==
       /\ ~disturbed
       /\ stored' # stored /\ contents[stored'[Len(stored')]] = Log
       => AllWhole
<1>1. DaemonInv /\ [DaemonNext]_daemonVars => [Step]_daemonVars
  <2>. SUFFICES ASSUME UndisturbedInv, DaemonNext, stored' # stored,
                       contents[stored'[Len(stored')]] = Log
                PROVE  AllWhole
    BY DEF DaemonInv
  <2>1. PICK outcome : DecodeEntry(outcome)
    BY OnlyDecodingTakes DEF DecodeQueueEntry
  <2>2. stored' = Append(stored, Head(entryPairs)) /\ entryPairs # <<>> /\ pc = "decode"
    BY <2>1 DEF DecodeEntry
  <2>3. stored'[Len(stored')] = Head(entryPairs)
    <3>1. stored \in Seq(Nat) /\ Head(entryPairs) \in Nat
      BY <2>2, SequencesOfNumbers DEF UndisturbedInv, LoopInv, DataTypes
    <3>. QED
      BY <2>2, <3>1
  <2>. QED
    BY <2>2, <2>3, LogMeetsDictionaries
<1>2. DaemonSpec => []DaemonInv
  BY DaemonStaysInStep
<1>. QED
  BY <1>1, <1>2, PTL DEF DaemonSpec, QueueLogsDecodedWhole

(* operationInitRequest never returns RdeNoDictionary for a log from the   *)
(* queue, until a packet is dropped or changed unnoticed: what takes the   *)
(* dictionaries away erases the log, too.                                  *)
THEOREM LogsAreNotRefused ==
  ASSUME ChunksNameResources
  PROVE  DaemonSpec => LogsFindDictionaries
<1>. DEFINE Step ==
       /\ ~disturbed
       /\ entryPairs # <<>> /\ entryPairs' = Tail(entryPairs)
       /\ contents[Head(entryPairs)] = Log
       => status' # "RdeNoDictionary"
<1>1. DaemonInv /\ [DaemonNext]_daemonVars => [Step]_daemonVars
  <2>. SUFFICES ASSUME UndisturbedInv, DaemonNext, entryPairs # <<>>,
                       entryPairs' = Tail(entryPairs), DecodeQueueEntry,
                       contents[Head(entryPairs)] = Log
                PROVE  status' # "RdeNoDictionary"
    BY OnlyDecodingTakes DEF DaemonInv
  <2>1. AllWhole /\ Found
    BY LogMeetsDictionaries DEF DecodeQueueEntry, DecodeEntry
  <2>2. /\ HasDictionary(dictionaryManager, logResourceId)
        /\ HasDictionary(dictionaryManager, annotationResourceId)
    BY <2>1, DaemonAssumption DEF AllWhole, IsWholeNow
  <2>3. CASE DecodeLog(logResourceId)
    BY <2>2, <2>3 DEF DecodeLog, OperationInitRequest, LateReturns
  <2>4. CASE DecodeLogThrows
    BY <2>1, <2>4 DEF DecodeLogThrows, handlerVars, Found
  <2>5. contents[Head(entryPairs)] \notin DOMAIN Transfer \cup {Altered}
    BY TransferIsProper DEF Log, Altered
  <2>. QED
    BY <2>3, <2>4, <2>5 DEF DecodeQueueEntry
<1>2. DaemonSpec => []DaemonInv
  BY DaemonStaysInStep
<1>. QED
  BY <1>1, <1>2, PTL DEF DaemonSpec, LogsFindDictionaries

=============================================================================
