---------------------------- MODULE BufferProofs ----------------------------
(***************************************************************************)
(* Proofs about Buffer, for every region size, every set of payload sizes  *)
(* and any number of entries and faults.                                   *)
(***************************************************************************)
EXTENDS Buffer, TLAPS

(* Inside the loop the cached header has passed the checks of getMaxOffset *)
(* and of readErrorLogs: the half of CacheCoherent no fault can disturb.   *)
CacheValid == pc \in Looping => PointersValid(cached)

(* The inductive invariant behind type correctness.  TypeOK alone is not   *)
(* inductive: that the bytes read from shared memory are bytes of the      *)
(* queue needs a valid cached pointer, and that a header can be parsed     *)
(* needs all its bytes.                                                    *)
TypeInv == TypeOK /\ CacheValid /\ ReadIsComplete

-----------------------------------------------------------------------------
(* The arithmetic of wraparoundRead.                                       *)

(* MaxOffset is a positive natural number larger than an entry header.     *)
LEMMA MaxOffsetType ==
  /\ MaxOffset \in Nat /\ MaxOffset > 0
  /\ EntryHeaderSize \in Nat /\ EntryHeaderSize > 0
  /\ EntryHeaderSize < MaxOffset
  /\ Index = 0 .. MaxOffset - 1
BY SizeAssumption DEF MaxOffset, Index

(* For an offset and a length within the queue, wraparoundRead splits the  *)
(* length into a part before and a part after the queue's end, both inside *)
(* the region, and the new pointer stays within the queue; it is wrapped   *)
(* whenever the old one was.                                               *)
LEMMA WrapArithmetic ==
  ASSUME NEW offset \in Nat, offset <= MaxOffset,
         NEW length \in Nat, length <= MaxOffset
  PROVE  /\ NumWraparoundBytes(offset, length) \in Nat
         /\ NumWraparoundBytes(offset, length) <= MaxOffset
         /\ NumBytesTillQueueEnd(offset, length) \in Nat
         /\ offset + NumBytesTillQueueEnd(offset, length) <= MaxOffset
         /\ NumBytesTillQueueEnd(offset, length)
              + NumWraparoundBytes(offset, length) = length
         /\ UpdatedReadPtr(offset, length) \in Nat
         /\ UpdatedReadPtr(offset, length) <= MaxOffset
         /\ offset < MaxOffset => UpdatedReadPtr(offset, length) < MaxOffset
BY MaxOffsetType
   DEF NumWraparoundBytes, NumBytesTillQueueEnd, UpdatedReadPtr

(* bytesToRead is a natural number for any pointers that were accepted.    *)
LEMMA BytesToReadType ==
  ASSUME NEW readPtr \in Nat, readPtr <= MaxOffset,
         NEW writePtr \in Nat, writePtr <= MaxOffset
  PROVE  BytesToRead(readPtr, writePtr) \in Nat
BY MaxOffsetType DEF BytesToRead

(* DataInterface::read of n bytes at an offset returns n cells, if the     *)
(* range lies within the queue.                                            *)
LEMMA CellsAtType ==
  ASSUME cells \in [Index -> Cell],
         NEW offset \in Nat, NEW n \in Nat, offset + n <= MaxOffset
  PROVE  CellsAt(offset, n) \in Seq(Cell) /\ Len(CellsAt(offset, n)) = n
<1>1. \A i \in 1 .. n : cells[offset + i - 1] \in Cell
  BY MaxOffsetType
<1>. QED
  BY <1>1 DEF CellsAt

(* Remainder and quotient of naturals are naturals, and so is the pointer  *)
(* put together from the bytes of two values.                              *)
LEMMA MixedPtrType ==
  ASSUME NEW a \in Nat, NEW b \in Nat
  PROVE  MixedPtr(a, b) \in Nat
<1>1. ByteBase \in Nat /\ ByteBase > 0
  BY SizeAssumption
<1>2. a % ByteBase \in Nat
  BY <1>1
<1>3. b \div ByteBase \in Nat
  BY <1>1
<1>4. \A x, y \in Nat : x * y \in Nat
  OBVIOUS
<1>. QED
  BY <1>1, <1>2, <1>3, <1>4 DEF MixedPtr

-----------------------------------------------------------------------------
(* Type correctness.                                                       *)

(* The header and the call that initialize() and an exception leave behind *)
(* have their types.                                                       *)
LEMMA InitialTypes ==
  /\ ZeroHeader \in Header /\ InitialHeader \in Header
  /\ NoCall \in Call /\ NoCall.length = 0 /\ NoHeader \in [id : Int, size : Nat]
  /\ ZeroCell \in Cell /\ JunkCell \in Cell
<1>1. ZeroHeader \in Header /\ InitialHeader \in Header
  BY SizeAssumption DEF ZeroHeader, InitialHeader, Header
<1>2. NoHeader \in [id : Int, size : Nat]
  BY DEF NoHeader
<1>3. NoCall \in Call /\ NoCall.length = 0
  BY DEF NoCall, Call, NoHeader
<1>4. ZeroCell \in Cell /\ JunkCell \in Cell
  BY DEF ZeroCell, JunkCell, Cell, EntryCell, Garbled
<1>. QED
  BY <1>1, <1>2, <1>3, <1>4

(* The bytes of two reads make one.                                        *)
LEMMA ConcatBytes ==
  ASSUME NEW s \in Seq(Cell), NEW t \in Seq(Cell)
  PROVE  s \o t \in Seq(Cell) /\ Len(s \o t) = Len(s) + Len(t)
OBVIOUS

(* The empty bytesRead has its type.                                       *)
LEMMA EmptyBytes == <<>> \in Seq(Cell)
OBVIOUS

(* Inside the loop the next read starts and ends within the queue.         *)
LEMMA ReadInRange ==
  ASSUME TypeInv, pc \in Looping
  PROVE  /\ cached.bmcReadPtr \in Nat /\ cached.bmcReadPtr <= MaxOffset
         /\ call.length \in Nat /\ call.length <= MaxOffset
<1>1. cached.bmcReadPtr \in Nat /\ call.length \in Nat
  BY DEF TypeInv, TypeOK, Header, Call
<1>2. PointersValid(cached)
  BY DEF TypeInv, CacheValid
<1>. QED
  BY <1>1, <1>2 DEF TypeInv, TypeOK, PointersValid

(* A half-written read pointer is a natural number.                        *)
LEMMA HalfWrittenType ==
  ASSUME TypeInv, NEW p \in HalfWrittenPtrs
  PROVE  p \in Nat /\ pc = "update"
<1>. DEFINE q == UpdatedReadPtr(cached.bmcReadPtr, call.length)
<1>1. pc = "update" /\ p = MixedPtr(q, hdr.bmcReadPtr)
  BY DEF HalfWrittenPtrs
<1>2. pc \in Looping
  BY <1>1 DEF Looping
<1>3. q \in Nat
  BY <1>2, ReadInRange, WrapArithmetic
<1>4. hdr.bmcReadPtr \in Nat
  BY DEF TypeInv, TypeOK, Header
<1>. HIDE DEF q
<1>. QED
  BY <1>1, <1>3, <1>4, MixedPtrType

(* A header read from EntryHeaderSize cells has a type, whatever they are. *)
LEMMA HeadersOfType ==
  ASSUME NEW bytes \in Seq(Cell), Len(bytes) = EntryHeaderSize,
         NEW h \in HeadersOf(bytes)
  PROVE  h \in [id : Int, size : Nat]
<1>1. bytes[1] \in Cell
  BY MaxOffsetType
<1>2. [id |-> 0, size |-> 0] \in [id : Int, size : Nat]
  OBVIOUS
<1>3. [id |-> bytes[1].id, size |-> bytes[1].size] \in [id : Int, size : Nat]
  BY <1>1 DEF Cell
<1>4. 0 .. MaxOffset + 1 \subseteq Nat
  BY MaxOffsetType
<1>. QED
  BY <1>2, <1>3, <1>4 DEF HeadersOf, Garbled

(* The initial state satisfies the invariant.                              *)
LEMMA InitTypeInv == Init => TypeInv
<1>. SUFFICES ASSUME Init  PROVE TypeInv
  OBVIOUS
<1>1. delivered \in Seq(Int)
  BY DEF Init
<1>5. torn \in BOOLEAN
  BY Zenon DEF Init
<1>2. bios \in [step : {"idle", "write", "publish"}, at : Index,
                size : Sizes \cup {0}]
  BY MaxOffsetType DEF Init, IdleBios
<1>3. cells \in [Index -> Cell]
  BY InitialTypes DEF Init
<1>4. CacheValid /\ ReadIsComplete
  BY DEF Init, CacheValid, ReadIsComplete, Looping
<1>. QED
  BY <1>1, <1>2, <1>3, <1>4, <1>5, InitialTypes, MaxOffsetType
     DEF Init, TypeInv, TypeOK, Steps

(* An exception keeps it.                                                  *)
LEMMA ThrowTypeInv ==
  ASSUME TypeInv, Throw, UNCHANGED <<biosVars, torn, faults>>
  PROVE  TypeInv'
BY InitialTypes, MaxOffsetType
   DEF Throw, TypeInv, TypeOK, CacheValid, ReadIsComplete, Steps, Looping,
       biosVars

(* Every step of the BMC keeps it.                                         *)
LEMMA BmcTypeInv ==
  ASSUME TypeInv, Bmc
  PROVE  TypeInv'
<1>. USE DEF TypeInv
<1>1. CASE ReadHeaderLow /\ UNCHANGED <<biosVars, torn, faults>>
  <2>1. hdr.biosWritePtr \in Nat
    BY DEF TypeOK, Header
  <2>2. call' \in Call
    BY <1>1, <2>1, InitialTypes DEF ReadHeaderLow, Call
  <2>3. call'.length = 0
    BY <1>1 DEF ReadHeaderLow, NoCall
  <2>. QED
    BY <1>1, <2>2, <2>3, MaxOffsetType
       DEF ReadHeaderLow, TypeOK, CacheValid, ReadIsComplete, Steps, Looping,
           biosVars
<1>2. CASE ReadHeaderHigh /\ UNCHANGED <<biosVars, faults>>
  <2>1. MixedPtr(call.low, hdr.biosWritePtr) \in Nat
    BY MixedPtrType DEF TypeOK, Header, Call
  <2>2. cached' \in Header
    BY <1>2, <2>1 DEF ReadHeaderHigh, TypeOK, Header
  <2>3. torn' \in BOOLEAN
    BY <1>2, Zenon DEF ReadHeaderHigh, TypeOK
  <2>. QED
    BY <1>2, <2>2, <2>3 DEF ReadHeaderHigh, TypeOK, CacheValid,
       ReadIsComplete, Steps, Looping, biosVars
<1>3. CASE (CheckFails \/ RejectEntry \/ PointersDiffer)
             /\ UNCHANGED <<biosVars, torn, faults>>
  BY <1>3, ThrowTypeInv DEF CheckFails, RejectEntry, PointersDiffer
<1>4. CASE CheckFindsNothing /\ UNCHANGED <<biosVars, torn, faults>>
  BY <1>4, InitialTypes, MaxOffsetType
     DEF CheckFindsNothing, TypeOK, CacheValid, ReadIsComplete, Steps,
         Looping, biosVars
<1>5. CASE CheckFindsEntries /\ UNCHANGED <<biosVars, torn, faults>>
  <2>1. BytesToRead(cached.bmcReadPtr, cached.biosWritePtr) \in Nat
    <3>1. cached.bmcReadPtr \in Nat /\ cached.biosWritePtr \in Nat
      BY DEF TypeOK, Header
    <3>2. cached.bmcReadPtr <= MaxOffset /\ cached.biosWritePtr <= MaxOffset
      BY <1>5 DEF CheckFindsEntries, PointersValid
    <3>. QED
      BY <3>1, <3>2, BytesToReadType
  <2>2. call' \in Call
    BY <1>5, <2>1, InitialTypes DEF CheckFindsEntries, Call
  <2>3. call'.length = 0
    BY <1>5 DEF CheckFindsEntries, NoCall
  <2>. QED
    BY <1>5, <2>2, <2>3, MaxOffsetType
       DEF CheckFindsEntries, TypeOK, CacheValid, ReadIsComplete, Steps,
           Looping, biosVars, PointersValid
<1>6. CASE ReadEntryHeader /\ UNCHANGED <<biosVars, torn, faults>>
  <2>1. call' \in Call
    BY <1>6, MaxOffsetType, EmptyBytes DEF ReadEntryHeader, TypeOK, Call
  <2>2. call'.length = EntryHeaderSize
    BY <1>6 DEF ReadEntryHeader, TypeOK, Call
  <2>. QED
    BY <1>6, <2>1, <2>2, MaxOffsetType
       DEF ReadEntryHeader, TypeOK, CacheValid, ReadIsComplete, Steps,
           Looping, biosVars, PointersValid
<1>7. CASE ReadToQueueEnd /\ UNCHANGED <<biosVars, torn, faults>>
  <2>. DEFINE offset == cached.bmcReadPtr
              n == NumBytesTillQueueEnd(offset, call.length)
  <2>1. /\ offset \in Nat /\ offset <= MaxOffset
        /\ call.length \in Nat /\ call.length <= MaxOffset
    BY <1>7, ReadInRange DEF ReadToQueueEnd, Looping
  <2>2. n \in Nat /\ offset + n <= MaxOffset
    BY <2>1, WrapArithmetic
  <2>3. CellsAt(offset, n) \in Seq(Cell) /\ Len(CellsAt(offset, n)) = n
    BY <2>1, <2>2, CellsAtType DEF TypeOK
  <2>4. /\ call' = [call EXCEPT !.bytes = CellsAt(offset, n)]
        /\ pc' \in {"wrapped", "update"}
        /\ pc' = "update" => NumWraparoundBytes(offset, call.length) = 0
        /\ UNCHANGED <<hdr, cells, cached, delivered, biosVars, torn, faults>>
    <3>1. NumWraparoundBytes(offset, call.length) \in Nat
      BY <2>1, WrapArithmetic
    <3>. QED
      BY <1>7, <3>1 DEF ReadToQueueEnd
  <2>5. NumWraparoundBytes(offset, call.length) = 0 => n = call.length
    BY <2>1 DEF NumBytesTillQueueEnd
  <2>6. /\ call' \in Call /\ call'.length = call.length
        /\ call'.reading = call.reading
        /\ call'.bytes = CellsAt(offset, n)
    BY <2>3, <2>4 DEF Call, TypeOK
  <2>7. pc = "toEnd"
    BY <1>7 DEF ReadToQueueEnd
  <2>8. TypeOK'
    BY <2>4, <2>6 DEF TypeOK, Steps, biosVars
  <2>9. CacheValid'
    BY <2>4, <2>7 DEF CacheValid, Looping, PointersValid
  <2>10. Len(call'.bytes) = n
    BY <2>3, <2>6
  <2>11. cached' = cached
    BY <2>4
  <2>12. ReadIsComplete'
    BY <2>4, <2>5, <2>6, <2>7, <2>10, <2>11
       DEF ReadIsComplete, NumBytesTillQueueEnd, NumWraparoundBytes
  <2>. QED
    BY <2>8, <2>9, <2>12
<1>8. CASE ReadWrapped /\ UNCHANGED <<biosVars, torn, faults>>
  <2>. DEFINE offset == cached.bmcReadPtr
              n == NumWraparoundBytes(offset, call.length)
  <2>1. /\ offset \in Nat /\ offset <= MaxOffset
        /\ call.length \in Nat /\ call.length <= MaxOffset
    BY <1>8, ReadInRange DEF ReadWrapped, Looping
  <2>2. /\ n \in Nat /\ n <= MaxOffset
        /\ NumBytesTillQueueEnd(offset, call.length) + n = call.length
        /\ NumBytesTillQueueEnd(offset, call.length) \in Nat
    BY <2>1, WrapArithmetic
  <2>3. CellsAt(0, n) \in Seq(Cell) /\ Len(CellsAt(0, n)) = n
    BY <2>2, CellsAtType, MaxOffsetType DEF TypeOK
  <2>4. Len(call.bytes) = NumBytesTillQueueEnd(offset, call.length)
        /\ call.bytes \in Seq(Cell)
    BY <1>8 DEF ReadWrapped, ReadIsComplete, TypeOK, Call
  <2>5. /\ call.bytes \o CellsAt(0, n) \in Seq(Cell)
        /\ Len(call.bytes \o CellsAt(0, n)) = call.length
    BY <2>2, <2>3, <2>4, ConcatBytes
  <2>6. /\ call' = [call EXCEPT !.bytes = call.bytes \o CellsAt(0, n)]
        /\ pc = "wrapped" /\ pc' = "update"
        /\ UNCHANGED <<hdr, cells, cached, delivered, biosVars, torn, faults>>
    BY <1>8 DEF ReadWrapped, TypeOK, Call
  <2>7. /\ call' \in Call /\ call'.length = call.length
        /\ call'.reading = call.reading
        /\ Len(call'.bytes) = call.length
    BY <2>5, <2>6 DEF Call, TypeOK
  <2>. QED
    BY <2>6, <2>7 DEF TypeOK, CacheValid, ReadIsComplete, Steps, Looping,
       PointersValid, biosVars
<1>9. CASE UpdateReadPtr /\ UNCHANGED <<biosVars, torn, faults>>
  <2>. DEFINE p == UpdatedReadPtr(cached.bmcReadPtr, call.length)
  <2>1. p \in Nat /\ p <= MaxOffset
    BY <1>9, ReadInRange, WrapArithmetic DEF UpdateReadPtr, Looping
  <2>2. /\ pc = "update" /\ pc' \in {"parse", "checksum"}
        /\ pc' = "parse" => call.reading = "header"
        /\ hdr' = [hdr EXCEPT !.bmcReadPtr = p]
        /\ cached' = [cached EXCEPT !.bmcReadPtr = p]
        /\ UNCHANGED <<cells, call, delivered, biosVars, torn, faults>>
    BY <1>9 DEF UpdateReadPtr
  <2>3. hdr' \in Header /\ cached' \in Header /\ PointersValid(cached)'
    BY <2>1, <2>2
       DEF TypeOK, Header, CacheValid, Looping, PointersValid, SizesMatch
  <2>. QED
    BY <2>2, <2>3 DEF TypeOK, CacheValid, ReadIsComplete, Steps, biosVars
<1>10. CASE ReadPayload /\ UNCHANGED <<biosVars, torn, faults>>
  <2>1. PICK h \in HeadersOf(call.bytes) :
          \/ /\ h.size <= MaxOffset
             /\ pc' = "toEnd"
             /\ call' = [call EXCEPT !.reading = "payload", !.length = h.size,
                                     !.bytes = <<>>, !.entryHeader = h]
             /\ UNCHANGED <<hdr, cells, cached, delivered>>
          \/ /\ h.size > MaxOffset
             /\ Throw
    BY <1>10 DEF ReadPayload
  <2>2. h \in [id : Int, size : Nat]
    BY <1>10, HeadersOfType
       DEF ReadPayload, ReadIsComplete, TypeOK, Call
  <2>3. CASE Throw
    BY <1>10, <2>3, ThrowTypeInv
  <2>4. CASE /\ h.size <= MaxOffset
             /\ pc' = "toEnd"
             /\ call' = [call EXCEPT !.reading = "payload", !.length = h.size,
                                     !.bytes = <<>>, !.entryHeader = h]
             /\ UNCHANGED <<hdr, cells, cached, delivered>>
    <3>1. call' \in Call
      BY <2>2, <2>4, EmptyBytes DEF TypeOK, Call
    <3>2. call'.length <= MaxOffset /\ call'.reading = "payload"
      BY <2>2, <2>4 DEF TypeOK, Call
    <3>. QED
      BY <1>10, <2>4, <3>1, <3>2
         DEF ReadPayload, TypeOK, CacheValid, ReadIsComplete, Steps, Looping,
             PointersValid, biosVars
  <2>. QED
    BY <2>1, <2>3, <2>4
<1>11. CASE AcceptEntry /\ UNCHANGED <<biosVars, torn, faults>>
  <2>1. PICK e \in EntriesOf(call.entryHeader, call.bytes) :
          call' = [call EXCEPT !.entryPairs = Append(@, e),
                               !.byteRead = @ + EntryHeaderSize + call.length,
                               !.reading = "none", !.length = 0, !.bytes = <<>>,
                               !.entryHeader = NoHeader]
    BY <1>11 DEF AcceptEntry
  <2>2. e \in Int
    BY DEF EntriesOf, TypeOK, Call, Garbled
  <2>3. Append(call.entryPairs, e) \in Seq(Int)
    BY <2>2 DEF TypeOK, Call
  <2>4. call.byteRead + EntryHeaderSize + call.length \in Nat
    BY MaxOffsetType DEF TypeOK, Call
  <2>5. call' \in Call
    BY <2>1, <2>3, <2>4, InitialTypes, EmptyBytes DEF TypeOK, Call
  <2>6. call'.length = 0
    BY <2>1 DEF TypeOK, Call
  <2>. QED
    BY <1>11, <2>5, <2>6, MaxOffsetType
       DEF AcceptEntry, TypeOK, CacheValid, ReadIsComplete, Steps, Looping,
           PointersValid, biosVars
<1>12. CASE ReturnEntries /\ UNCHANGED <<biosVars, torn, faults>>
  <2>1. delivered' \in Seq(Int)
    BY <1>12 DEF ReturnEntries, TypeOK, Call
  <2>. QED
    BY <1>12, <2>1, InitialTypes, MaxOffsetType
       DEF ReturnEntries, TypeOK, CacheValid, ReadIsComplete, Steps, Looping,
           biosVars
<1>13. CASE InitializeErase /\ UNCHANGED <<biosVars, torn, faults>>
  BY <1>13, InitialTypes
     DEF InitializeErase, TypeOK, CacheValid, ReadIsComplete, Steps, Looping,
         biosVars
<1>14. CASE InitializeHeader /\ UNCHANGED <<biosVars, torn, faults>>
  BY <1>14, InitialTypes
     DEF InitializeHeader, TypeOK, CacheValid, ReadIsComplete, Steps, Looping,
         biosVars
<1>. QED
  BY <1>1, <1>2, <1>3, <1>4, <1>5, <1>6, <1>7, <1>8, <1>9, <1>10, <1>11,
     <1>12, <1>13, <1>14 DEF Bmc

(* The BIOS only appends while its own pointer is inside the queue.        *)
LEMMA ReserveFreeFor ==
  ASSUME TypeInv, NEW size, BiosReserve(size)
  PROVE  hdr.biosWritePtr < MaxOffset
<1>1. CASE FreeFor(hdr, size)
  BY <1>1 DEF FreeFor
<1>2. ASSUME NEW p \in HalfWrittenPtrs,
             FreeFor([hdr EXCEPT !.bmcReadPtr = p], size)
      PROVE  hdr.biosWritePtr < MaxOffset
  BY <1>2 DEF FreeFor, TypeInv, TypeOK, Header
<1>. QED
  BY <1>1, <1>2 DEF BiosReserve

(* Every step of the BIOS keeps it: the BIOS writes whole cells, and only  *)
(* pointers it has wrapped.                                                *)
LEMMA BiosTypeInv ==
  ASSUME TypeInv, Bios
  PROVE  TypeInv'
<1>. USE DEF TypeInv
<1>1. ASSUME NEW size \in Sizes, BiosReserve(size), UNCHANGED <<bmcVars, faults>>
      PROVE  TypeInv'
  <2>1. bios'.at \in Index /\ bios' \in [step : {"idle", "write", "publish"},
                                         at : Index, size : Sizes \cup {0}]
    <3>1. hdr.biosWritePtr \in Nat /\ hdr.biosWritePtr < MaxOffset
      BY <1>1, ReserveFreeFor DEF TypeOK, Header
    <3>. QED
      BY <1>1, <3>1, MaxOffsetType DEF BiosReserve
  <2>2. torn' \in BOOLEAN
    BY <1>1, Zenon DEF BiosReserve, TypeOK
  <2>. QED
    BY <1>1, <2>1, <2>2
       DEF BiosReserve, TypeOK, CacheValid, ReadIsComplete, PointersValid,
           bmcVars
<1>2. CASE BiosWrite /\ UNCHANGED <<bmcVars, faults>>
  <2>1. cells' \in [Index -> Cell]
    <3>1. ASSUME NEW i \in Index
          PROVE  cells'[i] \in Cell
      <4>. DEFINE pos == IF i >= bios.at THEN i - bios.at
                         ELSE i + MaxOffset - bios.at
      <4>1. pos \in Nat
        BY MaxOffsetType DEF TypeOK
      <4>2. bios.size \in Nat
        <5>1. bios.size \in Sizes \cup {0}
          BY DEF TypeOK
        <5>2. Sizes \subseteq Nat
          BY SizeAssumption
        <5>3. 0 \in Nat
          OBVIOUS
        <5>. QED
          BY <5>1, <5>2, <5>3, Zenon
      <4>3. EntryCell(nextId, pos, bios.size) \in Cell
        <5>1. nextId \in Int
          BY DEF TypeOK
        <5>. HIDE DEF pos
        <5>. QED
          BY <4>1, <4>2, <5>1 DEF EntryCell, Cell
      <4>4. cells[i] \in Cell
        BY DEF TypeOK
      <4>5. cells'[i] = IF pos < EntryHeaderSize + bios.size
                        THEN EntryCell(nextId, pos, bios.size) ELSE cells[i]
        BY <1>2 DEF BiosWrite
      <4>. QED
        BY <4>3, <4>4, <4>5
    <3>. QED
      BY <1>2, <3>1 DEF BiosWrite
  <2>2. bios' \in [step : {"idle", "write", "publish"}, at : Index,
                   size : Sizes \cup {0}]
    BY <1>2 DEF BiosWrite, TypeOK
  <2>. QED
    BY <1>2, <2>1, <2>2
       DEF BiosWrite, TypeOK, CacheValid, ReadIsComplete, PointersValid,
           bmcVars
<1>3. CASE BiosPublish /\ UNCHANGED <<bmcVars, faults>>
  <2>1. Wrap(bios.at + EntryHeaderSize + bios.size) \in Nat
    <3>1. bios.at \in Nat
      BY MaxOffsetType DEF TypeOK
    <3>2. bios.size \in Nat
      <4>1. bios.size \in Sizes \cup {0}
        BY DEF TypeOK
      <4>2. Sizes \subseteq Nat
        BY SizeAssumption
      <4>3. 0 \in Nat
        OBVIOUS
      <4>. QED
        BY <4>1, <4>2, <4>3, Zenon
    <3>. QED
      BY <3>1, <3>2, MaxOffsetType DEF Wrap
  <2>2. hdr' \in Header
    BY <1>3, <2>1 DEF BiosPublish, TypeOK, Header
  <2>3. bios' \in [step : {"idle", "write", "publish"}, at : Index,
                   size : Sizes \cup {0}]
    BY <1>3, MaxOffsetType DEF BiosPublish, IdleBios
  <2>. QED
    BY <1>3, <2>2, <2>3
       DEF BiosPublish, TypeOK, CacheValid, ReadIsComplete, PointersValid,
           bmcVars
<1>. QED
  BY <1>1, <1>2, <1>3 DEF Bios

(* A crash of the daemon and the corruption of header or cells keep it.    *)
LEMMA FaultTypeInv ==
  ASSUME TypeInv, Restart \/ CorruptPointer \/ CorruptSize \/ CorruptCell
  PROVE  TypeInv'
<1>. USE DEF TypeInv
<1>1. CASE Restart
  <2>1. hdr' \in Header /\ torn' \in BOOLEAN
    <3>1. CASE UNCHANGED <<hdr, torn>>
      BY <3>1 DEF TypeOK
    <3>2. ASSUME NEW p \in HalfWrittenPtrs,
                 hdr' = [hdr EXCEPT !.bmcReadPtr = p], torn' = TRUE
          PROVE  hdr' \in Header /\ torn' \in BOOLEAN
      BY <3>2, HalfWrittenType DEF TypeOK, Header
    <3>. QED
      BY <1>1, <3>1, <3>2 DEF Restart
  <2>. QED
    BY <1>1, <2>1, InitialTypes, MaxOffsetType
       DEF Restart, Fault, TypeOK, CacheValid, ReadIsComplete, Steps, Looping,
           biosVars
<1>2. CASE CorruptPointer
  <2>1. hdr' \in Header
    <3>1. PICK p \in 0 .. MaxOffset + 1 :
            \/ hdr' = [hdr EXCEPT !.bmcReadPtr = p]
            \/ hdr' = [hdr EXCEPT !.biosWritePtr = p]
      BY <1>2 DEF CorruptPointer
    <3>2. p \in Nat
      BY MaxOffsetType
    <3>. QED
      BY <3>1, <3>2 DEF TypeOK, Header
  <2>. QED
    BY <1>2, <2>1 DEF CorruptPointer, Fault, TypeOK, CacheValid,
       ReadIsComplete, PointersValid, bmcVars, biosVars
<1>3. CASE CorruptSize
  <2>1. hdr' \in Header
    BY <1>3, SMTT(30) DEF CorruptSize, TypeOK, Header
  <2>. QED
    BY <1>3, <2>1 DEF CorruptSize, Fault, TypeOK, CacheValid,
       ReadIsComplete, PointersValid, bmcVars, biosVars
<1>4. CASE CorruptCell
  <2>1. cells' \in [Index -> Cell]
    BY <1>4, InitialTypes DEF CorruptCell, TypeOK
  <2>. QED
    BY <1>4, <2>1 DEF CorruptCell, Fault, TypeOK, CacheValid,
       ReadIsComplete, PointersValid, bmcVars, biosVars
<1>. QED
  BY <1>1, <1>2, <1>3, <1>4

(* A step that changes nothing keeps it.                                   *)
LEMMA StutterTypeInv ==
  ASSUME TypeInv, UNCHANGED vars
  PROVE  TypeInv'
BY DEF vars, bmcVars, biosVars, TypeInv, TypeOK, CacheValid, ReadIsComplete,
       PointersValid

(* For every region size, payload size and number of entries and faults of *)
(* every kind, readErrorLogs only asks for bytes inside the queue region,  *)
(* its cached header stays within the checked bounds while it loops, and   *)
(* it parses and checksums exactly the bytes it asked for.                 *)
THEOREM TypeCorrect == Spec => []TypeInv
<1>1. Init => TypeInv
  BY InitTypeInv
<1>2. TypeInv /\ [Next]_vars => TypeInv'
  BY BmcTypeInv, BiosTypeInv, FaultTypeInv, StutterTypeInv DEF Next
<1>. QED
  BY <1>1, <1>2, PTL DEF Spec

(* Every variable keeps its type, whatever the memory does.                *)
COROLLARY TypesKept == Spec => []TypeOK
<1>1. TypeInv => TypeOK
  BY DEF TypeInv
<1>. QED
  BY <1>1, TypeCorrect, PTL

(* wraparoundRead returns exactly the bytes readEntryHeader and readEntry  *)
(* asked it for, split by the end of the queue or not.                     *)
COROLLARY ReadsAreComplete == Spec => []ReadIsComplete
<1>1. TypeInv => ReadIsComplete
  BY DEF TypeInv
<1>. QED
  BY <1>1, TypeCorrect, PTL

-----------------------------------------------------------------------------
(* The read pointer.                                                       *)

(* ReadPtrInRange and CacheCoherent need each other: the pointer written   *)
(* is computed from the cached one, and the cached one was read from       *)
(* memory before the checks, where CacheCoherent does not hold yet.        *)
PointerInv ==
  /\ ReadPtrInRange
  /\ CacheCoherent
  /\ pc = "check" => cached.bmcReadPtr = hdr.bmcReadPtr

(* The pointer updateReadPtr writes is wrapped and goes to memory and      *)
(* cache alike.                                                            *)
LEMMA UpdatePointerInv ==
  ASSUME TypeInv, PointerInv, UpdateReadPtr
  PROVE  PointerInv'
<1>. DEFINE p == UpdatedReadPtr(cached.bmcReadPtr, call.length)
<1>1. /\ pc = "update" /\ pc' \in {"parse", "checksum"}
      /\ hdr' = [hdr EXCEPT !.bmcReadPtr = p]
      /\ cached' = [cached EXCEPT !.bmcReadPtr = p]
  BY DEF UpdateReadPtr
<1>2. pc \in Looping
  BY <1>1 DEF Looping
<1>3. cached.bmcReadPtr = hdr.bmcReadPtr /\ PointersValid(cached)
  BY <1>2 DEF PointerInv, CacheCoherent
<1>4. cached.bmcReadPtr < MaxOffset
  BY <1>1, <1>3, MaxOffsetType DEF PointerInv, ReadPtrInRange
<1>5. p \in Nat /\ p < MaxOffset
  BY <1>2, <1>4, ReadInRange, WrapArithmetic
<1>6. /\ hdr'.bmcReadPtr = p /\ cached'.bmcReadPtr = p
      /\ cached'.queueSize = cached.queueSize
      /\ cached'.ueRegionSize = cached.ueRegionSize
      /\ cached'.biosWritePtr = cached.biosWritePtr
  BY <1>1 DEF TypeInv, TypeOK, Header
<1>7. p \in Index
  BY <1>5, MaxOffsetType
<1>8. PointersValid(cached')
  BY <1>3, <1>5, <1>6, MaxOffsetType DEF PointersValid, SizesMatch
<1>. QED
  BY <1>1, <1>6, <1>7, <1>8 DEF PointerInv, ReadPtrInRange, CacheCoherent

(* Every other step of the BMC leaves the pointer alone, loads it into the *)
(* cache, or resets it.                                                    *)
LEMMA BmcPointerInv ==
  ASSUME TypeInv, PointerInv, Bmc
  PROVE  PointerInv'
<1>. USE DEF PointerInv, ReadPtrInRange, CacheCoherent
<1>1. CASE ReadHeaderHigh
  <2>1. cached'.bmcReadPtr = hdr.bmcReadPtr
    BY <1>1 DEF ReadHeaderHigh, TypeInv, TypeOK, Header
  <2>. QED
    BY <1>1, <2>1 DEF ReadHeaderHigh, Looping
<1>2. CASE UpdateReadPtr
  BY <1>2, UpdatePointerInv
<1>3. CASE InitializeErase \/ InitializeHeader
  <2>1. hdr'.bmcReadPtr = 0
    <3>1. CASE InitializeErase
      BY <3>1 DEF InitializeErase, ZeroHeader
    <3>2. CASE InitializeHeader
      BY <3>2 DEF InitializeHeader, ZeroHeader, InitialHeader
    <3>. QED
      BY <1>3, <3>1, <3>2
  <2>2. pc' \in {"writeHeader", "idle"}
    BY <1>3 DEF InitializeErase, InitializeHeader
  <2>. QED
    BY <2>1, <2>2, MaxOffsetType DEF Looping
<1>4. CASE CheckFindsEntries
  BY <1>4 DEF CheckFindsEntries, Looping
<1>5. CASE \/ ReadHeaderLow \/ CheckFindsNothing \/ ReturnEntries
           \/ CheckFails \/ RejectEntry \/ PointersDiffer
  BY <1>5 DEF ReadHeaderLow, CheckFindsNothing, ReturnEntries, CheckFails,
     RejectEntry, PointersDiffer, Throw, Looping
<1>6. CASE ReadEntryHeader \/ ReadToQueueEnd \/ ReadWrapped \/ AcceptEntry
  BY <1>6 DEF ReadEntryHeader, ReadToQueueEnd, ReadWrapped, AcceptEntry,
     Looping
<1>7. CASE ReadPayload
  BY <1>7 DEF ReadPayload, Throw, Looping
<1>. QED
  BY <1>1, <1>2, <1>3, <1>4, <1>5, <1>6, <1>7 DEF Bmc

(* Unless the memory corrupts a pointer, the bmcReadPtr the BIOS sees is   *)
(* always an offset inside the queue, and the cached one of a running      *)
(* readErrorLogs is equal to it and valid, however many restarts, corrupt  *)
(* sizes and corrupt cells there are.                                      *)
THEOREM ReadPointer ==
  ASSUME "pointer" \notin FaultKinds
  PROVE  Spec => [](ReadPtrInRange /\ CacheCoherent)
<1>1. Init => PointerInv
  BY MaxOffsetType
     DEF Init, PointerInv, ReadPtrInRange, CacheCoherent, InitialHeader,
         ZeroHeader, Looping
<1>2. TypeInv /\ PointerInv /\ [Next]_vars => PointerInv'
  <2>. SUFFICES ASSUME TypeInv, PointerInv, [Next]_vars
                PROVE  PointerInv'
    OBVIOUS
  <2>1. CASE Bmc
    BY <2>1, BmcPointerInv
  <2>2. CASE Bios
    <3>1. /\ hdr'.bmcReadPtr = hdr.bmcReadPtr
          /\ UNCHANGED <<cached, pc>>
      BY <2>2 DEF Bios, BiosReserve, BiosWrite, BiosPublish, bmcVars, TypeInv,
         TypeOK, Header
    <3>. QED
      BY <3>1 DEF PointerInv, ReadPtrInRange, CacheCoherent, PointersValid
  <2>3. CASE Restart
    BY <2>3 DEF Restart, PointerInv, ReadPtrInRange, CacheCoherent, Looping
  <2>4. CASE CorruptPointer
    BY <2>4 DEF CorruptPointer, Fault
  <2>5. CASE CorruptSize
    <3>1. hdr'.bmcReadPtr = hdr.bmcReadPtr /\ UNCHANGED <<cached, pc>>
      BY <2>5 DEF CorruptSize, bmcVars, TypeInv, TypeOK, Header
    <3>. QED
      BY <3>1 DEF PointerInv, ReadPtrInRange, CacheCoherent, PointersValid
  <2>6. CASE CorruptCell \/ UNCHANGED vars
    BY <2>6 DEF CorruptCell, vars, bmcVars, PointerInv, ReadPtrInRange,
       CacheCoherent, PointersValid
  <2>. QED
    BY <2>1, <2>2, <2>3, <2>4, <2>5, <2>6 DEF Next
<1>3. PointerInv => ReadPtrInRange /\ CacheCoherent
  BY DEF PointerInv
<1>. QED
  BY <1>1, <1>2, <1>3, TypeCorrect, PTL DEF Spec

(* In particular the header that readErrorLogs read once, at its start,    *)
(* stays the valid one the BIOS sees as long as it loops.                  *)
COROLLARY CacheStaysCoherent ==
  ASSUME "pointer" \notin FaultKinds
  PROVE  Spec => []CacheCoherent
<1>1. Spec => [](ReadPtrInRange /\ CacheCoherent)
  BY ReadPointer
<1>. QED
  BY <1>1, PTL

=============================================================================
