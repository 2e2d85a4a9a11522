------------------------------- MODULE Buffer -------------------------------
(***************************************************************************)
(* The error log queue shared by the BIOS and the BMC: the memory-mapped   *)
(* region that BufferImpl (src/src/buffer.cpp) reads while the BIOS writes *)
(* it.  The BMC side is BufferImpl::readErrorLogs with everything it calls *)
(* and BufferImpl::initialize, which readLoop calls when readErrorLogs     *)
(* throws.  One BMC action is one access to the shared memory (one call of *)
(* DataInterface::read or write) together with the local computation that  *)
(* follows it, so the BIOS can act between any two accesses.  An access is *)
(* a byte-by-byte copy in PciDataHandler; that it takes time shows in the  *)
(* two pointers, each of which the other side can see half written.  The   *)
(* other fields change only in initialize(), each of whose two writes is   *)
(* one step, and the BIOS writes its pointer as a whole.                   *)
(*                                                                         *)
(* A cell stands for one byte of the queue region.  It remembers which     *)
(* entry wrote it, at which position, instead of a byte value: that is     *)
(* what decides how a header parses and whether a checksum matches.        *)
(***************************************************************************)
EXTENDS Integers, Sequences

CONSTANTS
  QUEUE_REGION_SIZE,   \* compile-time size of header + UE region + queue
  UE_REGION_SIZE,      \* compile-time size of the UE region
  BufferHeaderSize,    \* sizeof(CircularBufferHeader), 0x30 in the code
  EntryHeaderSize,     \* sizeof(QueueEntryHeader), 6 in the code
  ByteBase,            \* values of one byte of a pointer, 256 in the code
  Sizes,               \* payload sizes the BIOS uses (entrySize)
  MaxEntries,          \* bound: entries the BIOS sends in one behaviour
  FaultKinds,          \* which faults the environment may inject
  MaxFaults            \* bound: faults in one behaviour

(* getMaxOffset() and getQueueOffset() for a header whose sizes match.     *)
MaxOffset == QUEUE_REGION_SIZE - UE_REGION_SIZE - BufferHeaderSize

(* The region has room for at least one entry and the BIOS only uses       *)
(* entries that can ever fit; ByteBase^2 pointers cover a 16-bit size.     *)
ASSUME SizeAssumption ==
  /\ QUEUE_REGION_SIZE \in Nat \ {0}
  /\ UE_REGION_SIZE \in Nat
  /\ BufferHeaderSize \in Nat
  /\ EntryHeaderSize \in Nat \ {0}
  /\ ByteBase \in Nat \ {0, 1}
  /\ Sizes \subseteq Nat
  /\ MaxOffset > EntryHeaderSize
  /\ \A s \in Sizes : EntryHeaderSize + s < MaxOffset

ASSUME BoundAssumption ==
  /\ MaxEntries \in Nat
  /\ FaultKinds \subseteq {"crash", "pointer", "size", "cell"}
  /\ MaxFaults \in Nat

VARIABLES
  hdr,        \* the CircularBufferHeader in shared memory
  cells,      \* the queue region in shared memory
  cached,     \* BufferImpl::cachedBufferHeader
  pc,         \* where the BMC is in readErrorLogs / initialize
  call,       \* the locals of the readErrorLogs call in progress
  delivered,  \* history: entries readErrorLogs has returned, oldest first
  bios,       \* the BIOS writer: what it is appending, and where
  nextId,     \* sequence id of the next entry the BIOS sends
  torn,       \* history: one side saw a pointer of the other half written
  faults      \* number of faults injected so far

bmcVars == <<cached, pc, call, delivered>>
biosVars == <<bios, nextId>>
vars == <<hdr, cells, bmcVars, biosVars, torn, faults>>

-----------------------------------------------------------------------------
(* Shared memory.                                                          *)

Header == [queueSize : Nat, ueRegionSize : Nat,
           bmcReadPtr : Nat, biosWritePtr : Nat]

(* A region filled with 0x00, and the header initialize() writes over it.  *)
ZeroHeader == [queueSize |-> 0, ueRegionSize |-> 0,
               bmcReadPtr |-> 0, biosWritePtr |-> 0]

InitialHeader == [ZeroHeader EXCEPT !.queueSize = QUEUE_REGION_SIZE,
                                    !.ueRegionSize = UE_REGION_SIZE]

Index == 0 .. MaxOffset - 1

(* Byte pos of entry id, whose header announces size payload bytes.        *)
Cell == [id : Int, pos : Nat, size : Nat]
EntryCell(id, pos, size) == [id |-> id, pos |-> pos, size |-> size]
ZeroCell == EntryCell(0, 0, 0)

(* A byte nobody wrote as part of an entry, and the id under which bytes   *)
(* that are not one intact entry are returned when their checksum matches. *)
Garbled == -1
JunkCell == EntryCell(Garbled, 0, 0)

(* The checks of getMaxOffset: queueSize and ueRegionSize are the          *)
(* compile-time ones, otherwise the buffer was corrupted.                  *)
SizesMatch(h) ==
  /\ h.queueSize = QUEUE_REGION_SIZE
  /\ h.ueRegionSize = UE_REGION_SIZE

(* A pointer of two bytes with its lowest byte from one value and the rest *)
(* from another: what PciDataHandler, which copies byte by byte and the    *)
(* lowest byte first, can read or leave between two of its steps.          *)
MixedPtr(low, high) == (low % ByteBase) + ByteBase * (high \div ByteBase)

-----------------------------------------------------------------------------
(* The arithmetic of wraparoundRead(relativeOffset, length).               *)

(* Bytes up to the end of the queue, and bytes left to read after wrapping.*)
NumWraparoundBytes(offset, length) ==
  IF length > MaxOffset - offset THEN length - (MaxOffset - offset) ELSE 0

NumBytesTillQueueEnd(offset, length) ==
  length - NumWraparoundBytes(offset, length)

(* Faulty variant: the corner case at the end of the queue is forgotten.   *)
UpdatedReadPtrNotWrapped(offset, length) ==
  IF NumWraparoundBytes(offset, length) > 0
  THEN NumWraparoundBytes(offset, length)
  ELSE offset + length

(* Faulty variant: a wrapped read also skips the byte after its end.       *)
UpdatedReadPtrSkipsByte(offset, length) ==
  IF NumWraparoundBytes(offset, length) > 0
  THEN NumWraparoundBytes(offset, length) + 1
  ELSE IF offset + length = MaxOffset THEN 0 ELSE offset + length

(* updatedReadPtr: wrapped by hand when the read stops at the queue's end. *)
UpdatedReadPtr(offset, length) ==
  IF NumWraparoundBytes(offset, length) > 0
  THEN NumWraparoundBytes(offset, length)
  ELSE IF offset + length = MaxOffset THEN 0 ELSE offset + length

(* bytesToRead of readErrorLogs, for different pointers.                   *)
BytesToRead(readPtr, writePtr) ==
  IF writePtr > readPtr
  THEN writePtr - readPtr
  ELSE (MaxOffset - readPtr) + writePtr

(* Bytes of shared memory, as DataInterface::read copies them.             *)
CellsAt(offset, n) == [i \in 1 .. n |-> cells[offset + i - 1]]

-----------------------------------------------------------------------------
(* How bytes parse.                                                        *)

IntactHeader(bytes) ==
  /\ bytes[1].id > 0
  /\ \A i \in 1 .. EntryHeaderSize :
       bytes[i] = EntryCell(bytes[1].id, i - 1, bytes[1].size)

ZeroBytes(bytes) == \A i \in DOMAIN bytes : bytes[i] = ZeroCell

(* The headers that EntryHeaderSize bytes can stand for.  Zeroed memory is *)
(* a header with entrySize 0; bytes that are not one header can hold any   *)
(* entrySize, and every size above MaxOffset is rejected alike.            *)
HeadersOf(bytes) ==
  IF ZeroBytes(bytes) THEN {[id |-> 0, size |-> 0]}
  ELSE IF IntactHeader(bytes)
       THEN {[id |-> bytes[1].id, size |-> bytes[1].size]}
       ELSE [id : {Garbled}, size : 0 .. MaxOffset + 1]

IntactEntry(header, bytes) ==
  /\ header.id > 0
  /\ \A i \in 1 .. header.size :
       bytes[i] = EntryCell(header.id, EntryHeaderSize + i - 1, header.size)

(* What readEntry can return for a header and its payload: the entry, if   *)
(* the XOR over all bytes is 0.  An intact entry and an all-zero header    *)
(* have checksum 0; any other mixture may have it or not.                  *)
EntriesOf(header, bytes) ==
  IF header.id = 0 THEN {0}
  ELSE IF IntactEntry(header, bytes) THEN {header.id} ELSE {Garbled}

ChecksumMayFail(header, bytes) == header.id # 0 /\ ~IntactEntry(header, bytes)

-----------------------------------------------------------------------------
(* The locals of a readErrorLogs call.                                     *)

NoHeader == [id |-> 0, size |-> 0]

NoCall == [low          |-> 0,      \* biosWritePtr when its low byte was read
           reading      |-> "none", \* what wraparoundRead is reading
           length       |-> 0,      \* and how many bytes of it
           bytes        |-> <<>>,   \* bytesRead
           entryHeader  |-> NoHeader,
           entryPairs   |-> <<>>,   \* ids of the entries read so far
           byteRead     |-> 0,
           bytesToRead  |-> 0]

Call == [low : Nat, reading : {"none", "header", "payload"}, length : Nat,
         bytes : Seq(Cell), entryHeader : [id : Int, size : Nat],
         entryPairs : Seq(Int), byteRead : Nat, bytesToRead : Nat]

(* Faulty variant: the exception is swallowed, nothing is initialized.     *)
ThrowSwallowed ==
  /\ pc' = "idle"
  /\ call' = NoCall
  /\ UNCHANGED <<hdr, cells, cached, delivered>>

(* An exception reaches the catch block of readLoop, which drops the call  *)
(* and calls initialize().                                                 *)
Throw ==
  /\ pc' = "erase"
  /\ call' = NoCall
  /\ UNCHANGED <<hdr, cells, cached, delivered>>

-----------------------------------------------------------------------------
(* BufferImpl::readErrorLogs.                                              *)

(* readBufferHeader copies the header byte by byte, lowest byte first.     *)
(* biosWritePtr is the only field of this header the BIOS writes, so its   *)
(* bytes are the ones a concurrent update can tear apart.                  *)
ReadHeaderLow ==
  /\ pc = "idle"
  /\ pc' = "header"
  /\ call' = [NoCall EXCEPT !.low = hdr.biosWritePtr]
  /\ UNCHANGED <<hdr, cells, cached, delivered>>

ReadHeaderHigh ==
  LET copied == MixedPtr(call.low, hdr.biosWritePtr) IN
  /\ pc = "header"
  /\ pc' = "check"
  /\ cached' = [hdr EXCEPT !.biosWritePtr = copied]
  /\ torn' = (torn \/ copied \notin {call.low, hdr.biosWritePtr})
  /\ UNCHANGED <<hdr, cells, call, delivered>>

PointersValid(h) ==
  /\ SizesMatch(h)
  /\ h.biosWritePtr <= MaxOffset
  /\ h.bmcReadPtr <= MaxOffset

CheckFails ==
  /\ pc = "check"
  /\ ~PointersValid(cached)
  /\ Throw

(* Faulty variant: a write pointer behind the read pointer means empty.    *)
CheckFindsNothingWhenBehind ==
  /\ pc = "check"
  /\ PointersValid(cached)
  /\ cached.biosWritePtr <= cached.bmcReadPtr
  /\ pc' = "idle"
  /\ call' = NoCall
  /\ UNCHANGED <<hdr, cells, cached, delivered>>

CheckFindsNothing ==
  /\ pc = "check"
  /\ PointersValid(cached)
  /\ cached.biosWritePtr = cached.bmcReadPtr
  /\ pc' = "idle"
  /\ call' = NoCall
  /\ UNCHANGED <<hdr, cells, cached, delivered>>

CheckFindsEntries ==
  /\ pc = "check"
  /\ PointersValid(cached)
  /\ cached.biosWritePtr # cached.bmcReadPtr
  /\ pc' = "loop"
  /\ call' = [NoCall EXCEPT !.bytesToRead =
                BytesToRead(cached.bmcReadPtr, cached.biosWritePtr)]
  /\ UNCHANGED <<hdr, cells, cached, delivered>>

(* Faulty variant: one entry more than there are bytes for.                *)
ReadEntryHeaderOnceMore ==
  /\ pc = "loop"
  /\ call.byteRead <= call.bytesToRead
  /\ pc' = "toEnd"
  /\ call' = [call EXCEPT !.reading = "header", !.length = EntryHeaderSize,
                          !.bytes = <<>>]
  /\ UNCHANGED <<hdr, cells, cached, delivered>>

(* readEntryHeader: the body of the while loop begins.                     *)
ReadEntryHeader ==
  /\ pc = "loop"
  /\ call.byteRead < call.bytesToRead
  /\ pc' = "toEnd"
  /\ call' = [call EXCEPT !.reading = "header", !.length = EntryHeaderSize,
                          !.bytes = <<>>]
  /\ UNCHANGED <<hdr, cells, cached, delivered>>

(* Faulty variant: the space is given back to the BIOS before the wrapped  *)
(* part of the entry has been read.                                        *)
ReadToQueueEndEarlyRelease ==
  LET offset == cached.bmcReadPtr IN
  /\ pc = "toEnd"
  /\ call' = [call EXCEPT !.bytes =
                CellsAt(offset, NumBytesTillQueueEnd(offset, call.length))]
  /\ hdr' = [hdr EXCEPT !.bmcReadPtr = UpdatedReadPtr(offset, call.length)]
  /\ pc' = IF NumWraparoundBytes(offset, call.length) > 0
           THEN "wrapped" ELSE "update"
  /\ UNCHANGED <<cells, cached, delivered>>

(* wraparoundRead: the first DataInterface::read.                          *)
ReadToQueueEnd ==
  LET offset == cached.bmcReadPtr IN
  /\ pc = "toEnd"
  /\ call' = [call EXCEPT !.bytes =
                CellsAt(offset, NumBytesTillQueueEnd(offset, call.length))]
  /\ pc' = IF NumWraparoundBytes(offset, call.length) > 0
           THEN "wrapped" ELSE "update"
  /\ UNCHANGED <<hdr, cells, cached, delivered>>

(* Faulty variant: the wrapped bytes replace the first ones.               *)
ReadWrappedReplaces ==
  /\ pc = "wrapped"
  /\ pc' = "update"
  /\ call' = [call EXCEPT !.bytes =
                CellsAt(0, NumWraparoundBytes(cached.bmcReadPtr, call.length))]
  /\ UNCHANGED <<hdr, cells, cached, delivered>>

(* wraparoundRead: the second DataInterface::read, from the queue's start. *)
ReadWrapped ==
  /\ pc = "wrapped"
  /\ pc' = "update"
  /\ call' = [call EXCEPT !.bytes = @ \o
                CellsAt(0, NumWraparoundBytes(cached.bmcReadPtr, call.length))]
  /\ UNCHANGED <<hdr, cells, cached, delivered>>

(* Faulty variant: the cached pointer is not updated.                      *)
UpdateReadPtrNotCached ==
  /\ pc = "update"
  /\ pc' = IF call.reading = "header" THEN "parse" ELSE "checksum"
  /\ hdr' = [hdr EXCEPT !.bmcReadPtr =
               UpdatedReadPtr(cached.bmcReadPtr, call.length)]
  /\ UNCHANGED <<cells, cached, call, delivered>>

(* What shared memory holds while updateReadPtr has written the lowest     *)
(* byte of the new pointer only.  If this is the new pointer or still the  *)
(* old one, the write is as good as one step.                              *)
HalfWrittenPtrs ==
  LET newReadPtr == UpdatedReadPtr(cached.bmcReadPtr, call.length)
      half == MixedPtr(newReadPtr, hdr.bmcReadPtr)
  IN IF pc = "update" THEN {half} \ {newReadPtr, hdr.bmcReadPtr} ELSE {}

(* updateReadPtr: the new pointer goes to shared memory and to the cache,  *)
(* and wraparoundRead returns.  The write is one step here; those who can  *)
(* meet a half-written pointer take it from HalfWrittenPtrs: a BIOS that   *)
(* reads it (BiosReserve), and the memory that a crash leaves (Restart).   *)
UpdateReadPtr ==
  LET newReadPtr == UpdatedReadPtr(cached.bmcReadPtr, call.length) IN
  /\ pc = "update"
  /\ pc' = IF call.reading = "header" THEN "parse" ELSE "checksum"
  /\ hdr' = [hdr EXCEPT !.bmcReadPtr = newReadPtr]
  /\ cached' = [cached EXCEPT !.bmcReadPtr = newReadPtr]
  /\ UNCHANGED <<cells, call, delivered>>

(* Faulty variant: entrySize is not compared with the queue's size.        *)
ReadPayloadUnchecked ==
  /\ pc = "parse"
  /\ \E h \in HeadersOf(call.bytes) :
       /\ pc' = "toEnd"
       /\ call' = [call EXCEPT !.reading = "payload", !.length = h.size,
                               !.bytes = <<>>, !.entryHeader = h]
  /\ UNCHANGED <<hdr, cells, cached, delivered>>

(* readEntry asks for entrySize bytes; wraparoundRead refuses more than    *)
(* MaxOffset of them.                                                      *)
ReadPayload ==
  /\ pc = "parse"
  /\ \E h \in HeadersOf(call.bytes) :
       \/ /\ h.size <= MaxOffset
          /\ pc' = "toEnd"
          /\ call' = [call EXCEPT !.reading = "payload", !.length = h.size,
                                  !.bytes = <<>>, !.entryHeader = h]
          /\ UNCHANGED <<hdr, cells, cached, delivered>>
       \/ /\ h.size > MaxOffset
          /\ Throw

(* readEntry accepts the entry and the while loop goes on with the next.   *)
AcceptEntry ==
  /\ pc = "checksum"
  /\ \E e \in EntriesOf(call.entryHeader, call.bytes) :
       call' = [call EXCEPT !.entryPairs = Append(@, e),
                            !.byteRead = @ + EntryHeaderSize + call.length,
                            !.reading = "none", !.length = 0, !.bytes = <<>>,
                            !.entryHeader = NoHeader]
  /\ pc' = "loop"
  /\ UNCHANGED <<hdr, cells, cached, delivered>>

RejectEntry ==
  /\ pc = "checksum"
  /\ ChecksumMayFail(call.entryHeader, call.bytes)
  /\ Throw

(* The loop ends: return the entries if they end where the BIOS does.      *)
ReturnEntries ==
  /\ pc = "loop"
  /\ call.byteRead >= call.bytesToRead
  /\ cached.biosWritePtr = cached.bmcReadPtr
  /\ pc' = "idle"
  /\ delivered' = delivered \o call.entryPairs
  /\ call' = NoCall
  /\ UNCHANGED <<hdr, cells, cached>>

(* Faulty variant: compared with the write pointer of now, not of the      *)
(* start of the call.                                                      *)
PointersDifferFromCurrent ==
  /\ pc = "loop"
  /\ call.byteRead >= call.bytesToRead
  /\ hdr.biosWritePtr # cached.bmcReadPtr
  /\ Throw

PointersDiffer ==
  /\ pc = "loop"
  /\ call.byteRead >= call.bytesToRead
  /\ cached.biosWritePtr # cached.bmcReadPtr
  /\ Throw

-----------------------------------------------------------------------------
(* BufferImpl::initialize: two writes to the shared memory.                *)

(* Faulty variant: only the header is erased.                              *)
InitializeEraseHeaderOnly ==
  /\ pc = "erase"
  /\ pc' = "writeHeader"
  /\ hdr' = ZeroHeader
  /\ UNCHANGED <<cells, cached, call, delivered>>

InitializeErase ==
  /\ pc = "erase"
  /\ pc' = "writeHeader"
  /\ hdr' = ZeroHeader
  /\ cells' = [i \in Index |-> ZeroCell]
  /\ UNCHANGED <<cached, call, delivered>>

InitializeHeader ==
  /\ pc = "writeHeader"
  /\ pc' = "idle"
  /\ hdr' = InitialHeader
  /\ cached' = InitialHeader
  /\ UNCHANGED <<cells, call, delivered>>

-----------------------------------------------------------------------------
(* The BIOS (external).  It appends an entry in three steps: it takes the  *)
(* pointers, writes the bytes into the free part of the queue, and only    *)
(* then publishes them by moving biosWritePtr.  It keeps one byte free, so *)
(* that equal pointers mean an empty queue.                                *)

Used(h) == IF h.biosWritePtr >= h.bmcReadPtr
           THEN h.biosWritePtr - h.bmcReadPtr
           ELSE MaxOffset - h.bmcReadPtr + h.biosWritePtr

Wrap(offset) == IF offset >= MaxOffset THEN offset - MaxOffset ELSE offset

IdleBios == [step |-> "idle", at |-> 0, size |-> 0]

FreeFor(h, size) ==
  /\ SizesMatch(h)
  /\ h.biosWritePtr < MaxOffset /\ h.bmcReadPtr < MaxOffset
  /\ Used(h) + EntryHeaderSize + size < MaxOffset

BiosReserve(size) ==
  /\ bios.step = "idle"
  /\ nextId <= MaxEntries
  /\ \/ FreeFor(hdr, size) /\ UNCHANGED torn
     \/ /\ \E p \in HalfWrittenPtrs : FreeFor([hdr EXCEPT !.bmcReadPtr = p], size)
        /\ torn' = TRUE
  /\ bios' = [step |-> "write", at |-> hdr.biosWritePtr, size |-> size]
  /\ UNCHANGED nextId
  /\ UNCHANGED <<hdr, cells>>

(* Offset i is byte Wrap(i - at) of what the BIOS is writing.              *)
BiosWrite ==
  /\ bios.step = "write"
  /\ bios' = [bios EXCEPT !.step = "publish"]
  /\ cells' = [i \in Index |->
       LET pos == IF i >= bios.at THEN i - bios.at ELSE i + MaxOffset - bios.at
       IN IF pos < EntryHeaderSize + bios.size
          THEN EntryCell(nextId, pos, bios.size) ELSE cells[i]]
  /\ UNCHANGED <<nextId, torn>>
  /\ UNCHANGED hdr

BiosPublish ==
  /\ bios.step = "publish"
  /\ bios' = IdleBios
  /\ hdr' = [hdr EXCEPT !.biosWritePtr =
               Wrap(bios.at + EntryHeaderSize + bios.size)]
  /\ nextId' = nextId + 1
  /\ UNCHANGED <<cells, torn>>

Bios ==
  /\ \/ \E size \in Sizes : BiosReserve(size)
     \/ BiosWrite
     \/ BiosPublish
  /\ UNCHANGED <<bmcVars, faults>>

-----------------------------------------------------------------------------
(* Faults.  The daemon may die at any point; systemd starts it again       *)
(* (Restart=always) and main() begins with initialize().  The shared       *)
(* memory may be corrupted in the ways the code checks for.                *)

Fault(kind) ==
  /\ kind \in FaultKinds
  /\ faults < MaxFaults
  /\ faults' = faults + 1

Restart ==
  /\ Fault("crash")
  /\ pc' = "erase"
  /\ cached' = ZeroHeader
  /\ call' = NoCall
  /\ \/ UNCHANGED <<hdr, torn>>
     \/ /\ \E p \in HalfWrittenPtrs : hdr' = [hdr EXCEPT !.bmcReadPtr = p]
        /\ torn' = TRUE
  /\ UNCHANGED <<cells, delivered, biosVars>>

CorruptPointer ==
  /\ Fault("pointer")
  /\ \E p \in 0 .. MaxOffset + 1 :
       \/ hdr' = [hdr EXCEPT !.bmcReadPtr = p]
       \/ hdr' = [hdr EXCEPT !.biosWritePtr = p]
  /\ UNCHANGED <<cells, bmcVars, biosVars, torn>>

CorruptSize ==
  /\ Fault("size")
  /\ \/ hdr' = [hdr EXCEPT !.queueSize = 0]
     \/ hdr' = [hdr EXCEPT !.ueRegionSize = @ + 1]
  /\ UNCHANGED <<cells, bmcVars, biosVars, torn>>

CorruptCell ==
  /\ Fault("cell")
  /\ \E i \in Index : cells' = [cells EXCEPT ![i] = JunkCell]
  /\ UNCHANGED <<hdr, bmcVars, biosVars, torn>>

-----------------------------------------------------------------------------
Bmc ==
  /\ \/ ReadHeaderHigh
     \/ /\ \/ ReadHeaderLow
           \/ CheckFails \/ CheckFindsNothing \/ CheckFindsEntries
           \/ ReadEntryHeader \/ ReadToQueueEnd \/ ReadWrapped \/ UpdateReadPtr
           \/ ReadPayload \/ AcceptEntry \/ RejectEntry
           \/ ReturnEntries \/ PointersDiffer
           \/ InitializeErase \/ InitializeHeader
        /\ UNCHANGED torn
  /\ UNCHANGED <<biosVars, faults>>

(* main() has initialized the buffer; the BIOS has sent nothing yet.       *)
Init ==
  /\ hdr = InitialHeader
  /\ cells = [i \in Index |-> ZeroCell]
  /\ cached = InitialHeader
  /\ pc = "idle"
  /\ call = NoCall
  /\ delivered = <<>>
  /\ bios = IdleBios
  /\ nextId = 1
  /\ torn = FALSE
  /\ faults = 0

Next ==
  \/ Bmc
  \/ Bios
  \/ Restart
  \/ CorruptPointer
  \/ CorruptSize
  \/ CorruptCell

(* The timer of readLoop is always armed again after a call, so the BMC    *)
(* keeps taking steps.  The BIOS owes nothing: it may stop anywhere.       *)
Fairness == WF_vars(Bmc)

Spec == Init /\ [][Next]_vars
FairSpec == Spec /\ Fairness

-----------------------------------------------------------------------------
(* Properties.                                                             *)

Steps == {"idle", "header", "check", "loop", "toEnd", "wrapped", "update",
          "parse", "checksum", "erase", "writeHeader"}

(* Inside the while loop of readErrorLogs.                                 *)
Looping == {"loop", "toEnd", "wrapped", "update", "parse", "checksum"}

(* Every variable keeps its type.  The read pointer in shared memory and   *)
(* the bytes asked of DataInterface::read stay within the queue region.    *)
TypeOK ==
  /\ hdr \in Header
  /\ cells \in [Index -> Cell]
  /\ cached \in Header
  /\ pc \in Steps
  /\ call \in Call
  /\ call.length <= MaxOffset
  /\ delivered \in Seq(Int)
  /\ bios \in [step : {"idle", "write", "publish"}, at : Index,
               size : Sizes \cup {0}]
  /\ nextId \in Nat \ {0}
  /\ torn \in BOOLEAN
  /\ faults \in Nat

(* Unless a pointer is corrupted from outside, bmcReadPtr never reaches    *)
(* MaxOffset: updateReadPtr is always given a wrapped pointer, also when a *)
(* read ends exactly at the end of the queue (wraparoundRead's corner      *)
(* case).  The BIOS computes its free space from this value.  Only a crash *)
(* in the middle of updateReadPtr can leave another one, until the new     *)
(* daemon erases the buffer.                                               *)
ReadPtrInRange == pc # "erase" => hdr.bmcReadPtr \in Index

(* While readErrorLogs runs, the cached read pointer it continues from is  *)
(* the one the BIOS sees, and the cached header has passed the checks of   *)
(* getMaxOffset, although the header was read only once, at the start.     *)
CacheCoherent ==
  pc \in Looping => /\ cached.bmcReadPtr = hdr.bmcReadPtr
                    /\ PointersValid(cached)

(* wraparoundRead hands back exactly the bytes it was asked for, in one or *)
(* two reads: the buffer never parses a header or checks a payload that is *)
(* short or too long.                                                      *)
ReadIsComplete ==
  /\ pc \in {"update", "parse", "checksum"} => Len(call.bytes) = call.length
  /\ pc = "wrapped" =>
       Len(call.bytes) = NumBytesTillQueueEnd(cached.bmcReadPtr, call.length)
  /\ pc = "parse" => call.length = EntryHeaderSize
  /\ pc \in {"toEnd", "wrapped", "update"} /\ call.reading = "header" =>
       call.length = EntryHeaderSize

(* The entries read so far: returned ones, then those of the call running. *)
Got == delivered \o call.entryPairs

(* The promises of the queue hold as long as nothing fails and no pointer  *)
(* was seen half written.  The second is no fault: a queue of more than    *)
(* ByteBase bytes, as the default one of 384 is, has two-byte pointers,    *)
(* and nothing in the code keeps the other side from reading one between   *)
(* its two bytes.  A read pointer beyond the real write pointer can then   *)
(* bring back old entries, and one that fails the checks erases the queue. *)

(* Without faults, and while no pointer was seen half written,             *)
(* readErrorLogs returns every entry once, in the order the BIOS sent      *)
(* them, wherever entries wrap around the end of the queue and however     *)
(* appends interleave with the accesses of the read.                       *)
ExactlyOnce == ~torn => \A i \in DOMAIN Got : Got[i] = i /\ i < nextId

(* Byte d comes right after byte c in the stream of entries.               *)
Follows(c, d) ==
  \/ d = [c EXCEPT !.pos = @ + 1] /\ d.pos < EntryHeaderSize + d.size
  \/ /\ c.pos = EntryHeaderSize + c.size - 1
     /\ d.id = c.id + 1 /\ d.pos = 0

(* Without faults, and while no pointer was seen half written, the         *)
(* published, unread bytes are always an unbroken run of the BIOS's stream *)
(* up to the last published entry, and between two entries the read        *)
(* pointer stands on the first byte of the next one: the BIOS never        *)
(* overwrites what readErrorLogs has still to copy.                        *)
UnreadIsWhole ==
  LET at(k) == cells[Wrap(hdr.bmcReadPtr + k)]
      unread == Used(hdr)
      last == at(unread - 1)
  IN ~torn /\ unread > 0 =>
       /\ last.id = nextId - 1 /\ last.pos = EntryHeaderSize + last.size - 1
       /\ \A k \in 1 .. unread - 1 : Follows(at(k - 1), at(k))
       /\ pc \in {"idle", "header", "check", "loop"} =>
            at(0).id = Len(Got) + 1 /\ at(0).pos = 0

(* Without faults, and while no pointer was seen half written,             *)
(* updateReadPtr never moves the read pointer past the BIOS's write        *)
(* pointer, which would tell the BIOS that unread bytes are free.          *)
NoOverrun == [][UpdateReadPtr /\ ~torn => call.length <= Used(hdr)]_vars

(* Without faults, and while no pointer was seen half written,             *)
(* readErrorLogs never throws, so readLoop never erases the buffer and the *)
(* unread entries in it.                                                   *)
NoSpuriousReset == ~torn => pc \notin {"erase", "writeHeader"}

(* Without faults every entry the BIOS publishes is returned eventually,   *)
(* unless a pointer is seen half written, before or after.                 *)
EveryEntryReturned ==
  \A id \in 1 .. MaxEntries : (nextId > id) ~> (Len(delivered) >= id \/ torn)

(* Whatever happens to header and cells, the loop recovers by itself: it   *)
(* keeps coming back to a valid header and an empty queue, by reading to   *)
(* the end or by throwing and initializing the buffer.                     *)
Recovers ==
  []<>(pc = "idle" /\ SizesMatch(hdr) /\ hdr.bmcReadPtr = hdr.biosWritePtr)

=============================================================================
