------------------------- MODULE BufferChannelProofs ------------------------
(***************************************************************************)
(* Without faults, the queue is a reliable channel, and with restarts of   *)
(* the daemon a lossy one, until one side sees a pointer of the other half *)
(* written, which breaks the channel: proofs about Buffer and the          *)
(* LogChannel it implements, for every region size, every set of payload   *)
(* sizes and any number of entries and restarts.                           *)
(*                                                                         *)
(* Both proofs speak of the unread bytes as a sequence that begins at the  *)
(* read pointer, where offsets do not wrap: reading drops a prefix of it,  *)
(* publishing adds one entry to its end.  Without faults it is a stream of *)
(* whole entries; with restarts it is in ascending order, with gaps.       *)
(***************************************************************************)
EXTENDS BufferChannel, BufferProofs

(* Bytes from one offset of the queue to another.                          *)
Distance(from, to) == IF to >= from THEN to - from ELSE MaxOffset - from + to

(* The published, unread bytes, from the read pointer on.                  *)
Unread == [k \in 0 .. Used(hdr) - 1 |-> cells[Wrap(hdr.bmcReadPtr + k)]]

(* Where in the stream u the entry ends that byte k belongs to.            *)
EndOfEntry(u, k) == k - u[k].pos + EntryHeaderSize + u[k].size

(* The n bytes u are whole entries, but for the first one, of which the    *)
(* beginning can be missing; they are numbered consecutively, and the last *)
(* one is the one before entry next.                                       *)
Stream(u, n, next) ==
  \A k \in 0 .. n - 1 :
    /\ u[k].id \in 1 .. next - 1
    /\ u[k].size \in Sizes
    /\ u[k].pos \in 0 .. EntryHeaderSize + u[k].size - 1
    /\ EndOfEntry(u, k) <= n
    /\ EndOfEntry(u, k) = n => u[k].id = next - 1
    /\ EndOfEntry(u, k) < n => /\ u[EndOfEntry(u, k)].id = u[k].id + 1
                               /\ u[EndOfEntry(u, k)].pos = 0
    /\ \A j \in k .. EndOfEntry(u, k) - 1 :
         u[j] = EntryCell(u[k].id, u[k].pos + j - k, u[k].size)

(* Byte k of the stream, or its end, is where an entry begins ...          *)
Boundary(u, n, k) == k \in 0 .. n /\ (k < n => u[k].pos = 0)

(* ... and this is entry e: its first byte is there, or still to come.     *)
Starts(u, n, next, k, e) ==
  /\ k \in 0 .. n
  /\ k < n => u[k].id = e /\ u[k].pos = 0
  /\ k = n => e = next

(* The stream begins with byte from of entry e, of s payload bytes, and    *)
(* rest of its bytes reach to the end of this entry at least.              *)
Ahead(u, n, next, rest, e, from, s) ==
  /\ s \in Sizes
  /\ from \in 0 .. EntryHeaderSize + s
  /\ EntryHeaderSize + s - from <= rest
  /\ \A j \in 0 .. EntryHeaderSize + s - from - 1 :
       u[j] = EntryCell(e, from + j, s)
  /\ Starts(u, n, next, EntryHeaderSize + s - from, e + 1)

(* What a step of the BIOS can do to the stream: nothing, or add entry     *)
(* next to it.                                                             *)
Grows(u, n, next, v, m, next2) ==
  /\ n \in Nat /\ m \in Nat /\ n <= m
  /\ \A k \in 0 .. n - 1 : v[k] = u[k]
  /\ \/ m = n /\ next2 = next
     \/ m > n /\ v[n].id = next /\ v[n].pos = 0

-----------------------------------------------------------------------------
(* The invariant.                                                          *)

(* The header in memory.                                                   *)
Region ==
  /\ SizesMatch(hdr)
  /\ hdr.bmcReadPtr \in Index
  /\ hdr.biosWritePtr \in Index

(* What the BIOS is appending fits behind the unread bytes.                *)
Appending ==
  /\ bios.step # "idle" =>
       /\ bios.at = hdr.biosWritePtr
       /\ bios.size \in Sizes
       /\ Used(hdr) + EntryHeaderSize + bios.size < MaxOffset
  /\ bios.step = "publish" =>
       \A j \in 0 .. (EntryHeaderSize + bios.size) - 1 :
         cells[Wrap(hdr.biosWritePtr + j)] = EntryCell(nextId, j, bios.size)

(* Bytes left to read up to the cached write pointer.                      *)
Rest == Distance(hdr.bmcReadPtr, cached.biosWritePtr)

(* The entry readErrorLogs is at.                                          *)
Current == Len(Got) + 1

(* The write pointer that was read once, at the start of the call, lies    *)
(* between two entries, and the unread bytes still reach up to it.         *)
CacheInStream(u, n) ==
  /\ SizesMatch(cached)
  /\ cached.bmcReadPtr = hdr.bmcReadPtr
  /\ cached.biosWritePtr \in Index
  /\ Boundary(u, n, Rest)

(* The bytes from byte from of the current entry on, of s payload bytes,   *)
(* are still to be read, and byteRead has not counted the ones before.     *)
ToRead(u, n, next, from, s) ==
  /\ Ahead(u, n, next, Rest, Current, from, s)
  /\ call.byteRead + from + Rest = call.bytesToRead

(* wraparoundRead has been asked for the header of the current entry, of   *)
(* s payload bytes, or for its payload.                                    *)
AsksHeader(u, n, next, s) ==
  /\ call.reading = "header" /\ call.length = EntryHeaderSize
  /\ ToRead(u, n, next, 0, s)

AsksPayload(u, n, next, s) ==
  /\ call.reading = "payload" /\ call.length = s
  /\ call.entryHeader = [id |-> Current, size |-> s]
  /\ ToRead(u, n, next, EntryHeaderSize, s)

(* Where readErrorLogs is in the stream.                                   *)
AtIdle(u, n, next) == call = NoCall /\ Starts(u, n, next, 0, Current)

AtHeader(u, n, next) ==
  /\ call.entryPairs = <<>>
  /\ call.low \in Index
  /\ Boundary(u, n, Distance(hdr.bmcReadPtr, call.low))
  /\ Starts(u, n, next, 0, Current)

AtCheck(u, n, next) ==
  /\ call.entryPairs = <<>>
  /\ CacheInStream(u, n)
  /\ Starts(u, n, next, 0, Current)

AtLoop(u, n, next) ==
  /\ CacheInStream(u, n)
  /\ Starts(u, n, next, 0, Current)
  /\ call.byteRead + Rest = call.bytesToRead

InRead(u, n, next) ==
  /\ CacheInStream(u, n)
  /\ \E s \in Sizes : AsksHeader(u, n, next, s) \/ AsksPayload(u, n, next, s)

HasRead(u) == \A i \in 1 .. Len(call.bytes) : call.bytes[i] = u[i - 1]

AtParse(u, n, next) ==
  /\ CacheInStream(u, n)
  /\ \E s \in Sizes :
       /\ ToRead(u, n, next, EntryHeaderSize, s)
       /\ \A i \in 1 .. EntryHeaderSize :
            call.bytes[i] = EntryCell(Current, i - 1, s)

AtChecksum(u, n, next) ==
  /\ CacheInStream(u, n)
  /\ call.length \in Sizes
  /\ call.entryHeader = [id |-> Current, size |-> call.length]
  /\ ToRead(u, n, next, EntryHeaderSize + call.length, call.length)
  /\ \A i \in 1 .. call.length :
       call.bytes[i] = EntryCell(Current, EntryHeaderSize + i - 1, call.length)

Reader(u, n, next) ==
  \/ pc = "idle" /\ AtIdle(u, n, next)
  \/ pc = "header" /\ AtHeader(u, n, next)
  \/ pc = "check" /\ AtCheck(u, n, next)
  \/ pc = "loop" /\ AtLoop(u, n, next)
  \/ pc = "toEnd" /\ InRead(u, n, next)
  \/ pc \in {"wrapped", "update"} /\ InRead(u, n, next) /\ HasRead(u)
  \/ pc = "parse" /\ AtParse(u, n, next)
  \/ pc = "checksum" /\ AtChecksum(u, n, next)

(* What has been read so far is in order.                                  *)
InOrder == \A i \in DOMAIN Got : Got[i] = i

StreamInv ==
  /\ Region
  /\ Appending
  /\ Stream(Unread, Used(hdr), nextId)
  /\ Reader(Unread, Used(hdr), nextId)
  /\ InOrder

-----------------------------------------------------------------------------
(* The arithmetic of offsets.                                              *)

(* An entry fits into the queue.                                           *)
LEMMA EntryFits ==
  ASSUME NEW s \in Sizes
  PROVE  /\ s \in Nat /\ EntryHeaderSize \in Nat /\ EntryHeaderSize > 0
         /\ EntryHeaderSize + s \in Nat /\ EntryHeaderSize + s > 0
         /\ EntryHeaderSize + s < MaxOffset
<1>1. s \in Nat /\ EntryHeaderSize \in Nat \ {0} /\ EntryHeaderSize + s < MaxOffset
  BY SizeAssumption
<1>. QED
  BY <1>1

(* Distance counts the bytes from one offset to another, and Wrap finds    *)
(* the offset at a distance.                                               *)
LEMMA DistanceRange ==
  ASSUME NEW r \in Index, NEW w \in Index
  PROVE  /\ Distance(r, w) \in 0 .. MaxOffset - 1
         /\ Wrap(r + Distance(r, w)) = w
         /\ Distance(r, w) = 0 <=> r = w
BY MaxOffsetType DEF Distance, Wrap

LEMMA WrapRange ==
  ASSUME NEW r \in Index, NEW n \in 0 .. MaxOffset
  PROVE  Wrap(r + n) \in Index
BY MaxOffsetType DEF Wrap

(* Steps along the queue add up.                                           *)
LEMMA WrapTwice ==
  ASSUME NEW r \in Index, NEW n \in Nat, NEW k \in Nat, n + k < MaxOffset
  PROVE  Wrap(Wrap(r + n) + k) = Wrap(r + n + k)
BY MaxOffsetType DEF Wrap

(* Moving the first offset forward shortens the distance, moving the       *)
(* second one lengthens it.                                                *)
LEMMA DistanceAfterRead ==
  ASSUME NEW r \in Index, NEW w \in Index,
         NEW n \in Nat, n <= Distance(r, w)
  PROVE  Distance(Wrap(r + n), w) = Distance(r, w) - n
BY MaxOffsetType DEF Wrap, Distance

LEMMA DistanceAfterWrite ==
  ASSUME NEW r \in Index, NEW w \in Index,
         NEW n \in Nat, Distance(r, w) + n < MaxOffset
  PROVE  Distance(r, Wrap(w + n)) = Distance(r, w) + n
BY MaxOffsetType DEF Wrap, Distance

(* What readErrorLogs and updateReadPtr compute, in these terms.           *)
LEMMA BytesToReadIsDistance ==
  ASSUME NEW r \in Index, NEW w \in Index, r # w
  PROVE  BytesToRead(r, w) = Distance(r, w)
BY MaxOffsetType DEF BytesToRead, Distance

LEMMA UpdatedReadPtrWraps ==
  ASSUME NEW r \in Index, NEW n \in Nat, n < MaxOffset
  PROVE  UpdatedReadPtr(r, n) = Wrap(r + n)
BY MaxOffsetType DEF UpdatedReadPtr, NumWraparoundBytes, Wrap

-----------------------------------------------------------------------------
(* Streams.                                                                *)

(* An entry that begins at the read pointer is there as a whole, and the   *)
(* next one follows it.                                                    *)
LEMMA StreamHead ==
  ASSUME NEW u, NEW n \in Nat, NEW next \in Nat, NEW e \in Nat,
         Stream(u, n, next), Starts(u, n, next, 0, e), n > 0,
         NEW rest \in Nat, rest > 0, Boundary(u, n, rest)
  PROVE  \E s \in Sizes : Ahead(u, n, next, rest, e, 0, s)
<1>. DEFINE s == u[0].size
            L == EntryHeaderSize + s
<1>1. 0 \in 0 .. n - 1
  OBVIOUS
<1>2. /\ u[0].id = e /\ u[0].pos = 0
  BY <1>1 DEF Starts
<1>3. s \in Sizes
  BY <1>1 DEF Stream
<1>4. s \in Nat /\ EntryHeaderSize \in Nat /\ EntryHeaderSize > 0
  BY <1>3, SizeAssumption
<1>5. EndOfEntry(u, 0) = L
  BY <1>2, <1>4 DEF EndOfEntry
<1>6. /\ L <= n
      /\ L = n => e = next - 1
      /\ L < n => u[L].id = e + 1 /\ u[L].pos = 0
      /\ \A j \in 0 .. L - 1 : u[j] = EntryCell(e, 0 + j - 0, s)
  BY <1>1, <1>2, <1>5 DEF Stream
<1>. HIDE DEF s
<1>7. L \in Nat
  BY <1>4
<1>8. \A j \in 0 .. L - 1 : 0 + j - 0 = j /\ 0 + j = j
  BY <1>7
<1>9. \A j \in 0 .. L - 1 : u[j] = EntryCell(e, 0 + j, s)
  BY <1>6, <1>8
<1>10. L <= rest
  <2>1. SUFFICES ASSUME rest < L
                 PROVE  FALSE
    BY <1>7
  <2>2. rest \in 0 .. L - 1 /\ rest < n
    BY <2>1, <1>6, <1>7
  <2>3. u[rest].pos = 0
    BY <2>2 DEF Boundary
  <2>4. u[rest] = EntryCell(e, 0 + rest, s)
    BY <2>2, <1>9
  <2>. QED
    BY <2>3, <2>4 DEF EntryCell
<1>11. Starts(u, n, next, L, e + 1)
  BY <1>6, <1>7 DEF Starts
<1>12. EntryHeaderSize + s - 0 = L /\ 0 \in 0 .. EntryHeaderSize + s
  BY <1>4
<1>13. Ahead(u, n, next, rest, e, 0, s)
  <2>1. \A j \in 0 .. EntryHeaderSize + s - 0 - 1 : u[j] = EntryCell(e, 0 + j, s)
    <3>1. 0 .. EntryHeaderSize + s - 0 - 1 = 0 .. L - 1
      BY <1>4
    <3>. QED
      BY <1>9, <3>1, Zenon
  <2>2. EntryHeaderSize + s - 0 <= rest
    BY <1>10, <1>12
  <2>3. Starts(u, n, next, EntryHeaderSize + s - 0, e + 1)
    BY <1>11, <1>12
  <2>. QED
    BY <1>3, <1>12, <2>1, <2>2, <2>3 DEF Ahead
<1>. QED
  BY <1>3, <1>13

(* v is what is left of the stream u of n bytes behind the first m.        *)
Behind(u, n, v, m) == \A k \in 0 .. n - m - 1 : v[k] = u[k + m]

(* A stream stays one when bytes are read from its beginning ...           *)
LEMMA StreamDrop ==
  ASSUME NEW u, NEW v, NEW n \in Nat, NEW next \in Nat,
         NEW m \in 0 .. n, Behind(u, n, v, m), Stream(u, n, next)
  PROVE  Stream(v, n - m, next)
<1>1. SUFFICES ASSUME NEW k \in 0 .. n - m - 1
      PROVE  /\ v[k].id \in 1 .. next - 1
             /\ v[k].size \in Sizes
             /\ v[k].pos \in 0 .. EntryHeaderSize + v[k].size - 1
             /\ EndOfEntry(v, k) <= n - m
             /\ EndOfEntry(v, k) = n - m => v[k].id = next - 1
             /\ EndOfEntry(v, k) < n - m =>
                  /\ v[EndOfEntry(v, k)].id = v[k].id + 1
                  /\ v[EndOfEntry(v, k)].pos = 0
             /\ \A j \in k .. EndOfEntry(v, k) - 1 :
                  v[j] = EntryCell(v[k].id, v[k].pos + j - k, v[k].size)
  BY DEF Stream
<1>2. k + m \in 0 .. n - 1 /\ v[k] = u[k + m]
  BY DEF Behind
<1>3. /\ v[k].id \in 1 .. next - 1
      /\ v[k].size \in Sizes
      /\ v[k].pos \in 0 .. EntryHeaderSize + v[k].size - 1
      /\ EndOfEntry(u, k + m) <= n
      /\ EndOfEntry(u, k + m) = n => v[k].id = next - 1
      /\ EndOfEntry(u, k + m) < n => /\ u[EndOfEntry(u, k + m)].id = v[k].id + 1
                                     /\ u[EndOfEntry(u, k + m)].pos = 0
      /\ \A j \in k + m .. EndOfEntry(u, k + m) - 1 :
           u[j] = EntryCell(v[k].id, v[k].pos + j - (k + m), v[k].size)
  BY <1>2 DEF Stream
<1>4. v[k].size \in Nat /\ EntryHeaderSize \in Nat
  BY <1>3, SizeAssumption
<1>5. /\ EndOfEntry(v, k) \in Nat /\ EndOfEntry(v, k) > k
      /\ EndOfEntry(u, k + m) = EndOfEntry(v, k) + m
  BY <1>2, <1>3, <1>4 DEF EndOfEntry
<1>6. SUFFICES ASSUME NEW end \in Nat, end = EndOfEntry(v, k)
               PROVE  /\ end <= n - m
                      /\ end = n - m => v[k].id = next - 1
                      /\ end < n - m => v[end].id = v[k].id + 1 /\ v[end].pos = 0
                      /\ \A j \in k .. end - 1 :
                           v[j] = EntryCell(v[k].id, v[k].pos + j - k, v[k].size)
  BY <1>3, <1>5
<1>7. /\ end + m <= n
      /\ end + m = n => v[k].id = next - 1
      /\ end + m < n => u[end + m].id = v[k].id + 1 /\ u[end + m].pos = 0
      /\ \A j \in k + m .. end + m - 1 :
           u[j] = EntryCell(v[k].id, v[k].pos + j - (k + m), v[k].size)
  BY <1>3, <1>5, <1>6
<1>8. ASSUME end < n - m
      PROVE  v[end].id = v[k].id + 1 /\ v[end].pos = 0
  <2>1. end \in 0 .. n - m - 1
    BY <1>8
  <2>2. v[end] = u[end + m]
    BY <2>1 DEF Behind
  <2>. QED
    BY <1>7, <1>8, <2>2
<1>9. ASSUME NEW j \in k .. end - 1
      PROVE  v[j] = EntryCell(v[k].id, v[k].pos + j - k, v[k].size)
  <2>1. j \in 0 .. n - m - 1 /\ j + m \in k + m .. end + m - 1
    BY <1>7
  <2>2. v[j] = u[j + m]
    BY <2>1 DEF Behind
  <2>3. u[j + m] = EntryCell(v[k].id, v[k].pos + (j + m) - (k + m), v[k].size)
    BY <1>7, <2>1
  <2>4. v[k].pos + (j + m) - (k + m) = v[k].pos + j - k
    <3>1. v[k].pos \in Int /\ j \in Int /\ k \in Int /\ m \in Int
      BY <1>3, <1>4
    <3>. QED
      BY <3>1
  <2>. QED
    BY <2>2, <2>3, <2>4
<1>10. end <= n - m /\ (end = n - m => v[k].id = next - 1)
  BY <1>7
<1>. QED
  BY <1>8, <1>9, <1>10

(* v is the stream u of n bytes with entry next, of s payload bytes, added *)
(* to its end.                                                             *)
WithEntry(u, n, next, s, v) ==
  /\ \A k \in 0 .. n - 1 : v[k] = u[k]
  /\ \A j \in 0 .. (EntryHeaderSize + s) - 1 : v[n + j] = EntryCell(next, j, s)

(* ... and when the next entry is added to its end.                        *)
LEMMA StreamGrow ==
  ASSUME NEW u, NEW v, NEW n \in Nat, NEW next \in Nat \ {0},
         NEW s \in Sizes, Stream(u, n, next), WithEntry(u, n, next, s, v)
  PROVE  Stream(v, n + (EntryHeaderSize + s), next + 1)
<1>. USE DEF WithEntry
<1>1. s \in Nat /\ EntryHeaderSize \in Nat /\ EntryHeaderSize > 0
  BY SizeAssumption
<1>2. SUFFICES ASSUME NEW m \in Nat, m = n + (EntryHeaderSize + s),
                      NEW k \in 0 .. m - 1
      PROVE  /\ v[k].id \in 1 .. next + 1 - 1
             /\ v[k].size \in Sizes
             /\ v[k].pos \in 0 .. EntryHeaderSize + v[k].size - 1
             /\ EndOfEntry(v, k) <= m
             /\ EndOfEntry(v, k) = m => v[k].id = next + 1 - 1
             /\ EndOfEntry(v, k) < m =>
                  /\ v[EndOfEntry(v, k)].id = v[k].id + 1
                  /\ v[EndOfEntry(v, k)].pos = 0
             /\ \A j \in k .. EndOfEntry(v, k) - 1 :
                  v[j] = EntryCell(v[k].id, v[k].pos + j - k, v[k].size)
  BY <1>1 DEF Stream
<1>3. v[n].id = next /\ v[n].pos = 0
  <2>1. 0 \in 0 .. (EntryHeaderSize + s) - 1 /\ n + 0 = n
    BY <1>1
  <2>2. v[n + 0] = EntryCell(next, 0, s)
    BY <2>1
  <2>. QED
    BY <2>1, <2>2 DEF EntryCell
<1>4. CASE k < n
  <2>1. k \in 0 .. n - 1 /\ v[k] = u[k]
    BY <1>4
  <2>2. /\ v[k].id \in 1 .. next - 1
        /\ v[k].size \in Sizes
        /\ v[k].pos \in 0 .. EntryHeaderSize + v[k].size - 1
        /\ EndOfEntry(u, k) <= n
        /\ EndOfEntry(u, k) = n => v[k].id = next - 1
        /\ EndOfEntry(u, k) < n => /\ u[EndOfEntry(u, k)].id = v[k].id + 1
                                   /\ u[EndOfEntry(u, k)].pos = 0
        /\ \A j \in k .. EndOfEntry(u, k) - 1 :
             u[j] = EntryCell(v[k].id, v[k].pos + j - k, v[k].size)
    BY <2>1 DEF Stream
  <2>3. v[k].size \in Nat
    BY <2>2, SizeAssumption
  <2>4. /\ EndOfEntry(v, k) = EndOfEntry(u, k)
        /\ EndOfEntry(v, k) \in Nat /\ EndOfEntry(v, k) > k
    BY <1>1, <2>1, <2>2, <2>3 DEF EndOfEntry
  <2>5. SUFFICES ASSUME NEW end \in Nat, end = EndOfEntry(v, k)
        PROVE  /\ end < m
               /\ v[end].id = v[k].id + 1 /\ v[end].pos = 0
               /\ \A j \in k .. end - 1 :
                    v[j] = EntryCell(v[k].id, v[k].pos + j - k, v[k].size)
    BY <2>2, <2>4
  <2>6. /\ end <= n
        /\ end = n => v[k].id = next - 1
        /\ end < n => u[end].id = v[k].id + 1 /\ u[end].pos = 0
        /\ \A j \in k .. end - 1 :
             u[j] = EntryCell(v[k].id, v[k].pos + j - k, v[k].size)
    BY <2>2, <2>4, <2>5
  <2>7. v[end].id = v[k].id + 1 /\ v[end].pos = 0
    <3>1. CASE end = n
      BY <3>1, <1>3, <2>6
    <3>2. CASE end < n
      <4>1. v[end] = u[end]
        BY <3>2
      <4>. QED
        BY <3>2, <4>1, <2>6
    <3>. QED
      BY <3>1, <3>2, <2>6
  <2>8. ASSUME NEW j \in k .. end - 1
        PROVE  v[j] = EntryCell(v[k].id, v[k].pos + j - k, v[k].size)
    <3>1. j \in 0 .. n - 1
      BY <2>6
    <3>. QED
      BY <3>1, <2>6
  <2>9. end < m
    BY <1>1, <1>2, <2>6
  <2>. QED
    BY <2>7, <2>8, <2>9
<1>5. CASE k >= n
  <2>1. k - n \in 0 .. (EntryHeaderSize + s) - 1 /\ n + (k - n) = k
    BY <1>1, <1>2, <1>5
  <2>2. v[n + (k - n)] = EntryCell(next, k - n, s)
    BY <2>1
  <2>3. v[k].id = next /\ v[k].pos = k - n /\ v[k].size = s
    BY <2>1, <2>2 DEF EntryCell
  <2>4. EndOfEntry(v, k) = m
    BY <1>1, <1>2, <2>3 DEF EndOfEntry
  <2>5. ASSUME NEW j \in k .. m - 1
        PROVE  v[j] = EntryCell(v[k].id, v[k].pos + j - k, v[k].size)
    <3>1. j - n \in 0 .. (EntryHeaderSize + s) - 1 /\ n + (j - n) = j
      BY <1>1, <1>2, <1>5
    <3>2. v[n + (j - n)] = EntryCell(next, j - n, s)
      BY <3>1
    <3>3. v[k].pos + j - k = j - n
      BY <2>3
    <3>. QED
      BY <3>1, <3>2, <3>3, <2>3
  <2>6. next + 1 - 1 = next /\ next \in 1 .. next + 1 - 1
    OBVIOUS
  <2>7. k - n \in 0 .. (EntryHeaderSize + s) - 1
    BY <2>1
  <2>. QED
    BY <1>1, <2>3, <2>4, <2>5, <2>6, <2>7
<1>. QED
  BY <1>4, <1>5

(* Entries that begin somewhere in the stream are at most the next one.    *)
LEMMA StartsBound ==
  ASSUME NEW u, NEW n \in Nat, NEW next \in Nat, NEW k, NEW e,
         Stream(u, n, next), Starts(u, n, next, k, e)
  PROVE  e <= next
<1>1. CASE k < n
  <2>1. k \in 0 .. n - 1 /\ u[k].id = e
    BY <1>1 DEF Starts
  <2>2. u[k].id \in 1 .. next - 1
    BY <2>1 DEF Stream
  <2>. QED
    BY <2>1, <2>2
<1>2. CASE k = n
  BY <1>2 DEF Starts
<1>. QED
  BY <1>1, <1>2 DEF Starts

(* Reading m bytes moves what begins in the stream towards its beginning.  *)
LEMMA StartsDrop ==
  ASSUME NEW u, NEW v, NEW n \in Nat, NEW next, NEW e, NEW m \in 0 .. n,
         Behind(u, n, v, m), NEW k \in Nat, Starts(u, n, next, k + m, e)
  PROVE  Starts(v, n - m, next, k, e)
<1>1. CASE k + m < n
  <2>1. k \in 0 .. n - m - 1
    BY <1>1
  <2>2. v[k] = u[k + m]
    BY <2>1 DEF Behind
  <2>. QED
    BY <1>1, <2>1, <2>2 DEF Starts
<1>2. CASE k + m = n
  BY <1>2 DEF Starts
<1>. QED
  BY <1>1, <1>2 DEF Starts

LEMMA BoundaryDrop ==
  ASSUME NEW u, NEW v, NEW n \in Nat, NEW m \in 0 .. n, Behind(u, n, v, m),
         NEW k \in Nat, m <= k, Boundary(u, n, k)
  PROVE  Boundary(v, n - m, k - m)
<1>1. CASE k < n
  <2>1. k - m \in 0 .. n - m - 1 /\ (k - m) + m = k
    BY <1>1
  <2>2. v[k - m] = u[k]
    BY <2>1 DEF Behind
  <2>. QED
    BY <1>1, <2>1, <2>2 DEF Boundary
<1>2. CASE k >= n
  BY <1>2 DEF Boundary
<1>. QED
  BY <1>1, <1>2

LEMMA AheadDrop ==
  ASSUME NEW u, NEW v, NEW n \in Nat, NEW next, NEW e, NEW m \in 0 .. n,
         Behind(u, n, v, m), NEW rest \in 0 .. n, NEW from \in Nat,
         NEW s, Ahead(u, n, next, rest, e, from, s),
         from + m <= EntryHeaderSize + s
  PROVE  Ahead(v, n - m, next, rest - m, e, from + m, s)
<1>1. s \in Sizes /\ s \in Nat /\ EntryHeaderSize \in Nat
  BY SizeAssumption DEF Ahead
<1>2. SUFFICES ASSUME NEW left \in Nat,
                      left = EntryHeaderSize + s - (from + m)
               PROVE  /\ left <= rest - m
                      /\ \A j \in 0 .. left - 1 : v[j] = EntryCell(e, from + m + j, s)
                      /\ Starts(v, n - m, next, left, e + 1)
  <2>1. from + m \in 0 .. EntryHeaderSize + s
    BY <1>1
  <2>2. EntryHeaderSize + s - (from + m) \in Nat
    BY <1>1
  <2>. QED
    BY <1>1, <2>1, <2>2 DEF Ahead
<1>3. EntryHeaderSize + s - from = left + m
  BY <1>1, <1>2
<1>4. /\ left + m <= rest
      /\ \A j \in 0 .. left + m - 1 : u[j] = EntryCell(e, from + j, s)
      /\ Starts(u, n, next, left + m, e + 1)
  <2>1. /\ EntryHeaderSize + s - from <= rest
        /\ \A j \in 0 .. EntryHeaderSize + s - from - 1 :
             u[j] = EntryCell(e, from + j, s)
        /\ Starts(u, n, next, EntryHeaderSize + s - from, e + 1)
    BY DEF Ahead
  <2>2. left + m <= rest
    BY <1>3, <2>1
  <2>3. Starts(u, n, next, left + m, e + 1)
    BY <1>3, <2>1, Zenon
  <2>4. 0 .. left + m - 1 = 0 .. EntryHeaderSize + s - from - 1
    BY <1>1, <1>2
  <2>. QED
    BY <2>1, <2>2, <2>3, <2>4, Zenon
<1>5. ASSUME NEW j \in 0 .. left - 1
      PROVE  v[j] = EntryCell(e, from + m + j, s)
  <2>1. j \in 0 .. n - m - 1 /\ j + m \in 0 .. left + m - 1
    BY <1>4
  <2>2. v[j] = u[j + m]
    BY <2>1 DEF Behind
  <2>3. from + (j + m) = from + m + j
    BY <2>1
  <2>. QED
    BY <1>4, <2>1, <2>2, <2>3
<1>. QED
  BY <1>4, <1>5, StartsDrop

(* A step of the BIOS leaves what begins in the stream where it is.        *)
LEMMA GrowsKeeps ==
  ASSUME NEW u, NEW n, NEW next, NEW v, NEW m, NEW next2,
         Grows(u, n, next, v, m, next2)
  PROVE  /\ \A k : Boundary(u, n, k) => Boundary(v, m, k)
         /\ \A k, e : Starts(u, n, next, k, e) => Starts(v, m, next2, k, e)
         /\ \A rest, e, from, s :
              Ahead(u, n, next, rest, e, from, s) /\ rest \in 0 .. n
                => Ahead(v, m, next2, rest, e, from, s)
<1>1. /\ n \in Nat /\ m \in Nat /\ n <= m
      /\ \A k \in 0 .. n - 1 : v[k] = u[k]
      /\ \/ m = n /\ next2 = next
         \/ m > n /\ v[n].id = next /\ v[n].pos = 0
  BY DEF Grows
<1>2. ASSUME NEW k, Boundary(u, n, k)
      PROVE  Boundary(v, m, k)
  BY <1>1, <1>2 DEF Boundary
<1>3. ASSUME NEW k, NEW e, Starts(u, n, next, k, e)
      PROVE  Starts(v, m, next2, k, e)
  <2>1. k \in 0 .. n
    BY <1>3 DEF Starts
  <2>2. CASE k < n
    <3>1. v[k] = u[k]
      BY <1>1, <2>1, <2>2
    <3>. QED
      BY <1>1, <1>3, <2>1, <2>2, <3>1 DEF Starts
  <2>3. CASE k = n
    <3>1. e = next
      BY <1>3, <2>3 DEF Starts
    <3>. QED
      BY <1>1, <2>3, <3>1 DEF Starts
  <2>. QED
    BY <1>1, <2>1, <2>2, <2>3
<1>4. ASSUME NEW rest, NEW e, NEW from, NEW s,
             Ahead(u, n, next, rest, e, from, s), rest \in 0 .. n
      PROVE  Ahead(v, m, next2, rest, e, from, s)
  <2>1. s \in Nat /\ EntryHeaderSize \in Nat
    BY <1>4, SizeAssumption DEF Ahead
  <2>2. ASSUME NEW j \in 0 .. EntryHeaderSize + s - from - 1
        PROVE  v[j] = EntryCell(e, from + j, s)
    <3>1. /\ from \in 0 .. EntryHeaderSize + s
          /\ EntryHeaderSize + s - from <= rest
          /\ u[j] = EntryCell(e, from + j, s)
      BY <1>4 DEF Ahead
    <3>2. j \in 0 .. n - 1
      BY <1>1, <1>4, <2>1, <3>1
    <3>. QED
      BY <1>1, <3>1, <3>2
  <2>3. Starts(v, m, next2, EntryHeaderSize + s - from, e + 1)
    BY <1>3, <1>4 DEF Ahead
  <2>. QED
    BY <1>4, <2>2, <2>3 DEF Ahead
<1>. QED
  BY <1>2, <1>3, <1>4

-----------------------------------------------------------------------------
(* The steps of the BIOS.                                                  *)

(* The bytes between the pointers are the unread ones.                     *)
LEMMA UsedIsDistance ==
  ASSUME Region
  PROVE  /\ Used(hdr) = Distance(hdr.bmcReadPtr, hdr.biosWritePtr)
         /\ Used(hdr) \in 0 .. MaxOffset - 1
         /\ Wrap(hdr.bmcReadPtr + Used(hdr)) = hdr.biosWritePtr
<1>1. Used(hdr) = Distance(hdr.bmcReadPtr, hdr.biosWritePtr)
  BY DEF Used, Distance
<1>. QED
  BY <1>1, DistanceRange DEF Region

(* wraparoundRead is only asked for bytes that are there.                  *)
LEMMA AskedIsUnread ==
  ASSUME NEW u, NEW n \in Nat, NEW next, InRead(u, n, next)
  PROVE  /\ call.length \in Nat /\ call.length <= Rest
         /\ Rest \in 0 .. n
<1>1. Rest \in 0 .. n
  BY DEF InRead, CacheInStream, Boundary
<1>2. PICK s \in Sizes : AsksHeader(u, n, next, s) \/ AsksPayload(u, n, next, s)
  BY DEF InRead
<1>3. s \in Nat /\ EntryHeaderSize \in Nat
  BY SizeAssumption
<1>4. CASE AsksHeader(u, n, next, s)
  <2>1. call.length = EntryHeaderSize /\ EntryHeaderSize + s - 0 <= Rest
    BY <1>4 DEF AsksHeader, ToRead, Ahead
  <2>. QED
    BY <1>1, <1>3, <2>1
<1>5. CASE AsksPayload(u, n, next, s)
  <2>1. call.length = s /\ EntryHeaderSize + s - EntryHeaderSize <= Rest
    BY <1>5 DEF AsksPayload, ToRead, Ahead
  <2>. QED
    BY <1>1, <1>3, <2>1
<1>. QED
  BY <1>2, <1>4, <1>5

(* Where the stream only grows and readErrorLogs does nothing, it stays    *)
(* where it is in the stream.                                              *)
LEMMA ReaderGrows ==
  ASSUME TypeInv, Grows(Unread, Used(hdr), nextId, Unread', Used(hdr)', nextId'),
         Reader(Unread, Used(hdr), nextId),
         UNCHANGED bmcVars, hdr'.bmcReadPtr = hdr.bmcReadPtr
  PROVE  Reader(Unread, Used(hdr), nextId)'
<1>1. /\ \A k : Boundary(Unread, Used(hdr), k)
                  => Boundary(Unread', Used(hdr)', k)
      /\ \A k, e : Starts(Unread, Used(hdr), nextId, k, e)
                     => Starts(Unread', Used(hdr)', nextId', k, e)
      /\ \A rest, e, from, s :
           Ahead(Unread, Used(hdr), nextId, rest, e, from, s)
             /\ rest \in 0 .. Used(hdr)
             => Ahead(Unread', Used(hdr)', nextId', rest, e, from, s)
  BY GrowsKeeps
<1>2. /\ UNCHANGED <<cached, pc, call>>
      /\ Rest' = Rest /\ Current' = Current
      /\ Distance(hdr.bmcReadPtr, call.low)' = Distance(hdr.bmcReadPtr, call.low)
  BY DEF bmcVars, Rest, Current, Got, Distance
<1>3. CacheInStream(Unread, Used(hdr)) =>
        CacheInStream(Unread, Used(hdr))' /\ Rest \in 0 .. Used(hdr)
  BY <1>1, <1>2 DEF CacheInStream, SizesMatch, Boundary
<1>4. \A from, s :
        ToRead(Unread, Used(hdr), nextId, from, s) /\ Rest \in 0 .. Used(hdr)
          => ToRead(Unread, Used(hdr), nextId, from, s)'
  BY <1>1, <1>2 DEF ToRead
<1>5. Starts(Unread, Used(hdr), nextId, 0, Current)
        => Starts(Unread, Used(hdr), nextId, 0, Current)'
  BY <1>1, <1>2
<1>6. InRead(Unread, Used(hdr), nextId)
        => InRead(Unread, Used(hdr), nextId)'
  BY <1>2, <1>3, <1>4 DEF InRead, AsksHeader, AsksPayload
<1>7. ASSUME pc \in {"wrapped", "update"}, InRead(Unread, Used(hdr), nextId),
             HasRead(Unread)
      PROVE  HasRead(Unread)'
  <2>1. Used(hdr) \in Nat /\ \A k \in 0 .. Used(hdr) - 1 : Unread'[k] = Unread[k]
    BY DEF Grows
  <2>2. call.length \in Nat /\ call.length <= Rest /\ Rest \in 0 .. Used(hdr)
    BY <1>7, <2>1, AskedIsUnread
  <2>3. Len(call.bytes) \in Nat
    BY DEF TypeInv, TypeOK, Call
  <2>4. Len(call.bytes) <= call.length
    <3>1. CASE pc = "update"
      BY <3>1, <2>2 DEF TypeInv, ReadIsComplete
    <3>2. CASE pc = "wrapped"
      <4>1. /\ cached.bmcReadPtr \in Nat /\ cached.bmcReadPtr <= MaxOffset
            /\ call.length <= MaxOffset
        BY <3>2, ReadInRange DEF Looping
      <4>2. /\ NumWraparoundBytes(cached.bmcReadPtr, call.length) \in Nat
            /\ NumBytesTillQueueEnd(cached.bmcReadPtr, call.length) \in Nat
            /\ NumBytesTillQueueEnd(cached.bmcReadPtr, call.length)
                 + NumWraparoundBytes(cached.bmcReadPtr, call.length)
                 = call.length
        BY <2>2, <4>1, WrapArithmetic
      <4>3. Len(call.bytes)
              = NumBytesTillQueueEnd(cached.bmcReadPtr, call.length)
        BY <3>2 DEF TypeInv, ReadIsComplete
      <4>. QED
        BY <2>2, <4>2, <4>3
    <3>. QED
      BY <1>7, <3>1, <3>2
  <2>5. Len(call.bytes) <= Used(hdr)
    BY <2>1, <2>2, <2>3, <2>4
  <2>6. \A i \in 1 .. Len(call.bytes) : i - 1 \in 0 .. Used(hdr) - 1
    BY <2>1, <2>3, <2>5
  <2>. QED
    BY <1>2, <1>7, <2>1, <2>6 DEF HasRead
<1>8. CASE pc = "idle"
  BY <1>2, <1>5, <1>8 DEF Reader, AtIdle
<1>9. CASE pc = "header"
  BY <1>1, <1>2, <1>5, <1>9 DEF Reader, AtHeader
<1>10. CASE pc = "check"
  BY <1>2, <1>3, <1>5, <1>10 DEF Reader, AtCheck
<1>11. CASE pc = "loop"
  BY <1>2, <1>3, <1>5, <1>11 DEF Reader, AtLoop
<1>12. CASE pc \in {"toEnd", "wrapped", "update"}
  BY <1>2, <1>6, <1>7, <1>12 DEF Reader
<1>13. CASE pc = "parse"
  BY <1>2, <1>3, <1>4, <1>13 DEF Reader, AtParse
<1>14. CASE pc = "checksum"
  BY <1>2, <1>3, <1>4, <1>14 DEF Reader, AtChecksum
<1>. QED
  BY <1>8, <1>9, <1>10, <1>11, <1>12, <1>13, <1>14 DEF Reader

(* Seen from the write pointer, the unread offsets come last, and those of *)
(* an entry that fits come first, in order.                                *)
LEMMA FreeArithmetic ==
  ASSUME NEW r \in Index, NEW w \in Index, NEW len \in Nat,
         Distance(r, w) + len < MaxOffset
  PROVE  /\ \A k \in 0 .. Distance(r, w) - 1 :
              Wrap(r + k) \in Index /\ Distance(w, Wrap(r + k)) >= len
         /\ \A j \in 0 .. len - 1 :
              Wrap(w + j) \in Index /\ Distance(w, Wrap(w + j)) = j
BY MaxOffsetType DEF Wrap, Distance

(* What the BIOS is appending, in these terms.                             *)
LEMMA AppendFits ==
  ASSUME TypeInv, Region, Appending, bios.step # "idle"
  PROVE  /\ bios.at = hdr.biosWritePtr /\ bios.at \in Index
         /\ bios.size \in Sizes /\ bios.size \in Nat
         /\ EntryHeaderSize + bios.size \in Nat
         /\ EntryHeaderSize + bios.size > 0
         /\ hdr.bmcReadPtr \in Index
         /\ Used(hdr) = Distance(hdr.bmcReadPtr, bios.at)
         /\ Used(hdr) + (EntryHeaderSize + bios.size) < MaxOffset
<1>1. bios.size \in Sizes /\ bios.size \in Nat
  BY SizeAssumption DEF Appending
<1>2. Used(hdr) \in Nat /\ EntryHeaderSize \in Nat /\ EntryHeaderSize > 0
  BY UsedIsDistance, MaxOffsetType
<1>3. Used(hdr) + EntryHeaderSize + bios.size < MaxOffset
  BY DEF Appending
<1>4. Used(hdr) + (EntryHeaderSize + bios.size) < MaxOffset
  BY <1>1, <1>2, <1>3, MaxOffsetType
<1>. QED
  BY <1>1, <1>2, <1>4, UsedIsDistance DEF Appending, Region

(* The bytes the BIOS writes lie behind the unread ones, and it writes     *)
(* the whole entry.                                                        *)
LEMMA WrittenBehind ==
  ASSUME TypeInv, Region, Appending, BiosWrite
  PROVE  /\ Unread' = Unread
         /\ \A j \in 0 .. (EntryHeaderSize + bios.size) - 1 :
              cells'[Wrap(bios.at + j)] = EntryCell(nextId, j, bios.size)
<1>. DEFINE r == hdr.bmcReadPtr
            w == bios.at
            len == EntryHeaderSize + bios.size
<1>1. bios.step # "idle"
  BY DEF BiosWrite
<1>2. /\ r \in Index /\ w \in Index /\ len \in Nat
      /\ Used(hdr) = Distance(r, w) /\ Used(hdr) + len < MaxOffset
  BY <1>1, AppendFits
<1>3. /\ \A k \in 0 .. Distance(r, w) - 1 :
           Wrap(r + k) \in Index /\ Distance(w, Wrap(r + k)) >= len
      /\ \A j \in 0 .. len - 1 :
           Wrap(w + j) \in Index /\ Distance(w, Wrap(w + j)) = j
  <2>1. Distance(r, w) + len < MaxOffset
    BY <1>2
  <2>. HIDE DEF r, w, len
  <2>. QED
    BY <1>2, <2>1, FreeArithmetic
<1>4. ASSUME NEW i \in Index
      PROVE  cells'[i] = IF Distance(w, i) < len
                         THEN EntryCell(nextId, Distance(w, i), bios.size)
                         ELSE cells[i]
  <2>1. Distance(w, i) = IF i >= w THEN i - w ELSE i + MaxOffset - w
    <3>. HIDE DEF w
    <3>. QED
      BY <1>2, MaxOffsetType DEF Distance
  <2>. QED
    BY <2>1 DEF BiosWrite
<1>5. hdr' = hdr
  BY DEF BiosWrite
<1>6. ASSUME NEW k \in 0 .. Used(hdr) - 1
      PROVE  cells'[Wrap(r + k)] = cells[Wrap(r + k)]
  <2>. HIDE DEF r, w, len
  <2>1. Wrap(r + k) \in Index /\ Distance(w, Wrap(r + k)) >= len
    BY <1>2, <1>3
  <2>2. Distance(w, Wrap(r + k)) \in 0 .. MaxOffset - 1
    BY <1>2, <2>1, DistanceRange
  <2>3. ~(Distance(w, Wrap(r + k)) < len)
    BY <1>2, <2>1, <2>2
  <2>. QED
    BY <1>4, <2>1, <2>3
<1>7. Unread' = Unread
  BY <1>5, <1>6 DEF Unread
<1>8. ASSUME NEW j \in 0 .. len - 1
      PROVE  cells'[Wrap(w + j)] = EntryCell(nextId, j, bios.size)
  <2>. HIDE DEF w, len
  <2>1. Wrap(w + j) \in Index /\ Distance(w, Wrap(w + j)) = j
    BY <1>3
  <2>2. j < len
    BY <1>2
  <2>. QED
    BY <1>4, <2>1, <2>2
<1>. QED
  BY <1>7, <1>8, Zenon

(* Publishing adds the entry to the end of the stream.                     *)
LEMMA PublishedIsAdded ==
  ASSUME TypeInv, Region, Appending, BiosPublish
  PROVE  /\ Region'
         /\ bios.size \in Sizes
         /\ Used(hdr)' = Used(hdr) + (EntryHeaderSize + bios.size)
         /\ WithEntry(Unread, Used(hdr), nextId, bios.size, Unread')
<1>. DEFINE r == hdr.bmcReadPtr
            w == hdr.biosWritePtr
            len == EntryHeaderSize + bios.size
            n == Used(hdr)
<1>1. bios.step # "idle" /\ bios.step = "publish"
  BY DEF BiosPublish
<1>2. /\ r \in Index /\ w \in Index /\ w = bios.at
      /\ bios.size \in Sizes /\ bios.size \in Nat /\ len \in Nat
      /\ n \in 0 .. MaxOffset - 1 /\ n = Distance(r, w) /\ Wrap(r + n) = w
      /\ n + len < MaxOffset
  BY <1>1, AppendFits, UsedIsDistance
<1>3. \A j \in 0 .. len - 1 : cells[Wrap(w + j)] = EntryCell(nextId, j, bios.size)
  BY <1>1, Zenon DEF Appending
<1>4. /\ hdr'.bmcReadPtr = r /\ hdr'.biosWritePtr = Wrap(w + len)
      /\ hdr'.queueSize = hdr.queueSize /\ hdr'.ueRegionSize = hdr.ueRegionSize
      /\ cells' = cells
  <2>1. bios.at + EntryHeaderSize + bios.size = w + len
    BY <1>2, MaxOffsetType
  <2>2. hdr' = [hdr EXCEPT !.biosWritePtr = Wrap(w + len)] /\ cells' = cells
    BY <2>1 DEF BiosPublish
  <2>. QED
    BY <2>2 DEF TypeInv, TypeOK, Header
<1>. HIDE DEF r, w, len
<1>5. Wrap(w + len) \in Index
  <2>1. len \in 0 .. MaxOffset
    BY <1>2, MaxOffsetType
  <2>. QED
    BY <1>2, <2>1, WrapRange
<1>6. Region'
  BY <1>2, <1>4, <1>5 DEF Region, SizesMatch
<1>7. Used(hdr)' = n + len
  <2>1. Distance(r, Wrap(w + len)) = Distance(r, w) + len
    BY <1>2, DistanceAfterWrite
  <2>2. Used(hdr)' = Distance(hdr'.bmcReadPtr, hdr'.biosWritePtr)
    BY DEF Used, Distance
  <2>. QED
    BY <1>2, <1>4, <2>1, <2>2
<1>8. \A k \in 0 .. (n + len) - 1 : Unread'[k] = cells[Wrap(r + k)]
  <2>1. \A k \in 0 .. Used(hdr)' - 1 : Unread'[k] = cells'[Wrap(hdr'.bmcReadPtr + k)]
    BY DEF Unread
  <2>. QED
    BY <1>4, <1>7, <2>1, Zenon
<1>9. \A k \in 0 .. n - 1 : Unread[k] = cells[Wrap(r + k)]
  BY DEF Unread, r
<1>. HIDE DEF n
<1>10. ASSUME NEW k \in 0 .. n - 1
       PROVE  Unread'[k] = Unread[k]
  <2>1. k \in 0 .. (n + len) - 1
    BY <1>2
  <2>. QED
    BY <1>8, <1>9, <2>1
<1>11. ASSUME NEW j \in 0 .. len - 1
       PROVE  Unread'[n + j] = EntryCell(nextId, j, bios.size)
  <2>1. n + j \in 0 .. (n + len) - 1
    BY <1>2
  <2>2. Wrap(r + (n + j)) = Wrap(w + j)
    <3>1. j \in Nat /\ n \in Nat /\ n + j < MaxOffset
      BY <1>2, MaxOffsetType
    <3>2. Wrap(Wrap(r + n) + j) = Wrap(r + n + j)
      BY <1>2, <3>1, WrapTwice
    <3>3. r \in Int
      BY <1>2, MaxOffsetType
    <3>4. r + n + j = r + (n + j)
      BY <3>1, <3>3
    <3>. QED
      BY <1>2, <3>2, <3>4
  <2>. QED
    BY <1>3, <1>8, <2>1, <2>2
<1>. QED
  BY <1>2, <1>6, <1>7, <1>10, <1>11, Zenon DEF n, len, WithEntry

(* The BIOS that sees no half-written read pointer knows its free space.   *)
LEMMA ReservesFree ==
  ASSUME NEW size, BiosReserve(size), ~torn'
  PROVE  FreeFor(hdr, size)
BY DEF BiosReserve

(* Every step of the BIOS keeps the invariant.                             *)
LEMMA BiosStreamInv ==
  ASSUME TypeInv, StreamInv, Bios, ~torn'
  PROVE  StreamInv'
<1>1. /\ Region /\ Appending /\ InOrder
      /\ Stream(Unread, Used(hdr), nextId)
      /\ Reader(Unread, Used(hdr), nextId)
      /\ UNCHANGED bmcVars
      /\ nextId \in Nat \ {0}
      /\ Used(hdr) \in Nat
  <2>1. Used(hdr) \in 0 .. MaxOffset - 1
    BY UsedIsDistance DEF StreamInv
  <2>2. Used(hdr) \in Nat
    BY <2>1
  <2>. QED
    BY <2>2 DEF StreamInv, Bios, TypeInv, TypeOK
<1>2. InOrder'
  BY <1>1 DEF InOrder, Got, bmcVars
<1>3. ASSUME UNCHANGED <<hdr, nextId>>, Unread' = Unread, Appending'
      PROVE  StreamInv'
  <2>1. Region'
    BY <1>1, <1>3 DEF Region, SizesMatch
  <2>2. Used(hdr)' = Used(hdr)
    BY <1>3 DEF Used
  <2>3. Stream(Unread, Used(hdr), nextId)'
    BY <1>1, <1>3, <2>2
  <2>4. Grows(Unread, Used(hdr), nextId, Unread', Used(hdr)', nextId')
    BY <1>1, <1>3, <2>2 DEF Grows
  <2>5. Reader(Unread, Used(hdr), nextId)'
    BY <1>1, <1>3, <2>4, ReaderGrows
  <2>. QED
    BY <1>2, <1>3, <2>1, <2>3, <2>5 DEF StreamInv
<1>4. ASSUME NEW size \in Sizes, BiosReserve(size)
      PROVE  StreamInv'
  <2>1. /\ UNCHANGED <<hdr, cells, nextId>>
        /\ bios'.step = "write" /\ bios'.at = hdr.biosWritePtr
        /\ bios'.size = size
        /\ Used(hdr) + EntryHeaderSize + size < MaxOffset
    BY <1>4, ReservesFree DEF BiosReserve, FreeFor
  <2>2. Unread' = Unread /\ Used(hdr)' = Used(hdr)
    BY <2>1 DEF Unread, Used
  <2>3. Appending'
    BY <2>1, <2>2 DEF Appending
  <2>. QED
    BY <1>3, <2>1, <2>2, <2>3
<1>5. CASE BiosWrite
  <2>1. /\ UNCHANGED <<hdr, nextId>>
        /\ bios.step = "write" /\ bios'.step = "publish"
        /\ bios'.at = bios.at /\ bios'.size = bios.size
    BY <1>5 DEF BiosWrite, TypeInv, TypeOK
  <2>2. /\ Unread' = Unread
        /\ \A j \in 0 .. (EntryHeaderSize + bios.size) - 1 :
             cells'[Wrap(bios.at + j)] = EntryCell(nextId, j, bios.size)
    BY <1>1, <1>5, WrittenBehind
  <2>3. Used(hdr)' = Used(hdr)
    BY <2>1 DEF Used
  <2>4. Appending'
    BY <1>1, <2>1, <2>2, <2>3 DEF Appending
  <2>. QED
    BY <1>3, <2>1, <2>2, <2>4
<1>6. CASE BiosPublish
  <2>1. /\ Region'
        /\ bios.size \in Sizes
        /\ Used(hdr)' = Used(hdr) + (EntryHeaderSize + bios.size)
        /\ WithEntry(Unread, Used(hdr), nextId, bios.size, Unread')
    BY <1>1, <1>6, PublishedIsAdded
  <2>2. /\ bios'.step = "idle" /\ nextId' = nextId + 1
        /\ hdr'.bmcReadPtr = hdr.bmcReadPtr
    BY <1>6 DEF BiosPublish, IdleBios, TypeInv, TypeOK, Header
  <2>3. Appending'
    BY <2>2 DEF Appending
  <2>4. Stream(Unread', Used(hdr) + (EntryHeaderSize + bios.size), nextId + 1)
    BY <1>1, <2>1, StreamGrow
  <2>5. bios.size \in Nat /\ EntryHeaderSize \in Nat /\ EntryHeaderSize > 0
    <3>1. bios.size \in Sizes
      BY <2>1
    <3>. QED
      BY <3>1, EntryFits
  <2>6. Stream(Unread, Used(hdr), nextId)'
    BY <2>1, <2>2, <2>4
  <2>7. Unread'[Used(hdr)].id = nextId /\ Unread'[Used(hdr)].pos = 0
    <3>1. 0 \in 0 .. (EntryHeaderSize + bios.size) - 1 /\ Used(hdr) + 0 = Used(hdr)
      BY <1>1, <2>5
    <3>2. Unread'[Used(hdr) + 0] = EntryCell(nextId, 0, bios.size)
      BY <2>1, <3>1 DEF WithEntry
    <3>. QED
      BY <3>1, <3>2 DEF EntryCell
  <2>8. /\ Used(hdr)' \in Nat /\ Used(hdr) <= Used(hdr)'
        /\ Used(hdr)' > Used(hdr)
    BY <1>1, <2>1, <2>5
  <2>9. Grows(Unread, Used(hdr), nextId, Unread', Used(hdr)', nextId')
    BY <1>1, <2>1, <2>7, <2>8 DEF Grows, WithEntry
  <2>10. Reader(Unread, Used(hdr), nextId)'
    BY <1>1, <2>2, <2>9, ReaderGrows
  <2>. QED
    BY <1>2, <2>1, <2>3, <2>6, <2>10 DEF StreamInv
<1>. QED
  BY <1>4, <1>5, <1>6 DEF Bios

-----------------------------------------------------------------------------
(* The steps of the BMC.                                                   *)

(* The counters of the invariant are natural numbers.                      *)
LEMMA StreamTypes ==
  ASSUME TypeInv, StreamInv
  PROVE  /\ Used(hdr) \in Nat /\ Used(hdr) < MaxOffset
         /\ nextId \in Nat \ {0}
         /\ Got \in Seq(Int) /\ Len(Got) \in Nat
         /\ Current \in Nat /\ Current > 0
         /\ hdr.bmcReadPtr \in Index /\ hdr.biosWritePtr \in Index
<1>1. Used(hdr) \in 0 .. MaxOffset - 1
  BY UsedIsDistance DEF StreamInv
<1>2. Used(hdr) \in Nat /\ Used(hdr) < MaxOffset
  BY <1>1, MaxOffsetType
<1>3. Got \in Seq(Int)
  BY DEF Got, TypeInv, TypeOK, Call
<1>4. Len(Got) \in Nat
  BY <1>3
<1>5. Current \in Nat /\ Current > 0
  BY <1>4 DEF Current
<1>. QED
  BY <1>2, <1>3, <1>4, <1>5 DEF StreamInv, Region, TypeInv, TypeOK

(* A step that leaves the shared memory alone leaves the stream alone.     *)
LEMMA SameStream ==
  ASSUME StreamInv, UNCHANGED <<hdr, cells, biosVars>>
  PROVE  /\ Unread' = Unread /\ Used(hdr)' = Used(hdr) /\ nextId' = nextId
         /\ Region' /\ Appending' /\ Stream(Unread, Used(hdr), nextId)'
<1>1. /\ Unread' = Unread /\ Used(hdr)' = Used(hdr) /\ nextId' = nextId
  BY DEF Unread, Used, biosVars
<1>2. Region' /\ Appending'
  BY <1>1 DEF StreamInv, Region, Appending, SizesMatch, biosVars
<1>. QED
  BY <1>1, <1>2 DEF StreamInv

(* It keeps what has been read in order if it reads no entry.              *)
LEMMA SameGot ==
  ASSUME InOrder, Got' = Got
  PROVE  InOrder' /\ Current' = Current
BY DEF InOrder, Current

(* Nothing has been read before the loop.                                  *)
LEMMA NoEntries == NoCall.entryPairs = <<>> /\ NoCall.byteRead = 0
BY DEF NoCall

LEMMA ReadHeaderLowInv ==
  ASSUME TypeInv, StreamInv, ReadHeaderLow, UNCHANGED biosVars
  PROVE  StreamInv'
<1>1. /\ UNCHANGED <<hdr, cells, cached, delivered>>
      /\ pc = "idle" /\ pc' = "header"
      /\ call' = [NoCall EXCEPT !.low = hdr.biosWritePtr]
  BY DEF ReadHeaderLow
<1>2. AtIdle(Unread, Used(hdr), nextId)
  BY <1>1 DEF StreamInv, Reader
<1>3. /\ Unread' = Unread /\ Used(hdr)' = Used(hdr) /\ nextId' = nextId
      /\ Region' /\ Appending' /\ Stream(Unread, Used(hdr), nextId)'
  BY <1>1, SameStream
<1>4. /\ call'.low = hdr.biosWritePtr /\ call'.entryPairs = <<>>
  BY <1>1 DEF NoCall
<1>5. Got' = Got
  BY <1>1, <1>2, <1>4, NoEntries DEF Got, AtIdle
<1>6. InOrder' /\ Current' = Current
  BY <1>5, SameGot DEF StreamInv
<1>7. Distance(hdr.bmcReadPtr, call.low)' = Used(hdr)
  BY <1>1, <1>4, UsedIsDistance DEF StreamInv, Distance
<1>8. Boundary(Unread, Used(hdr), Used(hdr))
  BY StreamTypes DEF Boundary
<1>9. AtHeader(Unread, Used(hdr), nextId)'
  BY <1>1, <1>2, <1>3, <1>4, <1>6, <1>7, <1>8
     DEF AtHeader, AtIdle, StreamInv, Region
<1>. QED
  BY <1>1, <1>3, <1>6, <1>9 DEF StreamInv, Reader

LEMMA ReadHeaderHighInv ==
  ASSUME TypeInv, StreamInv, ReadHeaderHigh, UNCHANGED biosVars, ~torn'
  PROVE  StreamInv'
<1>. DEFINE w == MixedPtr(call.low, hdr.biosWritePtr)
<1>1. /\ UNCHANGED <<hdr, cells, call, delivered>>
      /\ pc = "header" /\ pc' = "check"
      /\ cached' = [hdr EXCEPT !.biosWritePtr = w]
      /\ w \in {call.low, hdr.biosWritePtr}
  BY DEF ReadHeaderHigh
<1>. HIDE DEF w
<1>2. AtHeader(Unread, Used(hdr), nextId)
  BY <1>1 DEF StreamInv, Reader
<1>3. /\ Unread' = Unread /\ Used(hdr)' = Used(hdr) /\ nextId' = nextId
      /\ Region' /\ Appending' /\ Stream(Unread, Used(hdr), nextId)'
  BY <1>1, SameStream
<1>4. Got' = Got
  BY <1>1 DEF Got
<1>5. InOrder' /\ Current' = Current
  BY <1>4, SameGot DEF StreamInv
<1>6. /\ cached'.biosWritePtr = w /\ cached'.bmcReadPtr = hdr.bmcReadPtr
      /\ cached'.queueSize = hdr.queueSize
      /\ cached'.ueRegionSize = hdr.ueRegionSize
  BY <1>1 DEF TypeInv, TypeOK, Header
<1>7. Boundary(Unread, Used(hdr), Distance(hdr.bmcReadPtr, w)) /\ w \in Index
  <2>1. CASE w = call.low
    BY <2>1, <1>2 DEF AtHeader
  <2>2. CASE w = hdr.biosWritePtr
    <3>1. Boundary(Unread, Used(hdr), Used(hdr))
      BY StreamTypes DEF Boundary
    <3>. QED
      BY <2>2, <3>1, UsedIsDistance DEF StreamInv, Region
  <2>. QED
    BY <1>1, <2>1, <2>2
<1>8. CacheInStream(Unread, Used(hdr))'
  <2>1. Rest' = Distance(hdr.bmcReadPtr, w)
    BY <1>1, <1>6 DEF Rest, Distance
  <2>2. Boundary(Unread', Used(hdr)', Rest')
    BY <1>3, <1>7, <2>1
  <2>. QED
    BY <1>1, <1>6, <1>7, <2>2 DEF CacheInStream, SizesMatch, StreamInv, Region
<1>9. AtCheck(Unread, Used(hdr), nextId)'
  BY <1>1, <1>2, <1>3, <1>5, <1>8 DEF AtCheck, AtHeader
<1>. QED
  BY <1>1, <1>3, <1>5, <1>9 DEF StreamInv, Reader

(* The cached pointers are always accepted.                                *)
LEMMA CacheAccepted ==
  ASSUME NEW u, NEW n, CacheInStream(u, n), Region
  PROVE  PointersValid(cached)
BY MaxOffsetType DEF CacheInStream, Region, PointersValid

LEMMA CheckFindsNothingInv ==
  ASSUME TypeInv, StreamInv, CheckFindsNothing, UNCHANGED biosVars
  PROVE  StreamInv'
<1>1. /\ UNCHANGED <<hdr, cells, cached, delivered>>
      /\ pc = "check" /\ pc' = "idle" /\ call' = NoCall
  BY DEF CheckFindsNothing
<1>2. AtCheck(Unread, Used(hdr), nextId)
  BY <1>1 DEF StreamInv, Reader
<1>3. /\ Unread' = Unread /\ Used(hdr)' = Used(hdr) /\ nextId' = nextId
      /\ Region' /\ Appending' /\ Stream(Unread, Used(hdr), nextId)'
  BY <1>1, SameStream
<1>4. Got' = Got
  BY <1>1, <1>2, NoEntries DEF Got, AtCheck
<1>5. InOrder' /\ Current' = Current
  BY <1>4, SameGot DEF StreamInv
<1>6. AtIdle(Unread, Used(hdr), nextId)'
  BY <1>1, <1>2, <1>3, <1>5 DEF AtIdle, AtCheck
<1>. QED
  BY <1>1, <1>3, <1>5, <1>6 DEF StreamInv, Reader

LEMMA CheckFindsEntriesInv ==
  ASSUME TypeInv, StreamInv, CheckFindsEntries, UNCHANGED biosVars
  PROVE  StreamInv'
<1>1. /\ UNCHANGED <<hdr, cells, cached, delivered>>
      /\ pc = "check" /\ pc' = "loop"
      /\ cached.biosWritePtr # cached.bmcReadPtr
      /\ call' = [NoCall EXCEPT !.bytesToRead =
                    BytesToRead(cached.bmcReadPtr, cached.biosWritePtr)]
  BY DEF CheckFindsEntries
<1>2. AtCheck(Unread, Used(hdr), nextId)
  BY <1>1 DEF StreamInv, Reader
<1>3. /\ Unread' = Unread /\ Used(hdr)' = Used(hdr) /\ nextId' = nextId
      /\ Region' /\ Appending' /\ Stream(Unread, Used(hdr), nextId)'
  BY <1>1, SameStream
<1>4. /\ call'.entryPairs = <<>> /\ call'.byteRead = 0
      /\ call'.bytesToRead = BytesToRead(cached.bmcReadPtr, cached.biosWritePtr)
  BY <1>1 DEF NoCall
<1>5. Got' = Got
  BY <1>1, <1>2, <1>4 DEF Got, AtCheck
<1>6. InOrder' /\ Current' = Current
  BY <1>5, SameGot DEF StreamInv
<1>7. Rest' = Rest
  BY <1>1 DEF Rest, Distance
<1>8. CacheInStream(Unread, Used(hdr))'
  BY <1>1, <1>2, <1>3, <1>7 DEF AtCheck, CacheInStream, SizesMatch
<1>9. call'.byteRead + Rest' = call'.bytesToRead
  <2>1. hdr.bmcReadPtr \in Index /\ cached.biosWritePtr \in Index
        /\ cached.bmcReadPtr = hdr.bmcReadPtr
    BY <1>2 DEF AtCheck, CacheInStream, StreamInv, Region
  <2>2. BytesToRead(cached.bmcReadPtr, cached.biosWritePtr) = Rest
    BY <1>1, <2>1, BytesToReadIsDistance DEF Rest
  <2>3. Rest \in 0 .. MaxOffset - 1
    BY <2>1, DistanceRange DEF Rest
  <2>. QED
    BY <1>4, <1>7, <2>2, <2>3
<1>10. AtLoop(Unread, Used(hdr), nextId)'
  BY <1>1, <1>2, <1>3, <1>6, <1>8, <1>9 DEF AtLoop, AtCheck
<1>. QED
  BY <1>1, <1>3, <1>6, <1>10 DEF StreamInv, Reader

LEMMA ReadEntryHeaderInv ==
  ASSUME TypeInv, StreamInv, ReadEntryHeader, UNCHANGED biosVars
  PROVE  StreamInv'
<1>1. /\ UNCHANGED <<hdr, cells, cached, delivered>>
      /\ pc = "loop" /\ pc' = "toEnd"
      /\ call.byteRead < call.bytesToRead
      /\ call' = [call EXCEPT !.reading = "header", !.length = EntryHeaderSize,
                              !.bytes = <<>>]
  BY DEF ReadEntryHeader
<1>2. AtLoop(Unread, Used(hdr), nextId)
  BY <1>1 DEF StreamInv, Reader
<1>3. /\ Unread' = Unread /\ Used(hdr)' = Used(hdr) /\ nextId' = nextId
      /\ Region' /\ Appending' /\ Stream(Unread, Used(hdr), nextId)'
  BY <1>1, SameStream
<1>4. /\ call'.entryPairs = call.entryPairs /\ call'.byteRead = call.byteRead
      /\ call'.bytesToRead = call.bytesToRead
      /\ call'.reading = "header" /\ call'.length = EntryHeaderSize
  BY <1>1 DEF TypeInv, TypeOK, Call
<1>5. Got' = Got
  BY <1>1, <1>4 DEF Got
<1>6. InOrder' /\ Current' = Current
  BY <1>5, SameGot DEF StreamInv
<1>7. Rest' = Rest
  BY <1>1 DEF Rest, Distance
<1>8. CacheInStream(Unread, Used(hdr))'
  BY <1>1, <1>2, <1>3, <1>7 DEF AtLoop, CacheInStream, SizesMatch
<1>9. /\ Rest \in Nat /\ Rest > 0 /\ Used(hdr) > 0
      /\ Boundary(Unread, Used(hdr), Rest)
      /\ call.byteRead + Rest = call.bytesToRead
  <2>1. /\ Boundary(Unread, Used(hdr), Rest)
        /\ call.byteRead + Rest = call.bytesToRead
    BY <1>2 DEF AtLoop, CacheInStream
  <2>2. Rest \in 0 .. Used(hdr) /\ Used(hdr) \in Nat
    BY <2>1, StreamTypes DEF Boundary
  <2>3. call.byteRead \in Nat /\ call.bytesToRead \in Nat
    BY DEF TypeInv, TypeOK, Call
  <2>. QED
    BY <1>1, <2>1, <2>2, <2>3
<1>10. PICK s \in Sizes : Ahead(Unread, Used(hdr), nextId, Rest, Current, 0, s)
  <2>1. Used(hdr) \in Nat /\ nextId \in Nat /\ Current \in Nat
    BY StreamTypes
  <2>2. /\ Stream(Unread, Used(hdr), nextId)
        /\ Starts(Unread, Used(hdr), nextId, 0, Current)
    BY <1>2 DEF StreamInv, AtLoop
  <2>. QED
    BY <1>9, <2>1, <2>2, StreamHead
<1>11. call'.byteRead + 0 + Rest' = call'.bytesToRead
  <2>1. call.byteRead \in Nat
    BY DEF TypeInv, TypeOK, Call
  <2>. QED
    BY <1>4, <1>7, <1>9, <2>1
<1>12. AsksHeader(Unread, Used(hdr), nextId, s)'
  BY <1>3, <1>4, <1>6, <1>7, <1>10, <1>11 DEF AsksHeader, ToRead
<1>13. InRead(Unread, Used(hdr), nextId)'
  BY <1>8, <1>10, <1>12 DEF InRead
<1>. QED
  BY <1>1, <1>3, <1>6, <1>13 DEF StreamInv, Reader

(* Copying bytes does not change what was asked for.                       *)
LEMMA InReadKept ==
  ASSUME TypeInv, StreamInv, InRead(Unread, Used(hdr), nextId), NEW bytes,
         UNCHANGED <<hdr, cells, cached, delivered, biosVars>>,
         call' = [call EXCEPT !.bytes = bytes]
  PROVE  InRead(Unread, Used(hdr), nextId)' /\ InOrder' /\ call'.bytes = bytes
<1>1. /\ Unread' = Unread /\ Used(hdr)' = Used(hdr) /\ nextId' = nextId
  BY SameStream
<1>2. /\ call'.entryPairs = call.entryPairs /\ call'.byteRead = call.byteRead
      /\ call'.bytesToRead = call.bytesToRead /\ call'.reading = call.reading
      /\ call'.length = call.length /\ call'.entryHeader = call.entryHeader
      /\ call'.bytes = bytes
  BY DEF TypeInv, TypeOK, Call
<1>3. Got' = Got
  BY <1>2 DEF Got
<1>4. InOrder' /\ Current' = Current
  BY <1>3, SameGot DEF StreamInv
<1>5. Rest' = Rest
  BY DEF Rest, Distance
<1>6. CacheInStream(Unread, Used(hdr))'
  BY <1>1, <1>5 DEF InRead, CacheInStream, SizesMatch
<1>7. \A from, s : ToRead(Unread, Used(hdr), nextId, from, s)
                     => ToRead(Unread, Used(hdr), nextId, from, s)'
  BY <1>1, <1>2, <1>4, <1>5 DEF ToRead
<1>8. \A s : AsksHeader(Unread, Used(hdr), nextId, s)
               => AsksHeader(Unread, Used(hdr), nextId, s)'
  BY <1>2, <1>7 DEF AsksHeader
<1>9. \A s : AsksPayload(Unread, Used(hdr), nextId, s)
               => AsksPayload(Unread, Used(hdr), nextId, s)'
  BY <1>2, <1>4, <1>7 DEF AsksPayload
<1>. QED
  BY <1>2, <1>4, <1>6, <1>8, <1>9 DEF InRead

(* What wraparoundRead reads lies within the queue and is unread.          *)
LEMMA ReadLocation ==
  ASSUME TypeInv, StreamInv, InRead(Unread, Used(hdr), nextId)
  PROVE  /\ cached.bmcReadPtr = hdr.bmcReadPtr /\ hdr.bmcReadPtr \in Index
         /\ call.length \in Nat /\ call.length <= Rest /\ call.length < MaxOffset
         /\ Rest \in 0 .. Used(hdr)
<1>1. Used(hdr) \in Nat /\ Used(hdr) < MaxOffset /\ hdr.bmcReadPtr \in Index
  BY StreamTypes
<1>2. /\ call.length \in Nat /\ call.length <= Rest
      /\ Rest \in 0 .. Used(hdr)
  BY <1>1, AskedIsUnread
<1>3. call.length < MaxOffset
  BY <1>1, <1>2, MaxOffsetType
<1>. QED
  BY <1>1, <1>2, <1>3 DEF InRead, CacheInStream

(* The offsets of the bytes before and after the queue's end.              *)
LEMMA ReadOffsets ==
  ASSUME NEW r \in Index, NEW len \in Nat, len < MaxOffset
  PROVE  /\ NumBytesTillQueueEnd(r, len) \in 0 .. len
         /\ NumWraparoundBytes(r, len) \in 0 .. len
         /\ NumBytesTillQueueEnd(r, len) + NumWraparoundBytes(r, len) = len
         /\ \A i \in 1 .. NumBytesTillQueueEnd(r, len) : Wrap(r + (i - 1)) = r + i - 1
         /\ \A i \in NumBytesTillQueueEnd(r, len) + 1 .. len :
              Wrap(r + (i - 1)) = 0 + (i - NumBytesTillQueueEnd(r, len)) - 1
BY MaxOffsetType DEF NumBytesTillQueueEnd, NumWraparoundBytes, Wrap

LEMMA ReadToQueueEndInv ==
  ASSUME TypeInv, StreamInv, ReadToQueueEnd, UNCHANGED biosVars
  PROVE  StreamInv'
<1>. DEFINE r == hdr.bmcReadPtr
            m == NumBytesTillQueueEnd(r, call.length)
<1>1. /\ UNCHANGED <<hdr, cells, cached, delivered>>
      /\ pc = "toEnd" /\ pc' \in {"wrapped", "update"}
  BY DEF ReadToQueueEnd
<1>2. InRead(Unread, Used(hdr), nextId)
  BY <1>1 DEF StreamInv, Reader
<1>3. /\ Unread' = Unread /\ Used(hdr)' = Used(hdr) /\ nextId' = nextId
      /\ Region' /\ Appending' /\ Stream(Unread, Used(hdr), nextId)'
  BY <1>1, SameStream
<1>4. /\ cached.bmcReadPtr = r /\ r \in Index
      /\ call.length \in Nat /\ call.length < MaxOffset
      /\ call.length <= Rest /\ Rest \in 0 .. Used(hdr)
      /\ Used(hdr) \in Nat
  BY <1>2, ReadLocation, StreamTypes
<1>5. call' = [call EXCEPT !.bytes = CellsAt(r, m)]
  BY <1>4 DEF ReadToQueueEnd
<1>6. /\ InRead(Unread, Used(hdr), nextId)' /\ InOrder'
      /\ call'.bytes = CellsAt(r, m)
  BY <1>1, <1>2, <1>5, InReadKept
<1>7. /\ m \in 0 .. call.length
      /\ \A i \in 1 .. m : Wrap(r + (i - 1)) = r + i - 1
  BY <1>4, ReadOffsets
<1>. HIDE DEF m
<1>8. /\ Len(CellsAt(r, m)) = m
      /\ \A i \in 1 .. m : CellsAt(r, m)[i] = cells[r + i - 1]
  <2>1. m \in Nat
    BY <1>4, <1>7
  <2>. QED
    BY <2>1 DEF CellsAt
<1>9. ASSUME NEW i \in 1 .. m
      PROVE  CellsAt(r, m)[i] = Unread[i - 1]
  <2>1. i - 1 \in 0 .. Used(hdr) - 1
    BY <1>4, <1>7
  <2>2. Unread[i - 1] = cells[Wrap(r + (i - 1))]
    BY <2>1 DEF Unread
  <2>. QED
    BY <1>7, <1>8, <2>2
<1>10. HasRead(Unread)'
  BY <1>3, <1>6, <1>8, <1>9 DEF HasRead
<1>. QED
  BY <1>1, <1>3, <1>6, <1>10 DEF StreamInv, Reader

(* Two reads make one.                                                     *)
LEMMA ConcatElements ==
  ASSUME NEW s \in Seq(Cell), NEW t \in Seq(Cell)
  PROVE  /\ Len(s \o t) = Len(s) + Len(t)
         /\ \A i \in 1 .. Len(s) : (s \o t)[i] = s[i]
         /\ \A i \in Len(s) + 1 .. Len(s) + Len(t) : (s \o t)[i] = t[i - Len(s)]
OBVIOUS

LEMMA ReadWrappedInv ==
  ASSUME TypeInv, StreamInv, ReadWrapped, UNCHANGED biosVars
  PROVE  StreamInv'
<1>. DEFINE r == hdr.bmcReadPtr
            k == NumBytesTillQueueEnd(r, call.length)
            m == NumWraparoundBytes(r, call.length)
<1>1. /\ UNCHANGED <<hdr, cells, cached, delivered>>
      /\ pc = "wrapped" /\ pc' = "update"
  BY DEF ReadWrapped
<1>2. InRead(Unread, Used(hdr), nextId) /\ HasRead(Unread)
  BY <1>1 DEF StreamInv, Reader
<1>3. /\ Unread' = Unread /\ Used(hdr)' = Used(hdr) /\ nextId' = nextId
      /\ Region' /\ Appending' /\ Stream(Unread, Used(hdr), nextId)'
  BY <1>1, SameStream
<1>4. /\ cached.bmcReadPtr = r /\ r \in Index
      /\ call.length \in Nat /\ call.length < MaxOffset
      /\ call.length <= Rest /\ Rest \in 0 .. Used(hdr)
      /\ Used(hdr) \in Nat
  BY <1>2, ReadLocation, StreamTypes
<1>5. /\ call.bytes \in Seq(Cell) /\ Len(call.bytes) = k
  BY <1>1, <1>4 DEF TypeInv, TypeOK, Call, ReadIsComplete
<1>6. call' = [call EXCEPT !.bytes = call.bytes \o CellsAt(0, m)]
  BY <1>4 DEF ReadWrapped, TypeInv, TypeOK, Call
<1>7. /\ InRead(Unread, Used(hdr), nextId)' /\ InOrder'
      /\ call'.bytes = call.bytes \o CellsAt(0, m)
  BY <1>1, <1>2, <1>6, InReadKept
<1>8. /\ k \in 0 .. call.length /\ m \in 0 .. call.length
      /\ k + m = call.length
      /\ \A i \in k + 1 .. call.length : Wrap(r + (i - 1)) = 0 + (i - k) - 1
  BY <1>4, ReadOffsets
<1>. HIDE DEF k, m
<1>9. /\ CellsAt(0, m) \in Seq(Cell) /\ Len(CellsAt(0, m)) = m
      /\ \A i \in 1 .. m : CellsAt(0, m)[i] = cells[0 + i - 1]
  <2>1. m \in Nat /\ 0 + m <= MaxOffset
    BY <1>4, <1>8, MaxOffsetType
  <2>2. CellsAt(0, m) \in Seq(Cell) /\ Len(CellsAt(0, m)) = m
    BY <2>1, CellsAtType DEF TypeInv, TypeOK
  <2>. QED
    BY <2>2 DEF CellsAt
<1>10. /\ Len(call'.bytes) = call.length
       /\ \A i \in 1 .. k : call'.bytes[i] = call.bytes[i]
       /\ \A i \in k + 1 .. call.length : call'.bytes[i] = CellsAt(0, m)[i - k]
  <2>1. CellsAt(0, m) \in Seq(Cell) /\ Len(CellsAt(0, m)) = m
    BY <1>9
  <2>2. /\ Len(call'.bytes) = Len(call.bytes) + Len(CellsAt(0, m))
        /\ \A i \in 1 .. Len(call.bytes) : call'.bytes[i] = call.bytes[i]
        /\ \A i \in Len(call.bytes) + 1 .. Len(call.bytes) + Len(CellsAt(0, m)) :
             call'.bytes[i] = CellsAt(0, m)[i - Len(call.bytes)]
    <3>. SUFFICES /\ Len(call.bytes \o CellsAt(0, m))
                        = Len(call.bytes) + Len(CellsAt(0, m))
                  /\ \A i \in 1 .. Len(call.bytes) :
                       (call.bytes \o CellsAt(0, m))[i] = call.bytes[i]
                  /\ \A i \in Len(call.bytes) + 1
                              .. Len(call.bytes) + Len(CellsAt(0, m)) :
                       (call.bytes \o CellsAt(0, m))[i]
                         = CellsAt(0, m)[i - Len(call.bytes)]
      BY <1>7, Zenon
    <3>. QED
      BY <1>5, <2>1, ConcatElements, Zenon
  <2>. QED
    BY <1>5, <1>8, <2>1, <2>2, Zenon
<1>11. ASSUME NEW i \in 1 .. call.length
       PROVE  call'.bytes[i] = Unread[i - 1]
  <2>1. CASE i <= k
    <3>1. i \in 1 .. k
      BY <1>8, <2>1
    <3>. QED
      BY <1>2, <1>5, <1>10, <3>1 DEF HasRead
  <2>2. CASE i > k
    <3>1. i \in k + 1 .. call.length /\ i - k \in 1 .. m
      BY <1>4, <1>8, <2>2
    <3>2. call'.bytes[i] = cells[0 + (i - k) - 1]
      BY <1>9, <1>10, <3>1
    <3>3. i - 1 \in 0 .. Used(hdr) - 1
      BY <1>4
    <3>4. Unread[i - 1] = cells[Wrap(r + (i - 1))]
      BY <3>3 DEF Unread
    <3>. QED
      BY <1>8, <3>1, <3>2, <3>4
  <2>3. k \in Int
    BY <1>4, <1>8
  <2>. QED
    BY <2>1, <2>2, <2>3
<1>12. HasRead(Unread)'
  BY <1>3, <1>10, <1>11 DEF HasRead
<1>. QED
  BY <1>1, <1>3, <1>7, <1>12 DEF StreamInv, Reader

(* Moving the read pointer over bytes that are unread drops them from the  *)
(* stream, and gives their space to the BIOS.                              *)
LEMMA ReadIsDropped ==
  ASSUME TypeInv, StreamInv, UNCHANGED <<cells, biosVars>>,
         NEW m \in Nat, m <= Used(hdr),
         hdr' = [hdr EXCEPT !.bmcReadPtr = Wrap(hdr.bmcReadPtr + m)]
  PROVE  /\ Used(hdr)' = Used(hdr) - m
         /\ Behind(Unread, Used(hdr), Unread', m)
         /\ Region' /\ Appending' /\ Stream(Unread, Used(hdr), nextId)'
<1>. DEFINE r == hdr.bmcReadPtr
            w == hdr.biosWritePtr
            n == Used(hdr)
<1>1. /\ n \in Nat /\ n < MaxOffset /\ n = Distance(r, w)
      /\ r \in Index /\ w \in Index /\ m <= n
  BY StreamTypes, UsedIsDistance DEF StreamInv
<1>2. /\ hdr'.bmcReadPtr = Wrap(r + m) /\ hdr'.biosWritePtr = w
      /\ hdr'.queueSize = hdr.queueSize /\ hdr'.ueRegionSize = hdr.ueRegionSize
  BY DEF TypeInv, TypeOK, Header
<1>3. Wrap(r + m) \in Index
  <2>. HIDE DEF n
  <2>1. m \in 0 .. MaxOffset
    BY <1>1, MaxOffsetType
  <2>. QED
    BY <1>1, <2>1, WrapRange
<1>4. Region'
  BY <1>1, <1>2, <1>3 DEF StreamInv, Region, SizesMatch
<1>5. Used(hdr)' = n - m
  <2>1. Used(hdr)' = Distance(hdr'.bmcReadPtr, hdr'.biosWritePtr)
    BY DEF Used, Distance
  <2>2. Distance(Wrap(r + m), w) = Distance(r, w) - m
    BY <1>1, DistanceAfterRead
  <2>. QED
    BY <1>1, <1>2, <2>1, <2>2
<1>6. ASSUME NEW k \in 0 .. n - m - 1
      PROVE  Unread'[k] = Unread[k + m]
  <2>1. k + m \in 0 .. n - 1 /\ k \in Nat /\ m + k < MaxOffset
    BY <1>1, MaxOffsetType
  <2>2. Unread'[k] = cells[Wrap(Wrap(r + m) + k)]
    <3>1. k \in 0 .. Used(hdr)' - 1
      BY <1>1, <1>5, <2>1
    <3>. QED
      BY <1>2, <3>1 DEF Unread
  <2>3. Unread[k + m] = cells[Wrap(r + (k + m))]
    BY <2>1 DEF Unread
  <2>4. Wrap(Wrap(r + m) + k) = Wrap(r + m + k)
    BY <1>1, <2>1, WrapTwice
  <2>5. r + m + k = r + (k + m)
    BY <1>1, <2>1, MaxOffsetType
  <2>. QED
    BY <2>2, <2>3, <2>4, <2>5
<1>7. Behind(Unread, n, Unread', m)
  BY <1>6 DEF Behind
<1>8. Stream(Unread', n - m, nextId)
  <2>1. m \in 0 .. n /\ nextId \in Nat
    BY <1>1, StreamTypes
  <2>. QED
    BY <1>1, <1>7, <2>1, StreamDrop DEF StreamInv
<1>9. Stream(Unread, Used(hdr), nextId)'
  BY <1>5, <1>8 DEF biosVars
<1>10. Appending'
  <2>1. UNCHANGED <<bios, nextId, cells>>
    BY DEF biosVars
  <2>2. ASSUME bios.step # "idle"
        PROVE  /\ bios.at = hdr.biosWritePtr
               /\ bios.size \in Sizes
               /\ n - m + EntryHeaderSize + bios.size < MaxOffset
    <3>1. /\ bios.at = hdr.biosWritePtr
          /\ bios.size \in Sizes
          /\ n + EntryHeaderSize + bios.size < MaxOffset
      BY <2>2 DEF StreamInv, Appending
    <3>2. bios.size \in Nat /\ EntryHeaderSize \in Nat
      BY <3>1, EntryFits
    <3>. HIDE DEF n
    <3>3. n - m + EntryHeaderSize + bios.size < MaxOffset
      BY <1>1, <3>1, <3>2, MaxOffsetType
    <3>. QED
      BY <3>1, <3>3
  <2>. QED
    BY <1>2, <1>5, <2>1, <2>2 DEF StreamInv, Appending
<1>. QED
  BY <1>4, <1>5, <1>7, <1>9, <1>10

LEMMA UpdateReadPtrInv ==
  ASSUME TypeInv, StreamInv, UpdateReadPtr, UNCHANGED biosVars
  PROVE  StreamInv' /\ call.length <= Used(hdr)
<1>. DEFINE m == call.length
            n == Used(hdr)
<1>1. /\ UNCHANGED <<cells, call, delivered>>
      /\ pc = "update"
      /\ pc' = IF call.reading = "header" THEN "parse" ELSE "checksum"
      /\ hdr' = [hdr EXCEPT !.bmcReadPtr =
                   UpdatedReadPtr(cached.bmcReadPtr, call.length)]
      /\ cached' = [cached EXCEPT !.bmcReadPtr =
                   UpdatedReadPtr(cached.bmcReadPtr, call.length)]
  BY DEF UpdateReadPtr
<1>2. InRead(Unread, n, nextId) /\ HasRead(Unread)
  BY <1>1 DEF StreamInv, Reader
<1>3. /\ cached.bmcReadPtr = hdr.bmcReadPtr /\ hdr.bmcReadPtr \in Index
      /\ m \in Nat /\ m < MaxOffset /\ m <= Rest /\ Rest \in 0 .. n
      /\ n \in Nat
  BY <1>2, ReadLocation, StreamTypes
<1>4. UpdatedReadPtr(cached.bmcReadPtr, call.length) = Wrap(hdr.bmcReadPtr + m)
  BY <1>3, UpdatedReadPtrWraps
<1>5. m <= n /\ m \in 0 .. n
  <2>. HIDE DEF m, n
  <2>. QED
    BY <1>3
<1>6. /\ Used(hdr)' = n - m
      /\ Behind(Unread, n, Unread', m)
      /\ Region' /\ Appending' /\ Stream(Unread, Used(hdr), nextId)'
  BY <1>1, <1>3, <1>4, <1>5, ReadIsDropped
<1>7. nextId' = nextId /\ Got' = Got
  BY <1>1 DEF biosVars, Got
<1>8. InOrder' /\ Current' = Current
  BY <1>7, SameGot DEF StreamInv
<1>9. /\ hdr'.bmcReadPtr = Wrap(hdr.bmcReadPtr + m)
      /\ cached'.bmcReadPtr = Wrap(hdr.bmcReadPtr + m)
      /\ cached'.biosWritePtr = cached.biosWritePtr
      /\ cached'.queueSize = cached.queueSize
      /\ cached'.ueRegionSize = cached.ueRegionSize
  BY <1>1, <1>4 DEF TypeInv, TypeOK, Header
<1>. m' = m
  BY <1>1
<1>10. Rest' = Rest - m
  <2>1. cached.biosWritePtr \in Index
    BY <1>2 DEF InRead, CacheInStream
  <2>2. m <= Distance(hdr.bmcReadPtr, cached.biosWritePtr)
    BY <1>3 DEF Rest
  <2>3. Distance(Wrap(hdr.bmcReadPtr + m), cached.biosWritePtr)
          = Distance(hdr.bmcReadPtr, cached.biosWritePtr) - m
    BY <1>3, <2>1, <2>2, DistanceAfterRead
  <2>4. Rest' = Distance(hdr'.bmcReadPtr, cached'.biosWritePtr)
    BY DEF Rest, Distance
  <2>. QED
    BY <1>9, <2>3, <2>4 DEF Rest
<1>. HIDE DEF m, n
<1>11. CacheInStream(Unread, Used(hdr))'
  <2>1. Boundary(Unread, n, Rest)
    BY <1>2 DEF InRead, CacheInStream
  <2>2. Rest \in Nat
    BY <1>3
  <2>3. Boundary(Unread', n - m, Rest - m)
    BY <1>3, <1>5, <1>6, <2>1, <2>2, BoundaryDrop
  <2>4. Boundary(Unread', Used(hdr)', Rest')
    BY <1>6, <1>10, <2>3
  <2>5. SizesMatch(cached)' /\ cached.biosWritePtr \in Index
    BY <1>2, <1>9 DEF InRead, CacheInStream, SizesMatch
  <2>. QED
    BY <1>9, <2>4, <2>5 DEF CacheInStream
<1>12. ASSUME NEW from \in Nat, NEW s \in Sizes,
              ToRead(Unread, n, nextId, from, s), from + m <= EntryHeaderSize + s
       PROVE  ToRead(Unread, Used(hdr), nextId, from + m, s)'
  <2>1. /\ Ahead(Unread, n, nextId, Rest, Current, from, s)
        /\ call.byteRead + from + Rest = call.bytesToRead
    BY <1>12 DEF ToRead
  <2>2. Ahead(Unread', n - m, nextId, Rest - m, Current, from + m, s)
    BY <1>3, <1>5, <1>6, <1>12, <2>1, AheadDrop
  <2>3. Ahead(Unread', Used(hdr)', nextId', Rest', Current', from + m, s)
    BY <1>6, <1>7, <1>8, <1>10, <2>2
  <2>4. call'.byteRead + (from + m) + Rest' = call'.bytesToRead
    <3>1. call.byteRead \in Nat /\ Rest \in Nat
      BY <1>3 DEF TypeInv, TypeOK, Call
    <3>. QED
      BY <1>1, <1>3, <1>10, <2>1, <3>1
  <2>. QED
    BY <2>3, <2>4 DEF ToRead
<1>13. ASSUME NEW from \in Nat, NEW s \in Sizes,
              ToRead(Unread, n, nextId, from, s), from + m <= EntryHeaderSize + s
       PROVE  \A i \in 1 .. m : call.bytes[i] = EntryCell(Current, from + (i - 1), s)
  <2>1. \A j \in 0 .. EntryHeaderSize + s - from - 1 :
          Unread[j] = EntryCell(Current, from + j, s)
    BY <1>13 DEF ToRead, Ahead
  <2>2. Len(call.bytes) = m
    BY <1>1 DEF TypeInv, ReadIsComplete, m
  <2>3. ASSUME NEW i \in 1 .. m
        PROVE  call.bytes[i] = EntryCell(Current, from + (i - 1), s)
    <3>1. s \in Nat /\ EntryHeaderSize \in Nat
      BY EntryFits
    <3>2. i - 1 \in 0 .. EntryHeaderSize + s - from - 1
      BY <1>3, <1>13, <3>1
    <3>3. call.bytes[i] = Unread[i - 1]
      BY <1>2, <2>2 DEF HasRead
    <3>. QED
      BY <2>1, <3>2, <3>3
  <2>. QED
    BY <2>3
<1>14. PICK s \in Sizes : \/ AsksHeader(Unread, n, nextId, s)
                          \/ AsksPayload(Unread, n, nextId, s)
  BY <1>2 DEF InRead
<1>15. s \in Nat /\ EntryHeaderSize \in Nat
  BY EntryFits
<1>16. CASE AsksHeader(Unread, n, nextId, s)
  <2>1. /\ call.reading = "header" /\ m = EntryHeaderSize
        /\ ToRead(Unread, n, nextId, 0, s)
    BY <1>16 DEF AsksHeader, m
  <2>2. 0 + m <= EntryHeaderSize + s /\ 0 + m = EntryHeaderSize
    BY <1>15, <2>1
  <2>3. /\ ToRead(Unread, Used(hdr), nextId, 0 + m, s)'
        /\ \A i \in 1 .. m : call.bytes[i] = EntryCell(Current, 0 + (i - 1), s)
    BY <1>12, <1>13, <2>1, <2>2
  <2>4. ToRead(Unread, Used(hdr), nextId, EntryHeaderSize, s)'
    BY <2>2, <2>3
  <2>5. \A i \in 1 .. EntryHeaderSize : call'.bytes[i] = EntryCell(Current', i - 1, s)
    <3>1. \A i \in 1 .. EntryHeaderSize : 0 + (i - 1) = i - 1
      BY <1>15
    <3>. QED
      BY <1>1, <1>8, <2>1, <2>3, <3>1
  <2>6. AtParse(Unread, Used(hdr), nextId)'
    BY <1>11, <2>4, <2>5 DEF AtParse
  <2>7. pc' = "parse"
    BY <1>1, <2>1
  <2>. QED
    BY <1>5, <1>6, <1>8, <2>6, <2>7 DEF StreamInv, Reader, m, n
<1>17. CASE AsksPayload(Unread, n, nextId, s)
  <2>1. /\ call.reading = "payload" /\ m = s
        /\ call.entryHeader = [id |-> Current, size |-> s]
        /\ ToRead(Unread, n, nextId, EntryHeaderSize, s)
    BY <1>17 DEF AsksPayload, m
  <2>2. EntryHeaderSize + m <= EntryHeaderSize + s
    BY <1>15, <2>1
  <2>3. /\ ToRead(Unread, Used(hdr), nextId, EntryHeaderSize + m, s)'
        /\ \A i \in 1 .. m :
             call.bytes[i] = EntryCell(Current, EntryHeaderSize + (i - 1), s)
    BY <1>12, <1>13, <1>15, <2>1, <2>2
  <2>4. call'.length = s
    BY <1>1, <2>1 DEF m
  <2>5. AtChecksum(Unread, Used(hdr), nextId)'
    <3>1. ToRead(Unread, Used(hdr), nextId, EntryHeaderSize + call.length, call.length)'
      BY <2>1, <2>3, <2>4 DEF ToRead
    <3>2. call'.entryHeader = [id |-> Current', size |-> call'.length]
      BY <1>1, <1>8, <2>1, <2>4
    <3>3. \A i \in 1 .. call'.length :
            call'.bytes[i] = EntryCell(Current', EntryHeaderSize + (i - 1), call'.length)
      BY <1>1, <1>8, <2>1, <2>3, <2>4
    <3>4. call'.length \in Sizes
      BY <2>4
    <3>. QED
      BY <1>11, <3>1, <3>2, <3>3, <3>4 DEF AtChecksum
  <2>6. pc' = "checksum"
    BY <1>1, <2>1
  <2>. QED
    BY <1>5, <1>6, <1>8, <2>5, <2>6 DEF StreamInv, Reader, m, n
<1>. QED
  BY <1>14, <1>16, <1>17

(* The header bytes of an entry parse as its header, and its payload       *)
(* matches its checksum.                                                   *)
LEMMA HeaderParses ==
  ASSUME NEW bytes, NEW e \in Nat \ {0}, NEW s \in Sizes,
         \A i \in 1 .. EntryHeaderSize : bytes[i] = EntryCell(e, i - 1, s),
         Len(bytes) = EntryHeaderSize, bytes \in Seq(Cell)
  PROVE  HeadersOf(bytes) = {[id |-> e, size |-> s]}
<1>1. 1 \in 1 .. EntryHeaderSize /\ EntryHeaderSize \in Nat
  BY MaxOffsetType
<1>2. bytes[1].id = e /\ bytes[1].size = s
  <2>1. bytes[1] = EntryCell(e, 1 - 1, s)
    BY <1>1
  <2>. QED
    BY <2>1 DEF EntryCell
<1>3. IntactHeader(bytes)
  BY <1>2 DEF IntactHeader
<1>4. ~ZeroBytes(bytes)
  <2>1. 1 \in DOMAIN bytes
    BY <1>1
  <2>2. bytes[1] # ZeroCell
    BY <1>2 DEF ZeroCell, EntryCell
  <2>. QED
    BY <2>1, <2>2 DEF ZeroBytes
<1>. QED
  BY <1>2, <1>3, <1>4 DEF HeadersOf

LEMMA PayloadMatches ==
  ASSUME NEW bytes, NEW e \in Nat \ {0}, NEW s \in Sizes,
         \A i \in 1 .. s : bytes[i] = EntryCell(e, EntryHeaderSize + i - 1, s)
  PROVE  /\ EntriesOf([id |-> e, size |-> s], bytes) = {e}
         /\ ~ChecksumMayFail([id |-> e, size |-> s], bytes)
<1>1. IntactEntry([id |-> e, size |-> s], bytes)
  BY DEF IntactEntry
<1>. QED
  BY <1>1 DEF EntriesOf, ChecksumMayFail

LEMMA ReadPayloadInv ==
  ASSUME TypeInv, StreamInv, ReadPayload, UNCHANGED biosVars
  PROVE  StreamInv'
<1>1. pc = "parse"
  BY DEF ReadPayload
<1>2. AtParse(Unread, Used(hdr), nextId)
  BY <1>1 DEF StreamInv, Reader
<1>3. PICK s \in Sizes :
        /\ ToRead(Unread, Used(hdr), nextId, EntryHeaderSize, s)
        /\ \A i \in 1 .. EntryHeaderSize :
             call.bytes[i] = EntryCell(Current, i - 1, s)
  BY <1>2 DEF AtParse
<1>4. Current \in Nat \ {0}
  BY StreamTypes
<1>5. HeadersOf(call.bytes) = {[id |-> Current, size |-> s]}
  <2>1. /\ call.bytes \in Seq(Cell) /\ Len(call.bytes) = EntryHeaderSize
    BY <1>1 DEF TypeInv, TypeOK, Call, ReadIsComplete
  <2>. QED
    BY <1>3, <1>4, <2>1, HeaderParses
<1>6. s \in Nat /\ ~(s > MaxOffset)
  BY EntryFits, MaxOffsetType
<1>7. /\ pc' = "toEnd"
      /\ call' = [call EXCEPT !.reading = "payload", !.length = s,
                              !.bytes = <<>>,
                              !.entryHeader = [id |-> Current, size |-> s]]
      /\ UNCHANGED <<hdr, cells, cached, delivered>>
  <2>1. PICK h \in HeadersOf(call.bytes) :
          \/ /\ h.size <= MaxOffset
             /\ pc' = "toEnd"
             /\ call' = [call EXCEPT !.reading = "payload", !.length = h.size,
                                     !.bytes = <<>>, !.entryHeader = h]
             /\ UNCHANGED <<hdr, cells, cached, delivered>>
          \/ h.size > MaxOffset
    BY DEF ReadPayload
  <2>2. h = [id |-> Current, size |-> s] /\ h.size = s
    BY <1>5
  <2>. QED
    BY <1>6, <2>1, <2>2
<1>8. /\ Unread' = Unread /\ Used(hdr)' = Used(hdr) /\ nextId' = nextId
      /\ Region' /\ Appending' /\ Stream(Unread, Used(hdr), nextId)'
  BY <1>7, SameStream
<1>9. /\ call'.entryPairs = call.entryPairs /\ call'.byteRead = call.byteRead
      /\ call'.bytesToRead = call.bytesToRead
      /\ call'.reading = "payload" /\ call'.length = s
      /\ call'.entryHeader = [id |-> Current, size |-> s]
  BY <1>7 DEF TypeInv, TypeOK, Call
<1>10. Got' = Got
  BY <1>7, <1>9 DEF Got
<1>11. InOrder' /\ Current' = Current
  BY <1>10, SameGot DEF StreamInv
<1>12. Rest' = Rest
  BY <1>7 DEF Rest, Distance
<1>13. CacheInStream(Unread, Used(hdr))'
  BY <1>2, <1>7, <1>8, <1>12 DEF AtParse, CacheInStream, SizesMatch
<1>14. AsksPayload(Unread, Used(hdr), nextId, s)'
  BY <1>3, <1>8, <1>9, <1>11, <1>12 DEF AsksPayload, ToRead
<1>15. InRead(Unread, Used(hdr), nextId)'
  BY <1>13, <1>14 DEF InRead
<1>. QED
  BY <1>7, <1>8, <1>11, <1>15 DEF StreamInv, Reader

(* One more entry has been read.                                           *)
LEMMA OneMore ==
  ASSUME NEW d \in Seq(Int), NEW p \in Seq(Int), NEW e \in Int
  PROVE  /\ Len(d \o Append(p, e)) = Len(d \o p) + 1
         /\ \A i \in 1 .. Len(d \o p) : (d \o Append(p, e))[i] = (d \o p)[i]
         /\ (d \o Append(p, e))[Len(d \o p) + 1] = e
         /\ DOMAIN (d \o Append(p, e)) = 1 .. Len(d \o p) + 1
         /\ DOMAIN (d \o p) = 1 .. Len(d \o p) /\ Len(d \o p) \in Nat
OBVIOUS

LEMMA AcceptEntryInv ==
  ASSUME TypeInv, StreamInv, AcceptEntry, UNCHANGED biosVars
  PROVE  StreamInv'
<1>. DEFINE s == call.length
<1>1. /\ pc = "checksum" /\ pc' = "loop"
      /\ UNCHANGED <<hdr, cells, cached, delivered>>
  BY DEF AcceptEntry
<1>2. AtChecksum(Unread, Used(hdr), nextId)
  BY <1>1 DEF StreamInv, Reader
<1>3. /\ s \in Sizes
      /\ call.entryHeader = [id |-> Current, size |-> s]
      /\ ToRead(Unread, Used(hdr), nextId, EntryHeaderSize + s, s)
      /\ \A i \in 1 .. s :
           call.bytes[i] = EntryCell(Current, EntryHeaderSize + i - 1, s)
      /\ CacheInStream(Unread, Used(hdr))
  BY <1>2 DEF AtChecksum
<1>4. Current \in Nat \ {0} /\ Current = Len(Got) + 1
  BY StreamTypes DEF Current
<1>5. EntriesOf(call.entryHeader, call.bytes) = {Current}
  <2>1. EntriesOf([id |-> Current, size |-> call.length], call.bytes) = {Current}
    <3>1. \A i \in 1 .. call.length :
            call.bytes[i] = EntryCell(Current, EntryHeaderSize + i - 1, call.length)
      BY <1>3
    <3>2. call.length \in Sizes
      BY <1>3
    <3>. QED
      BY <1>4, <3>1, <3>2, PayloadMatches
  <2>. QED
    BY <1>3, <2>1
<1>6. call' = [call EXCEPT !.entryPairs = Append(call.entryPairs, Current),
                           !.byteRead = call.byteRead + EntryHeaderSize + s,
                           !.reading = "none", !.length = 0, !.bytes = <<>>,
                           !.entryHeader = NoHeader]
  BY <1>5 DEF AcceptEntry
<1>7. /\ call'.entryPairs = Append(call.entryPairs, Current)
      /\ call'.byteRead = call.byteRead + EntryHeaderSize + s
      /\ call'.bytesToRead = call.bytesToRead
  BY <1>6 DEF TypeInv, TypeOK, Call
<1>8. /\ Unread' = Unread /\ Used(hdr)' = Used(hdr) /\ nextId' = nextId
      /\ Region' /\ Appending' /\ Stream(Unread, Used(hdr), nextId)'
  BY <1>1, SameStream
<1>9. /\ Len(Got') = Len(Got) + 1 /\ Len(Got) \in Nat
      /\ \A i \in 1 .. Len(Got) : Got'[i] = Got[i]
      /\ Got'[Len(Got) + 1] = Current
      /\ DOMAIN Got' = 1 .. Len(Got) + 1 /\ DOMAIN Got = 1 .. Len(Got)
  <2>1. delivered \in Seq(Int) /\ call.entryPairs \in Seq(Int) /\ Current \in Int
    BY <1>4 DEF TypeInv, TypeOK, Call
  <2>2. Got' = delivered \o Append(call.entryPairs, Current)
    BY <1>1, <1>7 DEF Got
  <2>3. Got = delivered \o call.entryPairs
    BY DEF Got
  <2>. QED
    BY <2>1, <2>2, <2>3, OneMore, SMTT(30)
<1>10. Current' = Current + 1
  BY <1>4, <1>9 DEF Current
<1>11. InOrder'
  <2>1. ASSUME NEW i \in 1 .. Len(Got) + 1
        PROVE  Got'[i] = i
    <3>1. CASE i \in 1 .. Len(Got)
      BY <1>9, <3>1 DEF StreamInv, InOrder
    <3>2. CASE i = Len(Got) + 1
      BY <1>4, <1>9, <3>2
    <3>. QED
      BY <1>9, <3>1, <3>2
  <2>. QED
    BY <1>9, <2>1 DEF InOrder
<1>12. Rest' = Rest
  BY <1>1 DEF Rest, Distance
<1>13. CacheInStream(Unread, Used(hdr))'
  BY <1>1, <1>3, <1>8, <1>12 DEF CacheInStream, SizesMatch
<1>. HIDE DEF s
<1>14. Starts(Unread, Used(hdr), nextId, 0, Current + 1)
  <2>1. Starts(Unread, Used(hdr), nextId,
               EntryHeaderSize + s - (EntryHeaderSize + s), Current + 1)
    BY <1>3 DEF ToRead, Ahead
  <2>2. EntryHeaderSize + s - (EntryHeaderSize + s) = 0
    BY <1>3, EntryFits
  <2>. QED
    BY <2>1, <2>2, Zenon
<1>15. call'.byteRead + Rest' = call'.bytesToRead
  <2>1. call.byteRead + (EntryHeaderSize + s) + Rest = call.bytesToRead
    BY <1>3 DEF ToRead
  <2>2. s \in Nat /\ EntryHeaderSize \in Nat
    BY <1>3, EntryFits
  <2>3. call.byteRead \in Nat
    BY DEF TypeInv, TypeOK, Call
  <2>4. Rest \in 0 .. Used(hdr) /\ Used(hdr) \in Nat
    BY <1>3, StreamTypes DEF CacheInStream, Boundary
  <2>. QED
    BY <1>7, <1>12, <2>1, <2>2, <2>3, <2>4
<1>16. AtLoop(Unread, Used(hdr), nextId)'
  BY <1>8, <1>10, <1>13, <1>14, <1>15 DEF AtLoop
<1>. QED
  BY <1>1, <1>8, <1>11, <1>16 DEF StreamInv, Reader

(* The checksum of an intact entry matches.                                *)
LEMMA NeverRejects ==
  ASSUME TypeInv, StreamInv, RejectEntry
  PROVE  FALSE
<1>1. pc = "checksum" /\ ChecksumMayFail(call.entryHeader, call.bytes)
  BY DEF RejectEntry
<1>2. AtChecksum(Unread, Used(hdr), nextId)
  BY <1>1 DEF StreamInv, Reader
<1>3. Current \in Nat \ {0}
  BY StreamTypes
<1>. QED
  BY <1>1, <1>2, <1>3, PayloadMatches DEF AtChecksum

(* When the loop ends, everything up to the cached pointer has been read.  *)
LEMMA EndsAtWritePtr ==
  ASSUME TypeInv, StreamInv, pc = "loop", call.byteRead >= call.bytesToRead
  PROVE  cached.biosWritePtr = cached.bmcReadPtr
<1>1. AtLoop(Unread, Used(hdr), nextId)
  BY DEF StreamInv, Reader
<1>2. /\ Rest \in 0 .. Used(hdr) /\ Used(hdr) \in Nat
      /\ call.byteRead + Rest = call.bytesToRead
      /\ cached.bmcReadPtr = hdr.bmcReadPtr
      /\ cached.biosWritePtr \in Index /\ hdr.bmcReadPtr \in Index
  BY <1>1, StreamTypes DEF AtLoop, CacheInStream, Boundary
<1>3. call.byteRead \in Nat /\ call.bytesToRead \in Nat
  BY DEF TypeInv, TypeOK, Call
<1>4. Rest = 0
  BY <1>2, <1>3
<1>. QED
  BY <1>2, <1>4, DistanceRange DEF Rest

(* Returning the entries moves them from the call to the history.          *)
LEMMA EmptyCallGot ==
  ASSUME NEW d \in Seq(Int)
  PROVE  d \o <<>> = d
OBVIOUS

LEMMA ReturnEntriesInv ==
  ASSUME TypeInv, StreamInv, ReturnEntries, UNCHANGED biosVars
  PROVE  StreamInv' /\ delivered' = Got
<1>1. /\ pc = "loop" /\ pc' = "idle"
      /\ UNCHANGED <<hdr, cells, cached>>
      /\ delivered' = delivered \o call.entryPairs /\ call' = NoCall
  BY DEF ReturnEntries
<1>2. AtLoop(Unread, Used(hdr), nextId)
  BY <1>1 DEF StreamInv, Reader
<1>3. /\ Unread' = Unread /\ Used(hdr)' = Used(hdr) /\ nextId' = nextId
      /\ Region' /\ Appending' /\ Stream(Unread, Used(hdr), nextId)'
  BY <1>1, SameStream
<1>4. delivered' = Got
  BY <1>1 DEF Got
<1>5. Got' = Got
  <2>1. Got' = delivered' \o <<>>
    BY <1>1, NoEntries DEF Got
  <2>. QED
    BY <1>4, <2>1, EmptyCallGot, StreamTypes
<1>6. InOrder' /\ Current' = Current
  BY <1>5, SameGot DEF StreamInv
<1>7. AtIdle(Unread, Used(hdr), nextId)'
  BY <1>1, <1>2, <1>3, <1>6 DEF AtIdle, AtLoop
<1>. QED
  BY <1>1, <1>3, <1>4, <1>6, <1>7 DEF StreamInv, Reader

(* Every step of the BMC keeps the invariant: none of them throws.         *)
LEMMA BmcStreamInv ==
  ASSUME TypeInv, StreamInv, Bmc, ~torn'
  PROVE  StreamInv'
<1>1. UNCHANGED biosVars
  BY DEF Bmc
<1>2. ~CheckFails
  <2>1. SUFFICES ASSUME pc = "check"
                 PROVE  PointersValid(cached)
    BY DEF CheckFails
  <2>2. AtCheck(Unread, Used(hdr), nextId)
    BY <2>1 DEF StreamInv, Reader
  <2>. QED
    BY <2>2, CacheAccepted DEF AtCheck, StreamInv
<1>3. ~PointersDiffer
  BY EndsAtWritePtr DEF PointersDiffer
<1>4. ~InitializeErase /\ ~InitializeHeader
  BY DEF InitializeErase, InitializeHeader, StreamInv, Reader
<1>. QED
  BY <1>1, <1>2, <1>3, <1>4, ReadHeaderLowInv, ReadHeaderHighInv,
     CheckFindsNothingInv, CheckFindsEntriesInv, ReadEntryHeaderInv,
     ReadToQueueEndInv, ReadWrappedInv, UpdateReadPtrInv, ReadPayloadInv,
     AcceptEntryInv, NeverRejects, ReturnEntriesInv
     DEF Bmc

-----------------------------------------------------------------------------
(* The invariant holds, and what it says.                                  *)

LEMMA InitStreamInv == Init => StreamInv
<1>. SUFFICES ASSUME Init
              PROVE  StreamInv
  OBVIOUS
<1>1. /\ hdr.bmcReadPtr = 0 /\ hdr.biosWritePtr = 0 /\ SizesMatch(hdr)
      /\ pc = "idle" /\ call = NoCall /\ bios.step = "idle" /\ nextId = 1
  BY DEF Init, InitialHeader, ZeroHeader, SizesMatch, IdleBios
<1>2. 0 \in Index
  BY MaxOffsetType
<1>3. Used(hdr) = 0
  BY <1>1 DEF Used
<1>4. Got = <<>>
  BY DEF Init, Got, NoCall
<1>5. Len(Got) = 0 /\ DOMAIN Got = {} /\ Current = 1
  BY <1>4 DEF Current
<1>6. Region /\ Appending /\ InOrder
  BY <1>1, <1>2, <1>5 DEF Region, Appending, InOrder
<1>7. Stream(Unread, Used(hdr), nextId)
  BY <1>3 DEF Stream
<1>8. AtIdle(Unread, Used(hdr), nextId)
  BY <1>1, <1>3, <1>5 DEF AtIdle, Starts
<1>. QED
  BY <1>1, <1>6, <1>7, <1>8 DEF StreamInv, Reader

(* Without faults there are no steps but those of the BIOS and the BMC.    *)
LEMMA NoFaults ==
  ASSUME FaultKinds = {}, Next
  PROVE  Bmc \/ Bios
BY DEF Next, Restart, CorruptPointer, CorruptSize, CorruptCell, Fault

(* What broke stays broken.                                                *)
LEMMA TornStays ==
  ASSUME [Next]_vars, torn
  PROVE  torn'
<1>1. CASE Bmc
  BY <1>1 DEF Bmc, ReadHeaderHigh
<1>2. CASE Bios
  BY <1>2 DEF Bios, BiosReserve, BiosWrite, BiosPublish
<1>3. CASE Restart
  BY <1>3 DEF Restart
<1>4. CASE CorruptPointer \/ CorruptSize \/ CorruptCell \/ UNCHANGED vars
  BY <1>4 DEF CorruptPointer, CorruptSize, CorruptCell, vars
<1>. QED
  BY <1>1, <1>2, <1>3, <1>4 DEF Next

LEMMA NextStreamInv ==
  ASSUME FaultKinds = {}, TypeInv, StreamInv, [Next]_vars, ~torn'
  PROVE  StreamInv'
<1>1. CASE Next
  BY <1>1, NoFaults, BmcStreamInv, BiosStreamInv
<1>2. CASE UNCHANGED vars
  <2>1. UNCHANGED <<hdr, cells, bmcVars, biosVars>>
    BY <1>2 DEF vars
  <2>2. /\ Unread' = Unread /\ Used(hdr)' = Used(hdr) /\ nextId' = nextId
        /\ Region' /\ Appending' /\ Stream(Unread, Used(hdr), nextId)'
    BY <2>1, SameStream
  <2>3. Got' = Got
    BY <2>1 DEF Got, bmcVars
  <2>4. InOrder'
    BY <2>3, SameGot DEF StreamInv
  <2>5. Used(hdr) \in Nat
    BY StreamTypes
  <2>6. Grows(Unread, Used(hdr), nextId, Unread', Used(hdr)', nextId')
    BY <2>2, <2>5 DEF Grows
  <2>7. Reader(Unread, Used(hdr), nextId)'
    BY <2>1, <2>6, ReaderGrows DEF StreamInv
  <2>. QED
    BY <2>2, <2>4, <2>7 DEF StreamInv
<1>. QED
  BY <1>1, <1>2

(* Without faults the unread bytes are a stream of whole entries in which  *)
(* readErrorLogs never loses its place, until one side sees a pointer of   *)
(* the other half written.                                                 *)
THEOREM StreamKept ==
  ASSUME FaultKinds = {}
  PROVE  Spec => [](torn \/ StreamInv)
<1>1. TypeInv /\ (torn \/ StreamInv) /\ [Next]_vars => (torn \/ StreamInv)'
  BY NextStreamInv, TornStays
<1>2. Init => torn \/ StreamInv
  BY InitStreamInv
<1>. QED
  BY <1>1, <1>2, TypeCorrect, PTL DEF Spec

(* The entry readErrorLogs is at is at most the next one of the BIOS.      *)
LEMMA CurrentBound ==
  ASSUME TypeInv, StreamInv
  PROVE  Len(Got) < nextId
<1>1. /\ Used(hdr) \in Nat /\ nextId \in Nat /\ Current \in Nat
      /\ Len(Got) \in Nat /\ Current = Len(Got) + 1
  BY StreamTypes DEF Current
<1>2. \A k, e : Starts(Unread, Used(hdr), nextId, k, e) => e <= nextId
  BY <1>1, StartsBound DEF StreamInv
<1>3. \A from, s : ToRead(Unread, Used(hdr), nextId, from, s)
                     => Current + 1 <= nextId
  BY <1>2 DEF ToRead, Ahead
<1>4. Current <= nextId \/ Current + 1 <= nextId
  BY <1>2, <1>3 DEF StreamInv, Reader, AtIdle, AtHeader, AtCheck, AtLoop,
     InRead, AsksHeader, AsksPayload, AtParse, AtChecksum
<1>. QED
  BY <1>1, <1>4

(* While no pointer was seen half written, readErrorLogs returns every     *)
(* entry once, in the order the BIOS sent them and only after it published *)
(* them, wherever entries wrap around the end of the queue and however     *)
(* else appends interleave with the read.                                  *)
THEOREM EntriesOnce ==
  ASSUME FaultKinds = {}
  PROVE  Spec => []ExactlyOnce
<1>1. TypeInv /\ (torn \/ StreamInv) => ExactlyOnce
  <2>. SUFFICES ASSUME TypeInv, StreamInv, NEW i \in DOMAIN Got
                PROVE  Got[i] = i /\ i < nextId
    BY DEF ExactlyOnce
  <2>1. Len(Got) < nextId /\ Got \in Seq(Int) /\ Len(Got) \in Nat /\ nextId \in Nat
    BY CurrentBound, StreamTypes
  <2>2. i \in 1 .. Len(Got)
    BY <2>1
  <2>. QED
    BY <2>1, <2>2 DEF StreamInv, InOrder
<1>. QED
  BY <1>1, StreamKept, TypeCorrect, PTL

(* While no pointer was seen half written, readErrorLogs never throws, so  *)
(* readLoop never erases the buffer and the unread entries in it.          *)
THEOREM NeverResets ==
  ASSUME FaultKinds = {}
  PROVE  Spec => []NoSpuriousReset
<1>1. (torn \/ StreamInv) => NoSpuriousReset
  BY DEF StreamInv, Reader, NoSpuriousReset
<1>. QED
  BY <1>1, StreamKept, PTL

(* While no pointer was seen half written, the published, unread bytes are *)
(* an unbroken run of the BIOS's stream up to the last published entry, so *)
(* the BIOS never overwrites what is still to be copied, and the read      *)
(* pointer is never left within an entry.                                  *)
THEOREM UnreadStaysWhole ==
  ASSUME FaultKinds = {}
  PROVE  Spec => []UnreadIsWhole
<1>1. ASSUME TypeInv, StreamInv
      PROVE  UnreadIsWhole
  <2>. DEFINE n == Used(hdr)
              at(k) == cells[Wrap(hdr.bmcReadPtr + k)]
  <2>1. n \in Nat /\ n < MaxOffset /\ hdr.bmcReadPtr \in Index
        /\ nextId \in Nat
    BY <1>1, StreamTypes
  <2>2. \A k \in 0 .. n - 1 : Unread[k] = at(k) /\ at(k) \in Cell
    <3>1. ASSUME NEW k \in 0 .. n - 1
          PROVE  Wrap(hdr.bmcReadPtr + k) \in Index
      <4>1. k \in 0 .. MaxOffset
        BY <2>1, MaxOffsetType
      <4>. QED
        BY <2>1, <4>1, WrapRange
    <3>. QED
      BY <1>1, <3>1 DEF Unread, TypeInv, TypeOK
  <2>3. SUFFICES ASSUME n > 0
        PROVE  /\ at(n - 1).id = nextId - 1
               /\ at(n - 1).pos = EntryHeaderSize + at(n - 1).size - 1
               /\ \A k \in 1 .. n - 1 : Follows(at(k - 1), at(k))
               /\ pc \in {"idle", "header", "check", "loop"} =>
                    at(0).id = Len(Got) + 1 /\ at(0).pos = 0
    BY DEF UnreadIsWhole
  <2>. HIDE DEF n, at
  <2>4. \A k \in 0 .. n - 1 :
          /\ at(k) \in Cell
          /\ at(k).size \in Nat
          /\ at(k).pos \in 0 .. EntryHeaderSize + at(k).size - 1
          /\ EndOfEntry(Unread, k) = k - at(k).pos + EntryHeaderSize + at(k).size
          /\ EndOfEntry(Unread, k) <= n
          /\ EndOfEntry(Unread, k) = n => at(k).id = nextId - 1
          /\ EndOfEntry(Unread, k) < n =>
               /\ Unread[EndOfEntry(Unread, k)].id = at(k).id + 1
               /\ Unread[EndOfEntry(Unread, k)].pos = 0
          /\ \A j \in k .. EndOfEntry(Unread, k) - 1 :
               Unread[j] = EntryCell(at(k).id, at(k).pos + j - k, at(k).size)
    BY <1>1, <2>2, EntryFits DEF StreamInv, Stream, EndOfEntry, n
  <2>5. EntryHeaderSize \in Nat
    BY MaxOffsetType
  <2>6. /\ at(n - 1).id = nextId - 1
        /\ at(n - 1).pos = EntryHeaderSize + at(n - 1).size - 1
    <3>1. n - 1 \in 0 .. n - 1
      BY <2>1, <2>3 DEF n
    <3>2. /\ at(n - 1).size \in Nat
          /\ at(n - 1).pos \in 0 .. EntryHeaderSize + at(n - 1).size - 1
          /\ EndOfEntry(Unread, n - 1)
               = n - 1 - at(n - 1).pos + EntryHeaderSize + at(n - 1).size
          /\ EndOfEntry(Unread, n - 1) <= n
          /\ EndOfEntry(Unread, n - 1) = n => at(n - 1).id = nextId - 1
      BY <2>4, <3>1
    <3>. QED
      BY <2>1, <2>5, <3>2 DEF n
  <2>7. ASSUME NEW k \in 1 .. n - 1
        PROVE  Follows(at(k - 1), at(k))
    <3>1. k - 1 \in 0 .. n - 1 /\ k \in 0 .. n - 1 /\ n \in Nat
      BY <2>1 DEF n
    <3>2. SUFFICES ASSUME NEW c \in Cell, c = at(k - 1),
                          NEW d \in Cell, d = at(k),
                          NEW end, end = EndOfEntry(Unread, k - 1)
                   PROVE  Follows(c, d)
      BY <2>4, <3>1
    <3>3. /\ c.size \in Nat /\ c.id \in Int
          /\ c.pos \in 0 .. EntryHeaderSize + c.size - 1
          /\ end = k - 1 - c.pos + EntryHeaderSize + c.size
          /\ end <= n
          /\ end < n => /\ Unread[end].id = c.id + 1
                        /\ Unread[end].pos = 0
          /\ \A j \in k - 1 .. end - 1 :
               Unread[j] = EntryCell(c.id, c.pos + j - (k - 1), c.size)
      BY <2>4, <3>1, <3>2 DEF Cell
    <3>4. d = Unread[k]
      BY <2>2, <3>1, <3>2
    <3>5. CASE end = k
      <4>1. c.pos = EntryHeaderSize + c.size - 1
        BY <2>5, <3>1, <3>3, <3>5
      <4>2. d.id = c.id + 1 /\ d.pos = 0
        BY <3>1, <3>3, <3>4, <3>5
      <4>. QED
        BY <4>1, <4>2 DEF Follows
    <3>6. CASE end > k
      <4>1. k \in k - 1 .. end - 1 /\ c.pos + k - (k - 1) = c.pos + 1
        BY <2>5, <3>1, <3>3, <3>6
      <4>2. d = EntryCell(c.id, c.pos + 1, c.size)
        BY <3>3, <3>4, <4>1
      <4>3. d = [c EXCEPT !.pos = c.pos + 1]
        BY <4>2 DEF Cell, EntryCell
      <4>4. d.pos < EntryHeaderSize + d.size
        <5>1. d.pos = c.pos + 1 /\ d.size = c.size
          BY <4>2 DEF EntryCell
        <5>. QED
          BY <2>5, <3>1, <3>3, <3>6, <5>1
      <4>. QED
        BY <4>3, <4>4 DEF Follows
    <3>. QED
      BY <2>5, <3>1, <3>3, <3>5, <3>6
  <2>8. ASSUME pc \in {"idle", "header", "check", "loop"}
        PROVE  at(0).id = Len(Got) + 1 /\ at(0).pos = 0
    <3>1. Starts(Unread, Used(hdr), nextId, 0, Current)
      BY <1>1, <2>8 DEF StreamInv, Reader, AtIdle, AtHeader, AtCheck, AtLoop
    <3>2. Unread[0].id = Current /\ Unread[0].pos = 0
      BY <2>3, <3>1 DEF Starts, n
    <3>3. 0 \in 0 .. n - 1
      BY <2>1, <2>3 DEF n
    <3>. QED
      BY <2>2, <3>2, <3>3 DEF Current
  <2>. QED
    BY <2>6, <2>7, <2>8
<1>2. TypeInv /\ (torn \/ StreamInv) => UnreadIsWhole
  BY <1>1 DEF UnreadIsWhole
<1>. QED
  BY <1>1, <1>2, StreamKept, TypeCorrect, PTL

(* While no pointer was seen half written, updateReadPtr never moves the   *)
(* read pointer past the BIOS's write pointer, which would tell the BIOS   *)
(* that unread bytes are free.                                             *)
THEOREM NeverOverruns ==
  ASSUME FaultKinds = {}
  PROVE  Spec => NoOverrun
<1>1. ASSUME TypeInv, torn \/ StreamInv, [Next]_vars
      PROVE  [UpdateReadPtr /\ ~torn => call.length <= Used(hdr)]_vars
  <2>1. SUFFICES ASSUME UpdateReadPtr, ~torn
                 PROVE  call.length <= Used(hdr)
    OBVIOUS
  <2>2. InRead(Unread, Used(hdr), nextId)
    BY <1>1, <2>1 DEF StreamInv, Reader, UpdateReadPtr
  <2>3. /\ call.length \in Nat /\ call.length <= Rest
        /\ Rest \in 0 .. Used(hdr) /\ Used(hdr) \in Nat
    BY <1>1, <2>1, <2>2, ReadLocation, StreamTypes
  <2>. QED
    BY <2>3
<1>. QED
  BY <1>1, StreamKept, TypeCorrect, PTL DEF NoOverrun, Spec

(* Entries appended to a sequence leave its beginning as it was.           *)
LEMMA BatchBehind ==
  ASSUME NEW d \in Seq(Int), NEW b \in Seq(Int), b # <<>>
  PROVE  /\ Len(d \o b) > Len(d)
         /\ SubSeq(d \o b, 1, Len(d)) = d
<1>1. /\ Len(d \o b) = Len(d) + Len(b) /\ Len(b) > 0 /\ Len(d) \in Nat
      /\ d \o b \in Seq(Int)
  OBVIOUS
<1>2. SubSeq(d \o b, 1, Len(d)) \in Seq(Int) /\ Len(SubSeq(d \o b, 1, Len(d))) = Len(d)
  BY <1>1
<1>3. \A i \in 1 .. Len(d) : SubSeq(d \o b, 1, Len(d))[i] = d[i]
  BY <1>1
<1>. QED
  BY <1>1, <1>2, <1>3

(* The queue implements a reliable channel that breaks when a pointer is   *)
(* seen half written: publishing an entry sends it, a call of              *)
(* readErrorLogs that returns entries receives the next ones, and nothing  *)
(* else is visible.                                                        *)
THEOREM ReliableQueue ==
  ASSUME FaultKinds = {}
  PROVE  Spec => ImplementsReliableChannel
<1>1. Init => Reliable!Init
  BY DEF Init, Reliable!Init
<1>2. ASSUME TypeInv, TypeInv', torn \/ StreamInv, [Next]_vars
      PROVE  [Reliable!Next]_(Reliable!channel)
  <2>1. CASE UNCHANGED <<delivered, nextId>>
    <3>1. torn \in BOOLEAN /\ torn' \in BOOLEAN /\ (torn => torn')
      BY <1>2, TornStays DEF TypeInv, TypeOK
    <3>2. CASE torn' = torn
      BY <2>1, <3>2 DEF Reliable!channel
    <3>3. CASE ~torn /\ torn' = TRUE
      BY <2>1, <3>3 DEF Reliable!Next, Reliable!Break
    <3>. QED
      BY <3>1, <3>2, <3>3
  <2>2. CASE UNCHANGED vars
    BY <2>1, <2>2 DEF vars, bmcVars, biosVars
  <2>3. CASE Bios
    <3>1. UNCHANGED delivered
      BY <2>3 DEF Bios, bmcVars
    <3>2. UNCHANGED nextId \/ nextId' = nextId + 1
      BY <2>3 DEF Bios, BiosReserve, BiosWrite, BiosPublish
    <3>3. nextId \in Nat
      BY <1>2 DEF TypeInv, TypeOK
    <3>4. CASE nextId' = nextId + 1
      <4>1. nextId' - 1 = nextId - 1 + 1 /\ nextId' # nextId
        BY <3>3, <3>4
      <4>2. UNCHANGED torn
        BY <2>3, <4>1 DEF Bios, BiosReserve, BiosWrite, BiosPublish
      <4>. QED
        BY <3>1, <4>1, <4>2 DEF Reliable!Next, Reliable!Send
    <3>. QED
      BY <2>1, <3>1, <3>2, <3>4
  <2>4. CASE Bmc
    <3>1. UNCHANGED nextId
      BY <2>4 DEF Bmc, biosVars
    <3>2. UNCHANGED delivered \/ ReturnEntries
      BY <2>4 DEF Bmc, ReadHeaderLow, ReadHeaderHigh, CheckFails, Throw,
         CheckFindsNothing, CheckFindsEntries, ReadEntryHeader, ReadToQueueEnd,
         ReadWrapped, UpdateReadPtr, ReadPayload, AcceptEntry, RejectEntry,
         PointersDiffer, InitializeErase, InitializeHeader
    <3>3. CASE ReturnEntries
      <4>1. delivered \in Seq(Int) /\ call.entryPairs \in Seq(Int)
        BY <1>2 DEF TypeInv, TypeOK, Call
      <4>2. delivered' = delivered \o call.entryPairs /\ delivered' = Got
        BY <3>3 DEF ReturnEntries, Got
      <4>3. CASE call.entryPairs = <<>>
        <5>1. delivered' = delivered
          BY <4>1, <4>2, <4>3, EmptyCallGot
        <5>. QED
          BY <2>1, <3>1, <5>1
      <4>4. CASE call.entryPairs # <<>>
        <5>1. /\ Len(delivered') > Len(delivered)
              /\ SubSeq(delivered', 1, Len(delivered)) = delivered
          BY <4>1, <4>2, <4>4, BatchBehind
        <5>2. ASSUME ~torn
              PROVE  Reliable!Promised(delivered', nextId - 1)
          <6>1. StreamInv /\ delivered' = Got
            BY <1>2, <4>2, <5>2
          <6>2. Len(Got) \in Nat /\ nextId \in Nat /\ Len(Got) <= nextId - 1
            BY <1>2, <6>1, StreamTypes, CurrentBound
          <6>3. \A i \in DOMAIN Got : Got[i] = i
            BY <6>1 DEF StreamInv, InOrder
          <6>. QED
            BY <6>1, <6>2, <6>3 DEF Reliable!Promised, Reliable!CompleteUpTo
        <5>5. torn' = torn
          BY <2>4, <3>3 DEF Bmc, ReadHeaderHigh, ReturnEntries
        <5>6. nextId' - 1 = nextId - 1
          BY <3>1
        <5>7. Reliable!Receive
          BY <5>1, <5>2, <5>5, <5>6 DEF Reliable!Receive
        <5>. QED
          BY <5>7 DEF Reliable!Next
      <4>. QED
        BY <4>3, <4>4
    <3>. QED
      BY <2>1, <3>1, <3>2, <3>3
  <2>. QED
    BY <1>2, <2>2, <2>3, <2>4, NoFaults
<1>. QED
  BY <1>1, <1>2, StreamKept, TypeCorrect, PTL
     DEF ImplementsReliableChannel, Reliable!Spec, Spec

-----------------------------------------------------------------------------
(* The queue with restarts.                                                *)
(*                                                                         *)
(* A restart may erase the queue while the BIOS is appending.  What it     *)
(* then writes and publishes can leave zeroed bytes and pieces of one      *)
(* entry in front of the read pointer, so the unread bytes are no stream   *)
(* of whole entries any more.  But they are still in order, and newer than *)
(* everything returned.  A call loses even that if it takes bytes of no    *)
(* single entry for one, or reads beyond the cached write pointer.  Such a *)
(* call throws, and initialize() leaves an empty queue, or what it returns *)
(* shows it.                                                               *)

(* Something was received that is no log.                                  *)
Tainted(r) == \E i \in DOMAIN r : r[i] < 0

(* c is a byte of an entry before entry next.                              *)
EntryByte(c, next) ==
  /\ c \in Cell
  /\ c.id \in 1 .. next - 1
  /\ c.size \in Sizes
  /\ c.pos \in 0 .. EntryHeaderSize + c.size - 1

(* d, which comes k bytes after byte c of an entry, belongs to no entry,   *)
(* to a later one, or to the same one at the same distance.                *)
After(c, d, k) ==
  d.id = 0 \/ d.id > c.id \/ d = EntryCell(c.id, c.pos + k, c.size)

(* The n bytes u belong to entries before entry next, in ascending order,  *)
(* or to none.                                                             *)
Ascending(u, n, next) ==
  /\ \A k \in 0 .. n - 1 : u[k] = ZeroCell \/ EntryByte(u[k], next)
  /\ \A j, k \in 0 .. n - 1 : j < k /\ u[j].id # 0 => After(u[j], u[k], k - j)

(* All of these entries are later than those in r.                         *)
AllNewer(u, n, r) ==
  \A k \in 0 .. n - 1 : u[k].id # 0 => \A i \in DOMAIN r : r[i] < u[k].id

Orderly(u, n, next, r) ==
  /\ Ascending(u, n, next)
  /\ AllNewer(u, n, r)
  /\ Unreliable!InOrderUpTo(r, next - 1)

(* If c is the first byte of an entry, it is a later entry than those in   *)
(* r, and the bytes u, which begin from bytes after c, come after it.      *)
Newest(c, u, n, next, r, from) ==
  c.id # 0 =>
    /\ c.id \in 1 .. next - 1
    /\ \A i \in DOMAIN r : r[i] < c.id
    /\ \A k \in 0 .. n - 1 : After(c, u[k], k + from)

-----------------------------------------------------------------------------
(* The invariant.                                                          *)

(* The shared memory, whatever becomes of the call of readErrorLogs.       *)
Memory ==
  /\ hdr.bmcReadPtr \in Index /\ hdr.biosWritePtr \in Index
  /\ pc \notin {"erase", "writeHeader"} => SizesMatch(hdr)
  /\ pc = "writeHeader" => ~SizesMatch(hdr)
  /\ \A i \in Index : cells[i] = ZeroCell \/ EntryByte(cells[i], nextId + 1)
  /\ bios.step # "idle" => bios.size \in Sizes

(* The BIOS took the pointers before initialize() erased the queue: it may *)
(* write its entry anywhere, but there is nothing else in the queue yet.   *)
Straddling ==
  /\ bios.step # "idle"
  /\ hdr.bmcReadPtr = 0 /\ hdr.biosWritePtr = 0
  /\ \A i \in Index :
       \/ cells[i] = ZeroCell
       \/ cells[i] = EntryCell(nextId, Distance(bios.at, i), bios.size)

(* Between the calls, and in one that has not entered the loop.            *)
AtRest ==
  /\ call.entryPairs = <<>>
  /\ Appending \/ Straddling
  /\ Orderly(Unread, Used(hdr), nextId, Got)
  /\ pc = "header" =>
       /\ call.low \in Index
       /\ Distance(hdr.bmcReadPtr, call.low) <= Used(hdr)
  /\ pc = "check" =>
       /\ SizesMatch(cached)
       /\ cached.bmcReadPtr = hdr.bmcReadPtr
       /\ cached.biosWritePtr \in Index
       /\ Rest <= Used(hdr)

(* wraparoundRead is running for the header, or for the payload.           *)
Asked(part) == pc \in {"toEnd", "wrapped", "update"} /\ call.reading = part

(* readEntry has the header of the entry.                                  *)
InPayload == Asked("payload") \/ pc = "checksum"

(* Bytes of the current entry the read pointer has passed, ...             *)
Passed == IF pc = "checksum" THEN EntryHeaderSize + call.length
          ELSE IF pc = "parse" \/ Asked("payload") THEN EntryHeaderSize ELSE 0

(* ... and bytes left up to the cached write pointer, below 0 beyond it.   *)
Left == call.bytesToRead - call.byteRead - Passed

(* The call took bytes that are not one entry's for an entry: it throws,   *)
(* or what it returns shows it.                                            *)
Misread == Tainted(call.entryPairs) \/ call.entryHeader.id < 0

(* Where the call is, and that it compares pointers which differ if it has *)
(* read too far.                                                           *)
Located ==
  /\ cached.bmcReadPtr = hdr.bmcReadPtr
  /\ cached.biosWritePtr \in Index
  /\ Left < MaxOffset /\ Left > -MaxOffset
  /\ hdr.bmcReadPtr + Left - cached.biosWritePtr \in {0, MaxOffset, -MaxOffset}
  /\ pc # "loop" => Left + Passed > 0
  /\ pc \in {"toEnd", "wrapped", "update"} => Asked("header") \/ Asked("payload")
  /\ Asked("header") => call.length = EntryHeaderSize
  /\ InPayload => /\ call.length = call.entryHeader.size
                  /\ EntryHeaderSize + call.length < MaxOffset
  /\ pc = "parse" => call.bytes[1] = ZeroCell \/ EntryByte(call.bytes[1], nextId)

(* The entry at hand: its first byte has been read, or its header.         *)
AtHand(u, n, next, r) ==
  /\ pc \in {"wrapped", "update"} /\ Asked("header") => call.bytes[1] = u[0]
  /\ pc = "parse" => Newest(call.bytes[1], u, n, next, r, Passed)
  /\ InPayload => Newest(EntryCell(call.entryHeader.id, 0, call.entryHeader.size),
                         u, n, next, r, Passed)

(* The call has not read beyond the write pointer it was given.            *)
Within ==
  /\ Appending
  /\ Left <= Used(hdr)
  /\ Orderly(Unread, Used(hdr), nextId, Got)
  /\ AtHand(Unread, Used(hdr), nextId, Got)

InCall ==
  /\ ~InPayload => call.entryHeader = NoHeader
  /\ Misread \/ (Located /\ (Left >= 0 => Within))

Standing ==
  \/ pc = "erase" /\ call.entryPairs = <<>>
  \/ /\ pc = "writeHeader" /\ call.entryPairs = <<>>
     /\ bios.step = "idle" \/ Straddling
  \/ pc \in {"idle", "header", "check"} /\ AtRest
  \/ pc \in Looping /\ InCall

LossyInv ==
  /\ Memory
  /\ \/ Tainted(delivered)
     \/ Unreliable!InOrderUpTo(delivered, nextId - 1) /\ Standing

-----------------------------------------------------------------------------
(* Bytes in ascending order.                                               *)

(* What the bytes can be, and their order.                                 *)
LEMMA AscendingBytes ==
  ASSUME NEW u, NEW n \in Nat, NEW next \in Nat \ {0}, Ascending(u, n, next),
         NEW k \in 0 .. n - 1
  PROVE  /\ u[k] \in Cell
         /\ u[k].id \in 0 .. next - 1
         /\ u[k].id # 0 => EntryByte(u[k], next)
<1>1. u[k] = ZeroCell \/ EntryByte(u[k], next)
  BY DEF Ascending
<1>2. CASE u[k] = ZeroCell
  BY <1>2 DEF ZeroCell, EntryCell, Cell
<1>3. CASE EntryByte(u[k], next)
  BY <1>3 DEF EntryByte
<1>. QED
  BY <1>1, <1>2, <1>3

(* Bytes stay in order when some are read from their beginning ...         *)
LEMMA OrderlyDrop ==
  ASSUME NEW u, NEW v, NEW n \in Nat, NEW next, NEW r, NEW m \in 0 .. n,
         Behind(u, n, v, m), Orderly(u, n, next, r)
  PROVE  Orderly(v, n - m, next, r)
<1>1. \A k \in 0 .. n - m - 1 : v[k] = u[k + m] /\ k + m \in 0 .. n - 1
  BY DEF Behind
<1>2. ASSUME NEW k \in 0 .. n - m - 1
      PROVE  v[k] = ZeroCell \/ EntryByte(v[k], next)
  BY <1>1 DEF Orderly, Ascending
<1>3. ASSUME NEW j \in 0 .. n - m - 1, NEW k \in 0 .. n - m - 1,
             j < k, v[j].id # 0
      PROVE  After(v[j], v[k], k - j)
  <2>1. /\ j + m \in 0 .. n - 1 /\ k + m \in 0 .. n - 1
        /\ v[j] = u[j + m] /\ v[k] = u[k + m]
    BY <1>1
  <2>2. j + m < k + m /\ (k + m) - (j + m) = k - j
    BY <1>3
  <2>3. After(u[j + m], u[k + m], (k + m) - (j + m))
    BY <1>3, <2>1, <2>2 DEF Orderly, Ascending
  <2>. QED
    BY <2>1, <2>2, <2>3
<1>4. AllNewer(v, n - m, r)
  BY <1>1 DEF Orderly, AllNewer
<1>. QED
  BY <1>2, <1>3, <1>4 DEF Orderly, Ascending

(* ... and when the BIOS adds the next entry to their end.                 *)
LEMMA OrderlyGrow ==
  ASSUME NEW u, NEW v, NEW n \in Nat, NEW next \in Nat \ {0},
         NEW s \in Sizes, NEW r \in Seq(Int),
         Orderly(u, n, next, r), WithEntry(u, n, next, s, v)
  PROVE  Orderly(v, n + (EntryHeaderSize + s), next + 1, r)
<1>. DEFINE len == EntryHeaderSize + s
<1>1. s \in Nat /\ EntryHeaderSize \in Nat /\ len \in Nat
  BY EntryFits
<1>2. /\ \A k \in 0 .. n - 1 : v[k] = u[k]
      /\ \A j \in 0 .. len - 1 : v[n + j] = EntryCell(next, j, s)
  BY DEF WithEntry
<1>. HIDE DEF len
<1>3. ASSUME NEW k \in n .. (n + len) - 1
      PROVE  /\ v[k] = EntryCell(next, k - n, s) /\ k - n \in 0 .. len - 1
             /\ v[k].id = next
  <2>1. k - n \in 0 .. len - 1 /\ n + (k - n) = k
    BY <1>1
  <2>2. v[k] = EntryCell(next, k - n, s)
    BY <1>2, <2>1
  <2>. QED
    BY <2>1, <2>2 DEF EntryCell
<1>4. \A i \in DOMAIN r : r[i] \in 0 .. next - 1
  BY DEF Orderly, Unreliable!InOrderUpTo
<1>5. ASSUME NEW k \in 0 .. n - 1
      PROVE  /\ v[k] = u[k] /\ u[k] \in Cell
             /\ u[k].id \in 0 .. next - 1
             /\ u[k] = ZeroCell \/ EntryByte(u[k], next + 1)
  <2>1. /\ u[k] \in Cell /\ u[k].id \in 0 .. next - 1
        /\ u[k] = ZeroCell \/ EntryByte(u[k], next)
    BY AscendingBytes DEF Orderly, Ascending
  <2>2. EntryByte(u[k], next) => EntryByte(u[k], next + 1)
    BY DEF EntryByte
  <2>. QED
    BY <1>2, <2>1, <2>2
<1>6. ASSUME NEW k \in n .. (n + len) - 1
      PROVE  EntryByte(v[k], next + 1)
  <2>1. v[k] = EntryCell(next, k - n, s) /\ k - n \in 0 .. len - 1
    BY <1>3
  <2>2. k - n \in Nat
    BY <1>1
  <2>. QED
    BY <1>1, <2>1, <2>2 DEF EntryByte, EntryCell, Cell, len
<1>7. ASSUME NEW k \in 0 .. (n + len) - 1
      PROVE  k \in 0 .. n - 1 \/ k \in n .. (n + len) - 1
  BY <1>1
<1>8. \A k \in 0 .. (n + len) - 1 : v[k] = ZeroCell \/ EntryByte(v[k], next + 1)
  BY <1>5, <1>6, <1>7
<1>9. ASSUME NEW j \in 0 .. (n + len) - 1, NEW k \in 0 .. (n + len) - 1,
             j < k, v[j].id # 0
      PROVE  After(v[j], v[k], k - j)
  <2>1. CASE k \in 0 .. n - 1
    <3>1. j \in 0 .. n - 1
      BY <1>9, <2>1
    <3>2. v[j] = u[j] /\ v[k] = u[k]
      BY <1>5, <2>1, <3>1
    <3>. QED
      BY <1>9, <2>1, <3>1, <3>2 DEF Orderly, Ascending
  <2>2. CASE k \in n .. (n + len) - 1 /\ j \in 0 .. n - 1
    <3>1. v[k].id = next
      BY <1>3, <2>2
    <3>2. v[j].id \in 0 .. next - 1
      BY <1>5, <2>2
    <3>. QED
      BY <3>1, <3>2 DEF After
  <2>3. CASE k \in n .. (n + len) - 1 /\ j \in n .. (n + len) - 1
    <3>1. v[k] = EntryCell(next, k - n, s) /\ v[j] = EntryCell(next, j - n, s)
      BY <1>3, <2>3
    <3>2. k - n = (j - n) + (k - j)
      BY <1>1, <2>3
    <3>3. v[k] = EntryCell(v[j].id, v[j].pos + (k - j), v[j].size)
      BY <3>1, <3>2 DEF EntryCell
    <3>. QED
      BY <3>3 DEF After
  <2>. QED
    BY <1>7, <1>9, <2>1, <2>2, <2>3
<1>10. ASSUME NEW k \in 0 .. (n + len) - 1, v[k].id # 0, NEW i \in DOMAIN r
       PROVE  r[i] < v[k].id
  <2>1. CASE k \in 0 .. n - 1
    BY <1>5, <1>10, <2>1 DEF Orderly, AllNewer
  <2>2. CASE k \in n .. (n + len) - 1
    <3>1. v[k].id = next
      BY <1>3, <2>2
    <3>2. r[i] \in 0 .. next - 1
      BY <1>4, <1>10
    <3>. QED
      BY <3>1, <3>2
  <2>. QED
    BY <1>7, <1>10, <2>1, <2>2
<1>11. Unreliable!InOrderUpTo(r, (next + 1) - 1)
  <2>1. \A i \in DOMAIN r : r[i] \in 0 .. (next + 1) - 1
    BY <1>4
  <2>. QED
    BY <2>1 DEF Orderly, Unreliable!InOrderUpTo
<1>12. Ascending(v, n + len, next + 1)
  BY <1>8, <1>9, Zenon DEF Ascending
<1>13. AllNewer(v, n + len, r)
  BY <1>10, Zenon DEF AllNewer
<1>. QED
  BY <1>11, <1>12, <1>13, Zenon DEF Orderly, len

(* The first unread byte is one of the newest entry, and stays it while    *)
(* the bytes after it are read ...                                         *)
LEMMA HeadIsNewest ==
  ASSUME NEW u, NEW n \in Nat \ {0}, NEW next \in Nat \ {0}, NEW r,
         Orderly(u, n, next, r)
  PROVE  Newest(u[0], u, n, next, r, 0)
<1>1. /\ u[0] \in Cell /\ u[0].id \in 0 .. next - 1
  BY AscendingBytes DEF Orderly
<1>2. u[0].id # 0 => \A i \in DOMAIN r : r[i] < u[0].id
  BY DEF Orderly, AllNewer
<1>3. ASSUME NEW k \in 0 .. n - 1, u[0].id # 0
      PROVE  After(u[0], u[k], k + 0)
  <2>1. CASE k = 0
    <3>1. u[0] = EntryCell(u[0].id, u[0].pos + 0, u[0].size)
      BY <1>1 DEF EntryCell, Cell
    <3>. QED
      BY <2>1, <3>1 DEF After
  <2>2. CASE k # 0
    <3>1. 0 \in 0 .. n - 1 /\ 0 < k /\ k - 0 = k + 0
      BY <2>2
    <3>2. After(u[0], u[k], k - 0)
      BY <1>3, <3>1 DEF Orderly, Ascending
    <3>. QED
      BY <3>1, <3>2
  <2>. QED
    BY <2>1, <2>2
<1>. QED
  BY <1>1, <1>2, <1>3 DEF Newest

LEMMA NewestDrop ==
  ASSUME NEW c, NEW u, NEW v, NEW n \in Nat, NEW next, NEW r,
         NEW from \in Nat, NEW m \in 0 .. n,
         Behind(u, n, v, m), Newest(c, u, n, next, r, from)
  PROVE  Newest(c, v, n - m, next, r, from + m)
<1>1. ASSUME NEW k \in 0 .. n - m - 1, c.id # 0
      PROVE  After(c, v[k], k + (from + m))
  <2>1. /\ v[k] = u[k + m] /\ k + m \in 0 .. n - 1
        /\ (k + m) + from = k + (from + m)
    BY DEF Behind
  <2>2. After(c, u[k + m], (k + m) + from)
    BY <1>1, <2>1 DEF Newest
  <2>. QED
    BY <2>1, <2>2
<1>. QED
  BY <1>1 DEF Newest

(* ... and while the BIOS adds an entry behind them.                       *)
LEMMA NewestGrow ==
  ASSUME NEW c, NEW u, NEW v, NEW n \in Nat, NEW next \in Nat \ {0},
         NEW s \in Sizes, NEW r, NEW from,
         Newest(c, u, n, next, r, from), WithEntry(u, n, next, s, v)
  PROVE  Newest(c, v, n + (EntryHeaderSize + s), next + 1, r, from)
<1>. DEFINE len == EntryHeaderSize + s
<1>1. len \in Nat
  BY EntryFits
<1>2. /\ \A k \in 0 .. n - 1 : v[k] = u[k]
      /\ \A j \in 0 .. len - 1 : v[n + j] = EntryCell(next, j, s)
  BY DEF WithEntry
<1>. HIDE DEF len
<1>3. SUFFICES ASSUME c.id # 0
               PROVE  /\ c.id \in 1 .. (next + 1) - 1
                      /\ \A i \in DOMAIN r : r[i] < c.id
                      /\ \A k \in 0 .. (n + len) - 1 : After(c, v[k], k + from)
  BY Zenon DEF Newest, len
<1>4. /\ c.id \in 1 .. next - 1
      /\ \A i \in DOMAIN r : r[i] < c.id
      /\ \A k \in 0 .. n - 1 : After(c, u[k], k + from)
  BY <1>3 DEF Newest
<1>5. ASSUME NEW k \in 0 .. (n + len) - 1
      PROVE  After(c, v[k], k + from)
  <2>1. CASE k < n
    <3>1. k \in 0 .. n - 1
      BY <2>1
    <3>. QED
      BY <1>2, <1>4, <3>1
  <2>2. CASE k >= n
    <3>1. k - n \in 0 .. len - 1 /\ n + (k - n) = k
      BY <1>1, <2>2
    <3>2. v[k] = EntryCell(next, k - n, s)
      BY <1>2, <3>1
    <3>3. v[k].id = next
      BY <3>2 DEF EntryCell
    <3>4. v[k].id > c.id
      BY <1>4, <3>3
    <3>. QED
      BY <3>4 DEF After
  <2>. QED
    BY <2>1, <2>2
<1>. QED
  BY <1>4, <1>5

(* Once all bytes of the newest entry were read, the entry has its place   *)
(* at the end of what was received.                                        *)
LEMMA OrderlyTake ==
  ASSUME NEW u, NEW n \in Nat, NEW next \in Nat \ {0}, NEW r \in Seq(Int),
         NEW e \in Int, NEW s \in Nat, Orderly(u, n, next, r),
         Newest(EntryCell(e, 0, s), u, n, next, r, EntryHeaderSize + s)
  PROVE  Orderly(u, n, next, Append(r, e))
<1>. DEFINE c == EntryCell(e, 0, s)
            q == Append(r, e)
<1>1. c.id = e /\ c.pos = 0 /\ c.size = s
  BY DEF EntryCell
<1>2. EntryHeaderSize \in Nat
  BY MaxOffsetType
<1>3. /\ DOMAIN r = 1 .. Len(r) /\ Len(r) \in Nat
      /\ DOMAIN q = 1 .. Len(r) + 1
      /\ \A i \in 1 .. Len(r) : q[i] = r[i]
      /\ q[Len(r) + 1] = e
  OBVIOUS
<1>4. e # 0 => /\ e \in 1 .. next - 1
               /\ \A i \in DOMAIN r : r[i] < e
               /\ \A k \in 0 .. n - 1 : After(c, u[k], k + (EntryHeaderSize + s))
  BY <1>1 DEF Newest
<1>5. /\ \A i \in DOMAIN r : r[i] \in 0 .. next - 1
      /\ \A i, j \in DOMAIN r : i < j /\ r[j] # 0 => r[i] < r[j]
  BY DEF Orderly, Unreliable!InOrderUpTo
<1>. HIDE DEF q, c
<1>6. Unreliable!InOrderUpTo(q, next - 1)
  <2>1. ASSUME NEW i \in DOMAIN q
        PROVE  q[i] \in 0 .. next - 1
    BY <1>3, <1>4, <1>5
  <2>2. ASSUME NEW i \in DOMAIN q, NEW j \in DOMAIN q, i < j, q[j] # 0
        PROVE  q[i] < q[j]
    <3>1. i \in 1 .. Len(r) /\ q[i] = r[i]
      <4>1. i \in 1 .. Len(r) + 1 /\ j \in 1 .. Len(r) + 1 /\ Len(r) \in Nat
        BY <1>3, <2>2
      <4>2. i \in 1 .. Len(r)
        BY <2>2, <4>1
      <4>. QED
        BY <1>3, <4>2
    <3>2. CASE j = Len(r) + 1
      <4>1. q[j] = e /\ e # 0 /\ i \in DOMAIN r
        BY <1>3, <2>2, <3>1, <3>2
      <4>2. r[i] < e
        BY <1>4, <4>1
      <4>. QED
        BY <3>1, <4>1, <4>2
    <3>3. CASE j # Len(r) + 1
      <4>1. j \in 1 .. Len(r) + 1 /\ Len(r) \in Nat
        BY <1>3, <2>2
      <4>2. j \in 1 .. Len(r)
        BY <3>3, <4>1
      <4>3. q[j] = r[j] /\ i \in DOMAIN r /\ j \in DOMAIN r
        BY <1>3, <3>1, <4>2
      <4>. QED
        BY <1>5, <2>2, <3>1, <4>3
    <3>. QED
      BY <3>2, <3>3
  <2>. QED
    BY <2>1, <2>2 DEF Unreliable!InOrderUpTo
<1>7. ASSUME NEW k \in 0 .. n - 1, u[k].id # 0, NEW i \in DOMAIN q
      PROVE  q[i] < u[k].id
  <2>1. /\ u[k] \in Cell /\ u[k].id \in 0 .. next - 1
        /\ EntryByte(u[k], next)
    BY <1>7, AscendingBytes DEF Orderly
  <2>2. CASE i # Len(r) + 1
    <3>1. i \in DOMAIN r /\ q[i] = r[i]
      BY <1>3, <2>2
    <3>. QED
      BY <1>7, <3>1 DEF Orderly, AllNewer
  <2>3. CASE i = Len(r) + 1 /\ e = 0
    BY <1>3, <1>7, <2>1, <2>3
  <2>4. CASE i = Len(r) + 1 /\ e # 0
    <3>1. After(c, u[k], k + (EntryHeaderSize + s))
      BY <1>4, <2>4
    <3>2. ~(u[k] = EntryCell(e, 0 + (k + (EntryHeaderSize + s)), s))
      <4>1. SUFFICES ASSUME u[k] = EntryCell(e, 0 + (k + (EntryHeaderSize + s)), s)
                     PROVE  FALSE
        OBVIOUS
      <4>2. u[k].pos = k + (EntryHeaderSize + s) /\ u[k].size = s
        BY <1>2, <4>1 DEF EntryCell
      <4>3. u[k].pos \in 0 .. EntryHeaderSize + s - 1
        BY <2>1, <4>2 DEF EntryByte
      <4>. QED
        BY <1>2, <4>2, <4>3
    <3>3. u[k].id > e
      BY <1>1, <1>7, <3>1, <3>2 DEF After
    <3>. QED
      BY <1>3, <1>4, <2>1, <2>4, <3>3
  <2>. QED
    BY <2>2, <2>3, <2>4
<1>8. AllNewer(u, n, q)
  BY <1>7 DEF AllNewer
<1>. QED
  BY <1>6, <1>8 DEF Orderly, q

-----------------------------------------------------------------------------
(* The steps of the BIOS.                                                  *)

(* Where the queue is not being initialized, its header is a valid one.    *)
LEMMA MemoryRegion ==
  ASSUME TypeInv, Memory, pc \notin {"erase", "writeHeader"}
  PROVE  Region
BY DEF Memory, Region

LEMMA MemoryTypes ==
  ASSUME TypeInv, Memory
  PROVE  /\ hdr.bmcReadPtr \in Index /\ hdr.biosWritePtr \in Index
         /\ Used(hdr) = Distance(hdr.bmcReadPtr, hdr.biosWritePtr)
         /\ Used(hdr) \in Nat /\ Used(hdr) < MaxOffset
         /\ nextId \in Nat \ {0}
         /\ Got \in Seq(Int) /\ delivered \in Seq(Int)
         /\ call.entryPairs \in Seq(Int)
<1>1. hdr.bmcReadPtr \in Index /\ hdr.biosWritePtr \in Index
  BY DEF Memory
<1>2. Used(hdr) = Distance(hdr.bmcReadPtr, hdr.biosWritePtr)
  BY DEF Used, Distance
<1>3. Used(hdr) \in 0 .. MaxOffset - 1
  BY <1>1, <1>2, DistanceRange
<1>4. delivered \in Seq(Int) /\ call.entryPairs \in Seq(Int)
  BY DEF TypeInv, TypeOK, Call
<1>5. Got \in Seq(Int)
  BY <1>4 DEF Got
<1>. QED
  BY <1>1, <1>2, <1>3, <1>4, <1>5, MaxOffsetType DEF TypeInv, TypeOK

LEMMA BiosMemory ==
  ASSUME TypeInv, Memory, Bios
  PROVE  Memory'
<1>1. /\ hdr.bmcReadPtr \in Index /\ hdr.biosWritePtr \in Index
      /\ pc \notin {"erase", "writeHeader"} => SizesMatch(hdr)
      /\ pc = "writeHeader" => ~SizesMatch(hdr)
      /\ \A i \in Index : cells[i] = ZeroCell \/ EntryByte(cells[i], nextId + 1)
      /\ bios.step # "idle" => bios.size \in Sizes
      /\ pc' = pc
      /\ nextId \in Nat \ {0} /\ bios.at \in Index
      /\ cells \in [Index -> Cell] /\ hdr \in Header
  BY DEF Memory, Bios, bmcVars, TypeInv, TypeOK
<1>2. ASSUME NEW size \in Sizes, BiosReserve(size)
      PROVE  Memory'
  <2>1. /\ UNCHANGED <<hdr, cells, nextId>>
        /\ bios'.size = size
    BY <1>2 DEF BiosReserve
  <2>. QED
    BY <1>1, <2>1 DEF Memory, SizesMatch
<1>3. CASE BiosWrite
  <2>1. /\ UNCHANGED <<hdr, nextId>> /\ bios.step = "write"
        /\ bios'.size = bios.size
    BY <1>3 DEF BiosWrite, TypeInv, TypeOK
  <2>2. bios.size \in Sizes /\ bios.size \in Nat /\ EntryHeaderSize \in Nat
    BY <1>1, <2>1, EntryFits
  <2>3. ASSUME NEW i \in Index
        PROVE  cells'[i] = ZeroCell \/ EntryByte(cells'[i], nextId + 1)
    <3>. DEFINE pos == IF i >= bios.at THEN i - bios.at
                       ELSE i + MaxOffset - bios.at
    <3>1. cells'[i] = IF pos < EntryHeaderSize + bios.size
                      THEN EntryCell(nextId, pos, bios.size) ELSE cells[i]
      BY <1>3 DEF BiosWrite
    <3>2. pos \in Nat
      BY <1>1, MaxOffsetType
    <3>. HIDE DEF pos
    <3>3. CASE pos < EntryHeaderSize + bios.size
      <4>1. cells'[i] = EntryCell(nextId, pos, bios.size)
        BY <3>1, <3>3
      <4>2. pos \in 0 .. EntryHeaderSize + bios.size - 1
        BY <2>2, <3>2, <3>3
      <4>. QED
        BY <1>1, <2>2, <3>2, <4>1, <4>2 DEF EntryByte, EntryCell, Cell
    <3>4. CASE ~(pos < EntryHeaderSize + bios.size)
      BY <1>1, <3>1, <3>4
    <3>. QED
      BY <3>3, <3>4
  <2>. QED
    BY <1>1, <2>1, <2>2, <2>3 DEF Memory, SizesMatch
<1>4. CASE BiosPublish
  <2>1. /\ bios.step = "publish" /\ bios'.step = "idle"
        /\ cells' = cells /\ nextId' = nextId + 1
        /\ hdr'.bmcReadPtr = hdr.bmcReadPtr
        /\ hdr'.queueSize = hdr.queueSize
        /\ hdr'.ueRegionSize = hdr.ueRegionSize
        /\ hdr'.biosWritePtr = Wrap(bios.at + EntryHeaderSize + bios.size)
    BY <1>1, <1>4 DEF BiosPublish, IdleBios, Header
  <2>2. bios.size \in Sizes
    BY <1>1, <2>1
  <2>3. hdr'.biosWritePtr \in Index
    <3>1. /\ EntryHeaderSize + bios.size \in 0 .. MaxOffset
          /\ bios.at + EntryHeaderSize + bios.size
               = bios.at + (EntryHeaderSize + bios.size)
      BY <1>1, <2>2, EntryFits, MaxOffsetType
    <3>. QED
      BY <1>1, <2>1, <3>1, WrapRange
  <2>4. ASSUME NEW i \in Index
        PROVE  cells[i] = ZeroCell \/ EntryByte(cells[i], nextId + 1 + 1)
    BY <1>1 DEF EntryByte
  <2>. QED
    BY <1>1, <2>1, <2>3, <2>4 DEF Memory, SizesMatch
<1>. QED
  BY <1>2, <1>3, <1>4 DEF Bios

(* The bytes an append that straddles initialize() leaves before its       *)
(* published end are in order.                                             *)
LEMMA StraddlingArithmetic ==
  ASSUME NEW at \in Index, NEW len \in Nat, len < MaxOffset,
         NEW j \in Nat, NEW k \in Nat, j < k, k < Wrap(at + len),
         Distance(at, j) < len
  PROVE  Distance(at, k) = Distance(at, j) + (k - j)
BY MaxOffsetType DEF Distance, Wrap

LEMMA StraddlingPublished ==
  ASSUME TypeInv, Memory, Straddling, BiosPublish,
         NEW r \in Seq(Int), Unreliable!InOrderUpTo(r, nextId - 1)
  PROVE  Orderly(Unread', Used(hdr)', nextId + 1, r)
<1>. DEFINE at == bios.at
            s == bios.size
            w == Wrap(at + (EntryHeaderSize + s))
            v == Unread'
<1>1. /\ s \in Sizes /\ s \in Nat /\ EntryHeaderSize + s \in Nat
      /\ EntryHeaderSize + s < MaxOffset
      /\ at \in Index /\ nextId \in Nat \ {0}
      /\ EntryHeaderSize \in Nat
  BY EntryFits DEF Straddling, Memory, TypeInv, TypeOK
<1>2. /\ hdr'.bmcReadPtr = 0 /\ hdr'.biosWritePtr = w
      /\ cells' = cells
  <2>1. at + EntryHeaderSize + s = at + (EntryHeaderSize + s)
    BY <1>1, MaxOffsetType
  <2>2. hdr' = [hdr EXCEPT !.biosWritePtr = w] /\ cells' = cells
    BY <2>1 DEF BiosPublish
  <2>. QED
    BY <2>2 DEF Straddling, TypeInv, TypeOK, Header
<1>3. w \in Index /\ w \in Nat
  <2>1. EntryHeaderSize + s \in 0 .. MaxOffset
    BY <1>1, MaxOffsetType
  <2>2. w \in Index
    BY <1>1, <2>1, WrapRange
  <2>. QED
    BY <2>2, MaxOffsetType
<1>. HIDE DEF at, s, w
<1>4. Used(hdr)' = w
  <2>1. Used(hdr') = w
    BY <1>2, <1>3 DEF Used
  <2>. QED
    BY <2>1 DEF Used
<1>5. ASSUME NEW k \in 0 .. w - 1
      PROVE  /\ v[k] = cells[k]
             /\ v[k] = ZeroCell \/ v[k] = EntryCell(nextId, Distance(at, k), s)
             /\ v[k] = ZeroCell \/ EntryByte(v[k], nextId + 1)
  <2>1. k \in Index /\ Wrap(0 + k) = k
    BY <1>3, MaxOffsetType DEF Wrap
  <2>2. v[k] = cells[k]
    BY <1>2, <1>4, <2>1 DEF Unread
  <2>. QED
    BY <2>1, <2>2 DEF Straddling, Memory, at, s
<1>. HIDE DEF v
<1>6. ASSUME NEW j \in 0 .. w - 1, NEW k \in 0 .. w - 1, j < k, v[j].id # 0
      PROVE  After(v[j], v[k], k - j)
  <2>1. v[j] # ZeroCell
    BY <1>6 DEF ZeroCell, EntryCell
  <2>2. v[j] = EntryCell(nextId, Distance(at, j), s) /\ EntryByte(v[j], nextId + 1)
    BY <1>5, <2>1
  <2>3. v[j].id = nextId /\ v[j].pos = Distance(at, j) /\ v[j].size = s
    BY <2>2 DEF EntryCell
  <2>4. Distance(at, j) < EntryHeaderSize + s
    BY <1>1, <2>2, <2>3 DEF EntryByte
  <2>5. Distance(at, k) = Distance(at, j) + (k - j)
    <3>1. j \in Nat /\ k \in Nat /\ k < Wrap(at + (EntryHeaderSize + s))
      BY <1>3 DEF w
    <3>. QED
      BY <1>1, <1>6, <2>4, <3>1, StraddlingArithmetic
  <2>6. CASE v[k] = ZeroCell
    BY <2>6 DEF After, ZeroCell, EntryCell
  <2>7. CASE v[k] = EntryCell(nextId, Distance(at, k), s)
    BY <2>3, <2>5, <2>7 DEF After
  <2>. QED
    BY <1>5, <2>6, <2>7
<1>7. Ascending(v, w, nextId + 1)
  BY <1>5, <1>6, Zenon DEF Ascending
<1>8. /\ \A i \in DOMAIN r : r[i] \in 0 .. nextId - 1
      /\ \A i, j \in DOMAIN r : i < j /\ r[j] # 0 => r[i] < r[j]
  BY DEF Unreliable!InOrderUpTo
<1>9. ASSUME NEW k \in 0 .. w - 1, v[k].id # 0, NEW i \in DOMAIN r
      PROVE  r[i] < v[k].id
  <2>1. v[k] # ZeroCell
    BY <1>9 DEF ZeroCell, EntryCell
  <2>2. v[k] = EntryCell(nextId, Distance(at, k), s)
    BY <1>5, <2>1
  <2>3. v[k].id = nextId
    BY <2>2 DEF EntryCell
  <2>. QED
    BY <1>1, <1>8, <2>3
<1>10. AllNewer(v, w, r)
  BY <1>9, Zenon DEF AllNewer
<1>11. Unreliable!InOrderUpTo(r, (nextId + 1) - 1)
  <2>1. \A i \in DOMAIN r : r[i] \in 0 .. (nextId + 1) - 1
    BY <1>1, <1>8
  <2>. QED
    BY <1>8, <2>1 DEF Unreliable!InOrderUpTo
<1>. QED
  BY <1>4, <1>7, <1>10, <1>11, Zenon DEF Orderly, v

(* What the BIOS appends behind the unread bytes leaves them as they are   *)
(* or adds an entry to them.                                               *)
LEMMA BiosAppends ==
  ASSUME TypeInv, Region, Appending, Bios, ~torn'
  PROVE  /\ Appending'
         /\ hdr'.bmcReadPtr = hdr.bmcReadPtr
         /\ \/ nextId' = nextId /\ Unread' = Unread /\ Used(hdr)' = Used(hdr)
            \/ \E s \in Sizes :
                 /\ nextId' = nextId + 1
                 /\ Used(hdr)' = Used(hdr) + (EntryHeaderSize + s)
                 /\ WithEntry(Unread, Used(hdr), nextId, s, Unread')
<1>1. ASSUME NEW size \in Sizes, BiosReserve(size)
      PROVE  /\ Appending' /\ UNCHANGED <<hdr, nextId>>
             /\ Unread' = Unread /\ Used(hdr)' = Used(hdr)
  <2>1. /\ UNCHANGED <<hdr, cells, nextId>>
        /\ bios'.step = "write" /\ bios'.at = hdr.biosWritePtr
        /\ bios'.size = size
        /\ Used(hdr) + EntryHeaderSize + size < MaxOffset
    BY <1>1, ReservesFree DEF BiosReserve, FreeFor
  <2>2. Unread' = Unread /\ Used(hdr)' = Used(hdr)
    BY <2>1 DEF Unread, Used
  <2>. QED
    BY <2>1, <2>2 DEF Appending
<1>2. CASE BiosWrite
  <2>1. /\ UNCHANGED <<hdr, nextId>>
        /\ bios.step = "write" /\ bios'.step = "publish"
        /\ bios'.at = bios.at /\ bios'.size = bios.size
    BY <1>2 DEF BiosWrite, TypeInv, TypeOK
  <2>2. /\ Unread' = Unread
        /\ \A j \in 0 .. (EntryHeaderSize + bios.size) - 1 :
             cells'[Wrap(bios.at + j)] = EntryCell(nextId, j, bios.size)
    BY <1>2, WrittenBehind
  <2>3. Used(hdr)' = Used(hdr)
    BY <2>1 DEF Used
  <2>4. Appending'
    BY <2>1, <2>2, <2>3 DEF Appending
  <2>. QED
    BY <2>1, <2>2, <2>3, <2>4
<1>3. CASE BiosPublish
  <2>1. /\ bios.size \in Sizes
        /\ Used(hdr)' = Used(hdr) + (EntryHeaderSize + bios.size)
        /\ WithEntry(Unread, Used(hdr), nextId, bios.size, Unread')
    BY <1>3, PublishedIsAdded
  <2>2. /\ bios'.step = "idle" /\ nextId' = nextId + 1
        /\ hdr'.bmcReadPtr = hdr.bmcReadPtr
    BY <1>3 DEF BiosPublish, IdleBios, TypeInv, TypeOK, Header
  <2>3. Appending'
    BY <2>2 DEF Appending
  <2>. QED
    BY <2>1, <2>2, <2>3
<1>. QED
  BY <1>1, <1>2, <1>3 DEF Bios

(* How far the call has come in the current entry.                         *)
LEMMA Progress ==
  ASSUME TypeInv
  PROVE  /\ Left \in Int /\ Passed \in Nat
         /\ call.bytesToRead \in Nat /\ call.byteRead \in Nat /\ call.length \in Nat
         /\ Left = call.bytesToRead - call.byteRead - Passed
         /\ pc = "loop" \/ Asked("header") => Passed = 0
         /\ pc = "parse" \/ Asked("payload") => Passed = EntryHeaderSize
         /\ pc = "checksum" => Passed = EntryHeaderSize + call.length
<1>1. /\ call.length \in Nat /\ call.bytesToRead \in Nat /\ call.byteRead \in Nat
      /\ EntryHeaderSize \in Nat
  BY MaxOffsetType DEF TypeInv, TypeOK, Call
<1>2. /\ Passed \in Nat
      /\ pc = "loop" \/ Asked("header") => Passed = 0
      /\ pc = "parse" \/ Asked("payload") => Passed = EntryHeaderSize
      /\ pc = "checksum" => Passed = EntryHeaderSize + call.length
  BY <1>1 DEF Passed, Asked
<1>3. Left = call.bytesToRead - call.byteRead - Passed
  BY DEF Left
<1>. QED
  BY <1>1, <1>2, <1>3

(* The place of the call in the queue does not depend on the BIOS.         *)
LEMMA BiosLocated ==
  ASSUME TypeInv, Located, UNCHANGED bmcVars,
         hdr'.bmcReadPtr = hdr.bmcReadPtr, nextId' \in {nextId, nextId + 1}
  PROVE  Located' /\ Left' = Left /\ Passed' = Passed
<1>1. UNCHANGED <<cached, pc, call>>
  BY DEF bmcVars
<1>2. /\ Left' = Left /\ Passed' = Passed
      /\ Asked("header")' = Asked("header")
      /\ Asked("payload")' = Asked("payload")
      /\ InPayload' = InPayload
  BY <1>1 DEF Left, Passed, Asked, InPayload
<1>3. ASSUME NEW c, EntryByte(c, nextId)
      PROVE  EntryByte(c, nextId')
  BY <1>3 DEF EntryByte, TypeInv, TypeOK
<1>4. pc = "parse" =>
        call.bytes[1] = ZeroCell \/ EntryByte(call.bytes[1], nextId')
  BY <1>3 DEF Located
<1>. QED
  BY <1>1, <1>2, <1>4 DEF Located

LEMMA BiosWithin ==
  ASSUME TypeInv, Memory, pc \in Looping, Located, Left >= 0, Within, Bios,
         ~torn'
  PROVE  Within'
<1>1. Region
  BY MemoryRegion DEF Looping
<1>2. UNCHANGED <<cached, pc, call, delivered>>
  BY DEF Bios, bmcVars
<1>3. /\ Appending' /\ hdr'.bmcReadPtr = hdr.bmcReadPtr
      /\ nextId' \in {nextId, nextId + 1}
  BY <1>1, BiosAppends DEF Within
<1>4. /\ Left' = Left /\ Passed' = Passed
      /\ Asked("header")' = Asked("header")
      /\ InPayload' = InPayload /\ Got' = Got
  BY <1>2, <1>3, BiosLocated DEF Bios, Asked, InPayload, Got
<1>5. /\ Used(hdr) \in Nat /\ nextId \in Nat \ {0} /\ Got \in Seq(Int)
  BY MemoryTypes
<1>6. CASE nextId' = nextId /\ Unread' = Unread /\ Used(hdr)' = Used(hdr)
  BY <1>2, <1>3, <1>4, <1>6 DEF Within, AtHand
<1>7. ASSUME NEW s \in Sizes, nextId' = nextId + 1,
             Used(hdr)' = Used(hdr) + (EntryHeaderSize + s),
             WithEntry(Unread, Used(hdr), nextId, s, Unread')
      PROVE  Within'
  <2>. DEFINE n == Used(hdr)
              n2 == Used(hdr) + (EntryHeaderSize + s)
  <2>1. Orderly(Unread', n2, nextId + 1, Got)
    BY <1>5, <1>7, OrderlyGrow DEF Within
  <2>2. \A c, from : Newest(c, Unread, n, nextId, Got, from)
                       => Newest(c, Unread', n2, nextId + 1, Got, from)
    BY <1>5, <1>7, NewestGrow
  <2>3. Left <= n2
    <3>1. EntryHeaderSize + s \in Nat /\ Left <= Used(hdr)
      BY EntryFits DEF Within
    <3>2. Left \in Int
      BY Progress
    <3>. QED
      BY <1>5, <3>1, <3>2
  <2>4. ASSUME pc \in {"wrapped", "update"}, Asked("header")
        PROVE  call.bytes[1] = Unread'[0]
    <3>1. Left + Passed > 0
      BY <2>4 DEF Located
    <3>2. Left <= Used(hdr) /\ Left \in Int /\ Passed = 0
      BY <2>4, Progress DEF Within
    <3>3. 0 \in 0 .. Used(hdr) - 1
      BY <1>5, <3>1, <3>2
    <3>4. Unread'[0] = Unread[0]
      BY <1>7, <3>3 DEF WithEntry
    <3>. QED
      BY <2>4, <3>4 DEF Within, AtHand
  <2>5. AtHand(Unread', n2, nextId + 1, Got)
    BY <2>2, <2>4 DEF Within, AtHand
  <2>6. AtHand(Unread, Used(hdr), nextId, Got)'
    BY <1>2, <1>4, <1>7, <2>5 DEF AtHand
  <2>. QED
    BY <1>3, <1>4, <1>7, <2>1, <2>3, <2>6 DEF Within
<1>. QED
  BY <1>1, <1>6, <1>7, BiosAppends DEF Within

LEMMA OrderlyEmpty ==
  ASSUME NEW u, NEW next, NEW r, Unreliable!InOrderUpTo(r, next - 1)
  PROVE  Orderly(u, 0, next, r)
<1>1. 0 .. 0 - 1 = {}
  OBVIOUS
<1>. QED
  BY <1>1 DEF Orderly, Ascending, AllNewer

(* In an empty queue there is nothing to be read.                          *)
LEMMA StraddlingEmpty ==
  ASSUME Straddling
  PROVE  Used(hdr) = 0
BY DEF Straddling, Used

LEMMA StraddlingWrite ==
  ASSUME TypeInv, Straddling, BiosWrite
  PROVE  Straddling'
<1>1. /\ UNCHANGED <<hdr, nextId>> /\ bios'.step = "publish"
      /\ bios'.at = bios.at /\ bios'.size = bios.size
  BY DEF BiosWrite, TypeInv, TypeOK
<1>2. ASSUME NEW i \in Index
      PROVE  \/ cells'[i] = ZeroCell
             \/ cells'[i] = EntryCell(nextId, Distance(bios.at, i), bios.size)
  <2>1. cells'[i] = IF Distance(bios.at, i) < EntryHeaderSize + bios.size
                    THEN EntryCell(nextId, Distance(bios.at, i), bios.size)
                    ELSE cells[i]
    <3>1. Distance(bios.at, i) = IF i >= bios.at THEN i - bios.at
                                 ELSE i + MaxOffset - bios.at
      BY MaxOffsetType DEF Distance, TypeInv, TypeOK
    <3>. QED
      BY <3>1 DEF BiosWrite
  <2>. QED
    BY <2>1 DEF Straddling
<1>. QED
  BY <1>1, <1>2 DEF Straddling, Distance

LEMMA BiosAtRest ==
  ASSUME TypeInv, Memory, pc \in {"idle", "header", "check"}, AtRest, Bios,
         ~torn'
  PROVE  AtRest'
<1>1. /\ Region /\ call.entryPairs = <<>>
      /\ Orderly(Unread, Used(hdr), nextId, Got)
      /\ UNCHANGED <<cached, pc, call, delivered>>
      /\ Used(hdr) \in Nat /\ nextId \in Nat \ {0} /\ Got \in Seq(Int)
  BY MemoryRegion, MemoryTypes DEF AtRest, Bios, bmcVars
<1>2. Got' = Got
  BY <1>1 DEF Got
<1>3. ASSUME hdr'.bmcReadPtr = hdr.bmcReadPtr,
             Appending' \/ Straddling',
             Used(hdr)' \in Nat, Used(hdr) <= Used(hdr)',
             Orderly(Unread, Used(hdr), nextId, Got)'
      PROVE  AtRest'
  <2>1. pc = "header" => /\ call.low \in Index
                         /\ Distance(hdr.bmcReadPtr, call.low) <= Used(hdr)'
    <3>1. ASSUME pc = "header"
          PROVE  /\ call.low \in Index
                 /\ Distance(hdr.bmcReadPtr, call.low) \in Int
                 /\ Distance(hdr.bmcReadPtr, call.low) <= Used(hdr)
      <4>1. /\ call.low \in Index
            /\ Distance(hdr.bmcReadPtr, call.low) <= Used(hdr)
        BY <3>1 DEF AtRest
      <4>. QED
        BY <1>1, <4>1, DistanceRange DEF Region
    <3>. QED
      BY <1>1, <1>3, <3>1
  <2>2. pc = "check" => /\ SizesMatch(cached)
                        /\ cached.bmcReadPtr = hdr.bmcReadPtr
                        /\ cached.biosWritePtr \in Index
                        /\ Rest <= Used(hdr)'
    <3>1. ASSUME pc = "check"
          PROVE  /\ SizesMatch(cached)
                 /\ cached.bmcReadPtr = hdr.bmcReadPtr
                 /\ cached.biosWritePtr \in Index
                 /\ Rest \in Int /\ Rest <= Used(hdr)
      <4>1. /\ SizesMatch(cached)
            /\ cached.bmcReadPtr = hdr.bmcReadPtr
            /\ cached.biosWritePtr \in Index
            /\ Rest <= Used(hdr)
        BY <3>1 DEF AtRest
      <4>. QED
        BY <1>1, <4>1, DistanceRange DEF Region, Rest
    <3>. QED
      BY <1>1, <1>3, <3>1
  <2>3. /\ Rest' = Rest
        /\ Distance(hdr.bmcReadPtr, call.low)' = Distance(hdr.bmcReadPtr, call.low)
        /\ SizesMatch(cached)' = SizesMatch(cached)
    BY <1>1, <1>3 DEF Rest, Distance, SizesMatch
  <2>. QED
    BY <1>1, <1>3, <2>1, <2>2, <2>3 DEF AtRest
<1>4. CASE Appending
  <2>1. /\ Appending' /\ hdr'.bmcReadPtr = hdr.bmcReadPtr
        /\ \/ nextId' = nextId /\ Unread' = Unread /\ Used(hdr)' = Used(hdr)
           \/ \E s \in Sizes :
                /\ nextId' = nextId + 1
                /\ Used(hdr)' = Used(hdr) + (EntryHeaderSize + s)
                /\ WithEntry(Unread, Used(hdr), nextId, s, Unread')
    BY <1>1, <1>4, BiosAppends
  <2>2. CASE nextId' = nextId /\ Unread' = Unread /\ Used(hdr)' = Used(hdr)
    BY <1>1, <1>2, <1>3, <2>1, <2>2
  <2>3. ASSUME NEW s \in Sizes, nextId' = nextId + 1,
               Used(hdr)' = Used(hdr) + (EntryHeaderSize + s),
               WithEntry(Unread, Used(hdr), nextId, s, Unread')
        PROVE  AtRest'
    <3>1. EntryHeaderSize + s \in Nat
      BY EntryFits
    <3>2. Orderly(Unread', Used(hdr) + (EntryHeaderSize + s), nextId + 1, Got)
      BY <1>1, <2>3, OrderlyGrow
    <3>3. Orderly(Unread, Used(hdr), nextId, Got)'
      BY <1>2, <2>3, <3>2
    <3>4. Used(hdr)' \in Nat /\ Used(hdr) <= Used(hdr)'
      BY <1>1, <2>3, <3>1
    <3>. QED
      BY <1>3, <2>1, <3>3, <3>4
  <2>. QED
    BY <2>1, <2>2, <2>3
<1>5. CASE Straddling
  <2>1. Used(hdr) = 0
    BY <1>5, StraddlingEmpty
  <2>2. Unreliable!InOrderUpTo(Got, nextId - 1)
    BY <1>1 DEF Orderly
  <2>3. CASE BiosWrite
    <3>1. Straddling' /\ UNCHANGED <<hdr, nextId>>
      BY <1>5, <2>3, StraddlingWrite DEF BiosWrite
    <3>2. Used(hdr)' = 0
      BY <2>1, <3>1 DEF Used
    <3>3. Orderly(Unread', 0, nextId, Got)
      BY <2>2, OrderlyEmpty
    <3>4. Orderly(Unread, Used(hdr), nextId, Got)'
      BY <1>2, <3>1, <3>2, <3>3
    <3>. QED
      BY <1>3, <2>1, <3>1, <3>2, <3>4
  <2>4. CASE BiosPublish
    <3>1. Orderly(Unread', Used(hdr)', nextId + 1, Got)
      BY <1>1, <1>5, <2>2, <2>4, StraddlingPublished
    <3>2. /\ nextId' = nextId + 1 /\ bios'.step = "idle"
          /\ hdr'.bmcReadPtr = hdr.bmcReadPtr
      BY <2>4 DEF BiosPublish, IdleBios, TypeInv, TypeOK, Header
    <3>3. Memory' /\ TypeInv'
      BY BiosMemory, BiosTypeInv
    <3>4. Used(hdr)' \in Nat
      <4>1. Used(hdr)' = Distance(hdr'.bmcReadPtr, hdr'.biosWritePtr)
        BY DEF Used, Distance
      <4>2. hdr'.bmcReadPtr \in Index /\ hdr'.biosWritePtr \in Index
        BY <3>3 DEF Memory
      <4>. QED
        BY <4>1, <4>2, DistanceRange
    <3>5. Appending'
      BY <3>2 DEF Appending
    <3>6. Orderly(Unread, Used(hdr), nextId, Got)'
      BY <1>2, <3>1, <3>2
    <3>. QED
      BY <1>3, <2>1, <3>2, <3>4, <3>5, <3>6
  <2>5. \A size : ~BiosReserve(size)
    BY <1>5 DEF Straddling, BiosReserve
  <2>. QED
    BY <2>3, <2>4, <2>5 DEF Bios
<1>. QED
  BY <1>4, <1>5 DEF AtRest

(* Every step of the BIOS keeps the invariant.                             *)
LEMMA BiosLossyInv ==
  ASSUME TypeInv, LossyInv, Bios, ~torn'
  PROVE  LossyInv'
<1>1. /\ Memory /\ Memory'
      /\ UNCHANGED <<cached, pc, call, delivered>>
      /\ nextId \in Nat \ {0}
  BY BiosMemory DEF LossyInv, Bios, bmcVars, TypeInv, TypeOK
<1>2. nextId' \in {nextId, nextId + 1} /\ hdr'.bmcReadPtr = hdr.bmcReadPtr
  BY DEF Bios, BiosReserve, BiosWrite, BiosPublish, TypeInv, TypeOK, Header
<1>3. SUFFICES ASSUME ~Tainted(delivered)
               PROVE  Unreliable!InOrderUpTo(delivered, nextId - 1)' /\ Standing'
  BY <1>1 DEF LossyInv, Tainted
<1>4. Unreliable!InOrderUpTo(delivered, nextId - 1) /\ Standing
  BY <1>3 DEF LossyInv
<1>5. Unreliable!InOrderUpTo(delivered, nextId - 1)'
  <2>1. \A i \in DOMAIN delivered : delivered[i] \in 0 .. nextId' - 1
    BY <1>1, <1>2, <1>4 DEF Unreliable!InOrderUpTo
  <2>. QED
    BY <1>1, <1>4, <2>1 DEF Unreliable!InOrderUpTo
<1>. SUFFICES Standing'
  BY <1>5
<1>6. CASE pc = "erase" /\ call.entryPairs = <<>>
  BY <1>1, <1>6 DEF Standing
<1>7. CASE /\ pc = "writeHeader" /\ call.entryPairs = <<>>
           /\ bios.step = "idle" \/ Straddling
  <2>1. \A size : ~BiosReserve(size)
    BY <1>1, <1>7 DEF BiosReserve, Memory, FreeFor, HalfWrittenPtrs
  <2>2. CASE BiosWrite
    BY <1>1, <1>7, <2>2, StraddlingWrite DEF Standing, BiosWrite
  <2>3. CASE BiosPublish
    BY <1>1, <1>7, <2>3 DEF Standing, BiosPublish, IdleBios
  <2>. QED
    BY <2>1, <2>2, <2>3 DEF Bios
<1>8. CASE pc \in {"idle", "header", "check"} /\ AtRest
  BY <1>1, <1>8, BiosAtRest DEF Standing
<1>9. CASE pc \in Looping /\ InCall
  <2>1. (~InPayload => call.entryHeader = NoHeader)'
    BY <1>1, <1>9 DEF InCall, InPayload, Asked
  <2>2. CASE Misread
    BY <1>1, <1>9, <2>1, <2>2 DEF Standing, InCall, Misread, Tainted
  <2>3. CASE Located /\ (Left >= 0 => Within)
    <3>1. Located' /\ Left' = Left
      BY <1>2, <2>3, BiosLocated DEF Bios
    <3>2. Left >= 0 => Within'
      BY <1>1, <1>9, <2>3, BiosWithin
    <3>. QED
      BY <1>1, <1>9, <2>1, <3>1, <3>2 DEF Standing, InCall
  <2>. QED
    BY <1>9, <2>2, <2>3 DEF InCall
<1>. QED
  BY <1>4, <1>6, <1>7, <1>8, <1>9 DEF Standing

-----------------------------------------------------------------------------
(* The steps of the BMC.                                                   *)

(* A step that leaves the shared memory alone leaves the unread bytes      *)
(* alone.                                                                  *)
LEMMA SameMemory ==
  ASSUME TypeInv, Memory, UNCHANGED <<hdr, cells, biosVars>>,
         \/ pc' = "erase"
         \/ pc' # "writeHeader" /\ pc \notin {"erase", "writeHeader"}
  PROVE  /\ Memory' /\ nextId' = nextId
         /\ Unread' = Unread /\ Used(hdr)' = Used(hdr)
         /\ (Appending => Appending') /\ (Straddling => Straddling')
<1>1. /\ Unread' = Unread /\ Used(hdr)' = Used(hdr) /\ nextId' = nextId
      /\ bios' = bios
  BY DEF Unread, Used, biosVars
<1>2. Memory'
  BY <1>1 DEF Memory, SizesMatch
<1>3. Appending => Appending'
  BY <1>1 DEF Appending
<1>4. Straddling => Straddling'
  BY <1>1 DEF Straddling, Distance
<1>. QED
  BY <1>1, <1>2, <1>3, <1>4

LEMMA GotAtRest ==
  ASSUME TypeInv, call.entryPairs = <<>>
  PROVE  Got = delivered
<1>1. delivered \in Seq(Int)
  BY DEF TypeInv, TypeOK
<1>. QED
  BY <1>1, EmptyCallGot DEF Got

LEMMA ReadHeaderLowStanding ==
  ASSUME TypeInv, TypeInv', Memory, Standing, ReadHeaderLow, UNCHANGED biosVars
  PROVE  Standing'
<1>1. /\ UNCHANGED <<hdr, cells, cached, delivered>>
      /\ pc = "idle" /\ pc' = "header"
      /\ call' = [NoCall EXCEPT !.low = hdr.biosWritePtr]
  BY DEF ReadHeaderLow
<1>2. AtRest
  BY <1>1 DEF Standing, Looping
<1>3. /\ Unread' = Unread /\ Used(hdr)' = Used(hdr) /\ nextId' = nextId
      /\ Appending' \/ Straddling'
  BY <1>1, <1>2, SameMemory DEF AtRest
<1>4. call'.low = hdr.biosWritePtr /\ call'.entryPairs = <<>>
  BY <1>1 DEF NoCall
<1>5. Got' = Got
  BY <1>1, <1>2, <1>4 DEF Got, AtRest
<1>6. /\ call'.low \in Index
      /\ Distance(hdr.bmcReadPtr, call.low)' <= Used(hdr)
  BY <1>1, <1>4, MemoryTypes DEF Distance
<1>7. AtRest'
  BY <1>1, <1>2, <1>3, <1>4, <1>5, <1>6 DEF AtRest
<1>. QED
  BY <1>1, <1>7 DEF Standing

LEMMA ReadHeaderHighStanding ==
  ASSUME TypeInv, Memory, Standing, ReadHeaderHigh, ~torn',
         UNCHANGED biosVars
  PROVE  Standing'
<1>. DEFINE copied == MixedPtr(call.low, hdr.biosWritePtr)
<1>1. /\ UNCHANGED <<hdr, cells, call, delivered>>
      /\ pc = "header" /\ pc' = "check"
      /\ cached' = [hdr EXCEPT !.biosWritePtr = copied]
  BY DEF ReadHeaderHigh, TypeInv, TypeOK, Header
<1>2. AtRest /\ Region
  BY <1>1, MemoryRegion DEF Standing, Looping
<1>3. /\ Unread' = Unread /\ Used(hdr)' = Used(hdr) /\ nextId' = nextId
      /\ Appending' \/ Straddling'
  BY <1>1, <1>2, SameMemory DEF AtRest
<1>4. copied \in {call.low, hdr.biosWritePtr}
  BY DEF ReadHeaderHigh
<1>. HIDE DEF copied
<1>5. copied \in Index /\ Distance(hdr.bmcReadPtr, copied) <= Used(hdr)
  BY <1>1, <1>2, <1>4, MemoryTypes DEF AtRest
<1>6. /\ cached'.bmcReadPtr = hdr.bmcReadPtr
      /\ cached'.biosWritePtr = copied
      /\ cached'.queueSize = hdr.queueSize
      /\ cached'.ueRegionSize = hdr.ueRegionSize
  BY <1>1 DEF TypeInv, TypeOK, Header
<1>7. /\ SizesMatch(cached)' /\ Rest' = Distance(hdr.bmcReadPtr, copied)
  BY <1>1, <1>2, <1>6 DEF Region, SizesMatch, Rest, Distance
<1>8. Got' = Got
  BY <1>1 DEF Got
<1>9. AtRest'
  BY <1>1, <1>2, <1>3, <1>5, <1>6, <1>7, <1>8 DEF AtRest
<1>. QED
  BY <1>1, <1>9 DEF Standing

LEMMA CheckFindsNothingStanding ==
  ASSUME TypeInv, Memory, Standing, CheckFindsNothing, UNCHANGED biosVars
  PROVE  Standing'
<1>1. /\ UNCHANGED <<hdr, cells, cached, delivered>>
      /\ pc = "check" /\ pc' = "idle" /\ call' = NoCall
  BY DEF CheckFindsNothing
<1>2. AtRest
  BY <1>1 DEF Standing, Looping
<1>3. /\ Unread' = Unread /\ Used(hdr)' = Used(hdr) /\ nextId' = nextId
      /\ Appending' \/ Straddling'
  BY <1>1, <1>2, SameMemory DEF AtRest
<1>4. Got' = Got /\ call'.entryPairs = <<>>
  BY <1>1, <1>2, NoEntries DEF Got, AtRest
<1>5. AtRest'
  BY <1>1, <1>2, <1>3, <1>4 DEF AtRest
<1>. QED
  BY <1>1, <1>5 DEF Standing

(* There is something to be read, so no append straddles initialize().     *)
LEMMA CheckFindsEntriesStanding ==
  ASSUME TypeInv, Memory, Standing, CheckFindsEntries, UNCHANGED biosVars
  PROVE  Standing'
<1>1. /\ UNCHANGED <<hdr, cells, cached, delivered>>
      /\ pc = "check" /\ pc' = "loop"
      /\ cached.biosWritePtr # cached.bmcReadPtr
      /\ call' = [NoCall EXCEPT !.bytesToRead =
                    BytesToRead(cached.bmcReadPtr, cached.biosWritePtr)]
  BY DEF CheckFindsEntries
<1>2. AtRest
  BY <1>1 DEF Standing, Looping
<1>3. /\ cached.bmcReadPtr = hdr.bmcReadPtr
      /\ cached.biosWritePtr \in Index /\ hdr.bmcReadPtr \in Index
      /\ Rest <= Used(hdr) /\ Used(hdr) \in Nat
      /\ Rest = Distance(cached.bmcReadPtr, cached.biosWritePtr)
  BY <1>1, <1>2, MemoryTypes DEF AtRest, Rest
<1>4. /\ Rest \in 0 .. MaxOffset - 1 /\ Rest # 0
      /\ call'.bytesToRead = Rest
      /\ hdr.bmcReadPtr + Rest - cached.biosWritePtr \in {0, MaxOffset}
  <2>1. Rest \in 0 .. MaxOffset - 1 /\ Rest # 0
    BY <1>1, <1>3, DistanceRange
  <2>2. call'.bytesToRead = Rest
    BY <1>1, <1>3, BytesToReadIsDistance DEF NoCall
  <2>3. hdr.bmcReadPtr + Rest - cached.biosWritePtr \in {0, MaxOffset}
    BY <1>3, MaxOffsetType DEF Distance
  <2>. QED
    BY <2>1, <2>2, <2>3
<1>5. Appending
  <2>1. Rest \in Int /\ Rest > 0
    BY <1>4, MaxOffsetType
  <2>2. ~Straddling
    BY <1>3, <2>1, StraddlingEmpty
  <2>. QED
    BY <1>2, <2>2 DEF AtRest
<1>6. /\ Unread' = Unread /\ Used(hdr)' = Used(hdr) /\ nextId' = nextId
      /\ Appending'
  BY <1>1, <1>5, SameMemory
<1>7. /\ call'.entryPairs = <<>> /\ call'.byteRead = 0
      /\ call'.entryHeader = NoHeader
  BY <1>1 DEF NoCall
<1>8. Got' = Got
  BY <1>1, <1>2, <1>7 DEF Got, AtRest
<1>9. Passed' = 0 /\ Left' = Rest /\ ~Asked("header")' /\ ~InPayload'
  <2>1. Passed' = 0 /\ ~Asked("header")' /\ ~InPayload'
    BY <1>1 DEF Passed, Asked, InPayload
  <2>2. Left' = call'.bytesToRead - call'.byteRead - Passed'
    BY DEF Left
  <2>. QED
    BY <1>4, <1>7, <2>1, <2>2
<1>10. Located'
  BY <1>1, <1>3, <1>4, <1>9, MaxOffsetType DEF Located
<1>11. Within'
  BY <1>1, <1>2, <1>3, <1>6, <1>8, <1>9 DEF Within, AtRest, AtHand
<1>. QED
  BY <1>1, <1>7, <1>10, <1>11 DEF Standing, InCall, Looping

LEMMA ReadEntryHeaderStanding ==
  ASSUME TypeInv, Memory, Standing, ReadEntryHeader, UNCHANGED biosVars
  PROVE  Standing'
<1>1. /\ UNCHANGED <<hdr, cells, cached, delivered>>
      /\ pc = "loop" /\ pc' = "toEnd"
      /\ call.byteRead < call.bytesToRead
      /\ call' = [call EXCEPT !.reading = "header", !.length = EntryHeaderSize,
                              !.bytes = <<>>]
  BY DEF ReadEntryHeader
<1>2. /\ call'.entryPairs = call.entryPairs /\ call'.byteRead = call.byteRead
      /\ call'.bytesToRead = call.bytesToRead
      /\ call'.entryHeader = call.entryHeader
      /\ call'.reading = "header" /\ call'.length = EntryHeaderSize
  BY <1>1 DEF TypeInv, TypeOK, Call
<1>3. InCall /\ ~InPayload
  BY <1>1 DEF Standing, Looping, InPayload, Asked
<1>4. /\ Passed = 0 /\ Passed' = 0 /\ Left' = Left /\ Left \in Int /\ Left > 0
      /\ Asked("header")' /\ ~InPayload'
  <2>1. Passed' = 0 /\ Asked("header")' /\ ~InPayload'
    BY <1>1, <1>2 DEF Passed, Asked, InPayload
  <2>2. Left' = call'.bytesToRead - call'.byteRead - Passed'
    BY DEF Left
  <2>. QED
    BY <1>1, <1>2, <2>1, <2>2, Progress
<1>5. CASE Misread
  BY <1>1, <1>2, <1>3, <1>5 DEF Standing, InCall, Misread, Looping
<1>6. CASE Located /\ (Left >= 0 => Within)
  <2>1. Within
    BY <1>4, <1>6
  <2>2. /\ Unread' = Unread /\ Used(hdr)' = Used(hdr) /\ nextId' = nextId
        /\ Appending'
    BY <1>1, <2>1, SameMemory DEF Within
  <2>3. Got' = Got
    BY <1>1, <1>2 DEF Got
  <2>4. Located'
    BY <1>1, <1>2, <1>4, <1>6 DEF Located
  <2>5. Within'
    BY <1>1, <1>4, <2>1, <2>2, <2>3 DEF Within, AtHand
  <2>. QED
    BY <1>1, <1>2, <1>3, <2>4, <2>5 DEF Standing, InCall, Looping
<1>. QED
  BY <1>3, <1>5, <1>6 DEF InCall

(* One of the two reads of wraparoundRead; the first byte of a header is   *)
(* the first unread one.                                                   *)
LEMMA BytesReadStanding ==
  ASSUME TypeInv, Memory, Standing, pc \in {"toEnd", "wrapped"},
         pc' \in {"wrapped", "update"},
         UNCHANGED <<hdr, cells, cached, delivered, biosVars>>,
         NEW b, call' = [call EXCEPT !.bytes = b],
         Located /\ Left >= 0 /\ Within /\ Asked("header") => b[1] = Unread[0]
  PROVE  Standing'
<1>1. UNCHANGED <<hdr, cells, cached, delivered>> /\ UNCHANGED biosVars
  OBVIOUS
<1>2. /\ call'.entryPairs = call.entryPairs /\ call'.byteRead = call.byteRead
      /\ call'.bytesToRead = call.bytesToRead
      /\ call'.entryHeader = call.entryHeader
      /\ call'.reading = call.reading /\ call'.length = call.length
      /\ call'.bytes = b
  BY DEF TypeInv, TypeOK, Call
<1>3. /\ InCall
      /\ Asked("header")' = Asked("header") /\ Asked("payload")' = Asked("payload")
      /\ InPayload' = InPayload
  BY <1>2 DEF Standing, Looping, InPayload, Asked
<1>4. Passed' = Passed /\ Left' = Left
  <2>1. Passed' = Passed
    BY <1>3 DEF Passed
  <2>. QED
    BY <1>2, <2>1 DEF Left
<1>5. (~InPayload => call.entryHeader = NoHeader)'
  BY <1>2, <1>3 DEF InCall
<1>6. pc' \in Looping
  BY DEF Looping
<1>7. CASE Misread
  BY <1>2, <1>5, <1>6, <1>7 DEF Standing, InCall, Misread
<1>8. CASE Located /\ (Left >= 0 => Within)
  <2>1. Located'
    BY <1>1, <1>2, <1>3, <1>4, <1>8 DEF Located
  <2>2. ASSUME Left >= 0
        PROVE  Within'
    <3>1. /\ Unread' = Unread /\ Used(hdr)' = Used(hdr) /\ nextId' = nextId
          /\ Appending'
      BY <1>1, <1>8, <2>2, SameMemory DEF Within
    <3>2. Got' = Got
      BY <1>1, <1>2 DEF Got
    <3>3. AtHand(Unread, Used(hdr), nextId, Got)'
      BY <1>2, <1>3, <1>4, <1>8, <2>2, <3>1, <3>2 DEF Within, AtHand
    <3>. QED
      BY <1>4, <1>8, <2>2, <3>1, <3>2, <3>3 DEF Within
  <2>. QED
    BY <1>4, <1>5, <1>6, <2>1, <2>2 DEF Standing, InCall
<1>. QED
  BY <1>3, <1>7, <1>8 DEF InCall

(* An entry header is not empty, so its first byte is before the end of    *)
(* the queue.                                                              *)
LEMMA FirstRead ==
  ASSUME TypeInv, Memory, Located, Left >= 0, Within, Asked("header")
  PROVE  /\ NumBytesTillQueueEnd(cached.bmcReadPtr, call.length) \in Nat \ {0}
         /\ Unread[0] = cells[cached.bmcReadPtr]
<1>1. /\ call.length = EntryHeaderSize
      /\ cached.bmcReadPtr = hdr.bmcReadPtr /\ hdr.bmcReadPtr \in Index
      /\ EntryHeaderSize \in Nat /\ EntryHeaderSize > 0 /\ EntryHeaderSize < MaxOffset
  BY MaxOffsetType DEF Located, Memory
<1>2. NumBytesTillQueueEnd(cached.bmcReadPtr, call.length) \in Nat \ {0}
  BY <1>1, MaxOffsetType DEF NumBytesTillQueueEnd, NumWraparoundBytes
<1>3. 0 \in 0 .. Used(hdr) - 1
  <2>1. Passed = 0 /\ Left \in Int
    BY Progress
  <2>2. pc # "loop"
    BY DEF Asked
  <2>3. Left > 0 /\ Left <= Used(hdr) /\ Used(hdr) \in Nat
    BY <2>1, <2>2, MemoryTypes DEF Located, Within
  <2>. QED
    BY <2>1, <2>3
<1>4. Wrap(hdr.bmcReadPtr + 0) = hdr.bmcReadPtr
  BY <1>1, MaxOffsetType DEF Wrap
<1>. QED
  BY <1>1, <1>2, <1>3, <1>4 DEF Unread

LEMMA ReadToQueueEndStanding ==
  ASSUME TypeInv, Memory, Standing, ReadToQueueEnd, UNCHANGED biosVars
  PROVE  Standing'
<1>. DEFINE r == cached.bmcReadPtr
            m == NumBytesTillQueueEnd(r, call.length)
<1>1. /\ UNCHANGED <<hdr, cells, cached, delivered, biosVars>>
      /\ pc = "toEnd" /\ pc' \in {"wrapped", "update"}
      /\ call' = [call EXCEPT !.bytes = CellsAt(r, m)]
  BY DEF ReadToQueueEnd
<1>2. ASSUME Located /\ Left >= 0 /\ Within /\ Asked("header")
      PROVE  CellsAt(r, m)[1] = Unread[0]
  <2>1. m \in Nat \ {0} /\ Unread[0] = cells[r] /\ r \in Nat
    BY <1>2, FirstRead, MaxOffsetType DEF Located, Memory
  <2>. HIDE DEF m, r
  <2>2. 1 \in 1 .. m /\ r + 1 - 1 = r
    BY <2>1
  <2>3. CellsAt(r, m)[1] = cells[r + 1 - 1]
    BY <2>2, Zenon DEF CellsAt
  <2>. QED
    BY <2>1, <2>2, <2>3
<1>. QED
  BY <1>1, <1>2, BytesReadStanding

LEMMA ReadWrappedStanding ==
  ASSUME TypeInv, Memory, Standing, ReadWrapped, UNCHANGED biosVars
  PROVE  Standing'
<1>. DEFINE r == cached.bmcReadPtr
            rest == CellsAt(0, NumWraparoundBytes(r, call.length))
<1>1. /\ UNCHANGED <<hdr, cells, cached, delivered, biosVars>>
      /\ pc = "wrapped" /\ pc' = "update"
      /\ call' = [call EXCEPT !.bytes = call.bytes \o rest]
  BY DEF ReadWrapped
<1>2. ASSUME Located /\ Left >= 0 /\ Within /\ Asked("header")
      PROVE  (call.bytes \o rest)[1] = Unread[0]
  <2>1. Len(call.bytes) \in Nat \ {0}
    BY <1>1, <1>2, FirstRead DEF TypeInv, ReadIsComplete
  <2>2. /\ call.bytes \in Seq(Cell)
        /\ rest \in Seq(Cell)
    <3>1. call.bytes \in Seq(Cell)
      BY DEF TypeInv, TypeOK, Call
    <3>2. r \in Index /\ call.length \in Nat /\ call.length < MaxOffset
      BY <1>2, MaxOffsetType DEF Located, Memory
    <3>3. /\ NumWraparoundBytes(r, call.length) \in Nat
          /\ 0 + NumWraparoundBytes(r, call.length) <= MaxOffset
      <4>1. NumWraparoundBytes(r, call.length) \in 0 .. call.length
        BY <3>2, ReadOffsets
      <4>. QED
        BY <3>2, <4>1, MaxOffsetType
    <3>4. cells \in [Index -> Cell]
      BY DEF TypeInv, TypeOK
    <3>. QED
      BY <3>1, <3>3, <3>4, CellsAtType
  <2>. HIDE DEF rest
  <2>3. (call.bytes \o rest)[1] = call.bytes[1]
    <3>1. 1 \in 1 .. Len(call.bytes)
      BY <2>1
    <3>. QED
      BY <2>2, <3>1, ConcatElements
  <2>. QED
    BY <1>1, <1>2, <2>3 DEF Within, AtHand
<1>. QED
  BY <1>1, <1>2, BytesReadStanding

(* Moving the read pointer over unread bytes drops them, and keeps what    *)
(* the BIOS is appending behind the others.                                *)
LEMMA UnreadDropped ==
  ASSUME TypeInv, Memory, Appending, UNCHANGED <<cells, biosVars>>,
         NEW m \in Nat, m <= Used(hdr),
         hdr' = [hdr EXCEPT !.bmcReadPtr = Wrap(hdr.bmcReadPtr + m)]
  PROVE  /\ Used(hdr)' = Used(hdr) - m
         /\ Behind(Unread, Used(hdr), Unread', m)
         /\ Appending'
<1>. DEFINE r == hdr.bmcReadPtr
            w == hdr.biosWritePtr
            n == Used(hdr)
<1>1. /\ n \in Nat /\ n < MaxOffset /\ n = Distance(r, w)
      /\ r \in Index /\ w \in Index /\ m <= n
  BY MemoryTypes
<1>2. hdr'.bmcReadPtr = Wrap(r + m) /\ hdr'.biosWritePtr = w
  BY DEF TypeInv, TypeOK, Header
<1>3. Used(hdr)' = n - m
  <2>1. Used(hdr)' = Distance(hdr'.bmcReadPtr, hdr'.biosWritePtr)
    BY DEF Used, Distance
  <2>2. Distance(Wrap(r + m), w) = Distance(r, w) - m
    BY <1>1, DistanceAfterRead
  <2>. QED
    BY <1>1, <1>2, <2>1, <2>2
<1>4. ASSUME NEW k \in 0 .. n - m - 1
      PROVE  Unread'[k] = Unread[k + m]
  <2>1. k + m \in 0 .. n - 1 /\ k \in Nat /\ m + k < MaxOffset
    BY <1>1, MaxOffsetType
  <2>2. Unread'[k] = cells[Wrap(Wrap(r + m) + k)]
    <3>1. k \in 0 .. Used(hdr)' - 1
      BY <1>1, <1>3, <2>1
    <3>. QED
      BY <1>2, <3>1 DEF Unread
  <2>3. Unread[k + m] = cells[Wrap(r + (k + m))]
    BY <2>1 DEF Unread
  <2>4. Wrap(Wrap(r + m) + k) = Wrap(r + m + k)
    BY <1>1, <2>1, WrapTwice
  <2>5. r + m + k = r + (k + m)
    BY <1>1, <2>1, MaxOffsetType
  <2>. QED
    BY <2>2, <2>3, <2>4, <2>5
<1>5. Behind(Unread, n, Unread', m)
  BY <1>4 DEF Behind
<1>6. Appending'
  <2>1. UNCHANGED <<bios, nextId, cells>>
    BY DEF biosVars
  <2>2. ASSUME bios.step # "idle"
        PROVE  /\ bios.at = hdr.biosWritePtr
               /\ bios.size \in Sizes
               /\ n - m + EntryHeaderSize + bios.size < MaxOffset
    <3>1. /\ bios.at = hdr.biosWritePtr
          /\ bios.size \in Sizes
          /\ n + EntryHeaderSize + bios.size < MaxOffset
      BY <2>2 DEF Appending
    <3>2. bios.size \in Nat /\ EntryHeaderSize \in Nat
      BY <3>1, EntryFits
    <3>. HIDE DEF n
    <3>3. n - m + EntryHeaderSize + bios.size < MaxOffset
      BY <1>1, <3>1, <3>2, MaxOffsetType
    <3>. QED
      BY <3>1, <3>3
  <2>. QED
    BY <1>2, <1>3, <2>1, <2>2 DEF Appending
<1>. QED
  BY <1>3, <1>5, <1>6

(* The distance of the read pointer from the cached write pointer, in      *)
(* whole rounds of the queue, stays what the call computes.                *)
LEMMA LocationArithmetic ==
  ASSUME NEW r \in Index, NEW w \in Index, NEW m \in Nat, m < MaxOffset,
         NEW left \in Int, left - m > -MaxOffset,
         r + left - w \in {0, MaxOffset, -MaxOffset}
  PROVE  Wrap(r + m) + (left - m) - w \in {0, MaxOffset, -MaxOffset}
BY MaxOffsetType DEF Wrap

LEMMA UpdateReadPtrStanding ==
  ASSUME TypeInv, Memory, Standing, UpdateReadPtr, UNCHANGED biosVars
  PROVE  Standing'
<1>. DEFINE m == call.length
            n == Used(hdr)
            r == hdr.bmcReadPtr
            p == UpdatedReadPtr(cached.bmcReadPtr, call.length)
<1>1. /\ UNCHANGED <<cells, call, delivered>>
      /\ pc = "update"
      /\ pc' = IF call.reading = "header" THEN "parse" ELSE "checksum"
      /\ hdr' = [hdr EXCEPT !.bmcReadPtr = p]
      /\ cached' = [cached EXCEPT !.bmcReadPtr = p]
  BY DEF UpdateReadPtr
<1>2. /\ InCall /\ pc' \in Looping
      /\ Asked("header") => pc' = "parse"
      /\ Asked("payload") => pc' = "checksum"
      /\ InPayload = Asked("payload")
      /\ ~Asked("header")' /\ ~Asked("payload")'
      /\ InPayload' = (pc' = "checksum")
  BY <1>1 DEF Standing, Looping, InPayload, Asked
<1>3. (~InPayload => call.entryHeader = NoHeader)'
  BY <1>1, <1>2 DEF InCall, Asked
<1>4. CASE Misread
  BY <1>1, <1>2, <1>3, <1>4 DEF Standing, InCall, Misread
<1>5. CASE Located /\ (Left >= 0 => Within)
  <2>1. /\ r \in Index /\ cached.bmcReadPtr = r
        /\ cached.biosWritePtr \in Index
        /\ n \in Nat /\ n < MaxOffset
        /\ nextId \in Nat \ {0}
        /\ Left \in Int /\ Passed \in Nat /\ m \in Nat
        /\ Asked("header") \/ Asked("payload")
        /\ EntryHeaderSize \in Nat /\ EntryHeaderSize > 0
        /\ EntryHeaderSize < MaxOffset
        /\ MaxOffset \in Nat
    BY <1>1, <1>5, MemoryTypes, Progress, MaxOffsetType DEF Located
  <2>2. /\ Asked("header") => m = EntryHeaderSize /\ Passed = 0
        /\ Asked("payload") =>
             /\ m = call.entryHeader.size /\ EntryHeaderSize + m < MaxOffset
             /\ Passed = EntryHeaderSize
    BY <1>2, <1>5, Progress DEF Located
  <2>3. m < MaxOffset /\ Left + Passed > 0
    BY <1>1, <1>5, <2>1, <2>2 DEF Located
  <2>4. p = Wrap(r + m)
    BY <2>1, <2>3, UpdatedReadPtrWraps
  <2>5. /\ hdr'.bmcReadPtr = Wrap(r + m)
        /\ cached'.bmcReadPtr = Wrap(r + m)
        /\ cached'.biosWritePtr = cached.biosWritePtr
    BY <1>1, <2>4 DEF TypeInv, TypeOK, Header
  <2>6. Passed' = Passed + m /\ Passed + m \in Nat /\ Passed + m < MaxOffset
    <3>1. CASE Asked("header")
      <4>1. Passed' = EntryHeaderSize
        BY <1>2, <3>1 DEF Passed
      <4>. QED
        BY <2>1, <2>2, <3>1, <4>1
    <3>2. CASE Asked("payload")
      <4>1. Passed' = EntryHeaderSize + call.length
        BY <1>1, <1>2, <3>2 DEF Passed
      <4>. QED
        BY <2>1, <2>2, <3>2, <4>1
    <3>. QED
      BY <2>1, <3>1, <3>2
  <2>7. Left' = Left - m
    <3>1. Left' = call.bytesToRead - call.byteRead - Passed'
      BY <1>1 DEF Left
    <3>2. /\ Left = call.bytesToRead - call.byteRead - Passed
          /\ call.bytesToRead \in Nat /\ call.byteRead \in Nat
      BY Progress
    <3>. HIDE DEF m
    <3>. QED
      BY <2>1, <2>6, <3>1, <3>2
  <2>. HIDE DEF m, p
  <2>8. Left - m < MaxOffset /\ Left - m > -MaxOffset
        /\ (Left - m) + (Passed + m) > 0
    BY <1>5, <2>1, <2>3, <2>6 DEF Located
  <2>9. Wrap(r + m) + (Left - m) - cached.biosWritePtr
          \in {0, MaxOffset, -MaxOffset}
    BY <1>5, <2>1, <2>3, <2>8, LocationArithmetic DEF Located
  <2>10. ASSUME Asked("header") \/ Left - m >= 0
         PROVE  Left >= 0
    BY <2>1, <2>2, <2>3, <2>10
  <2>11. pc' = "parse" =>
           call.bytes[1] = ZeroCell \/ EntryByte(call.bytes[1], nextId)
    <3>1. SUFFICES ASSUME Asked("header")
                   PROVE  call.bytes[1] = ZeroCell \/ EntryByte(call.bytes[1], nextId)
      BY <1>2, <2>1
    <3>2. Within /\ call.bytes[1] = Unread[0]
      BY <1>1, <1>5, <2>10, <3>1 DEF Within, AtHand
    <3>3. 0 \in 0 .. Used(hdr) - 1
      BY <2>1, <2>2, <2>3, <3>1, <3>2 DEF Within
    <3>. QED
      BY <3>2, <3>3 DEF Within, Orderly, Ascending
  <2>12. Located'
    <3>1. nextId' = nextId
      BY DEF biosVars
    <3>2. InPayload' => call.length = call.entryHeader.size
                        /\ EntryHeaderSize + call.length < MaxOffset
      BY <1>2, <2>1, <2>2 DEF m
    <3>3. pc' \notin {"toEnd", "wrapped", "update"}
      BY <1>1
    <3>4. call' = call
      BY <1>1
    <3>. QED
      BY <1>2, <1>5, <2>5, <2>6, <2>7, <2>8, <2>9, <2>11, <3>1, <3>2, <3>3, <3>4
         DEF Located
  <2>13. ASSUME Left - m >= 0
         PROVE  Within'
    <3>1. Within /\ m <= Used(hdr) /\ m \in 0 .. Used(hdr)
      BY <1>5, <2>1, <2>10, <2>13 DEF Within
    <3>2. /\ Used(hdr)' = n - m /\ Behind(Unread, n, Unread', m) /\ Appending'
      BY <1>1, <2>1, <2>4, <3>1, UnreadDropped DEF Within
    <3>3. nextId' = nextId /\ Got' = Got /\ call' = call
      BY <1>1 DEF biosVars, Got
    <3>4. Orderly(Unread, n, nextId, Got)
      BY <3>1 DEF Within
    <3>5. Orderly(Unread', n - m, nextId, Got)
      BY <2>1, <3>1, <3>2, <3>4, OrderlyDrop
    <3>6. Left - m <= n - m
      BY <2>1, <3>1 DEF Within
    <3>7. \A c : Newest(c, Unread, n, nextId, Got, Passed)
                   => Newest(c, Unread', n - m, nextId, Got, Passed + m)
      BY <2>1, <3>1, <3>2, NewestDrop
    <3>8. ASSUME pc' = "parse"
          PROVE  Newest(call.bytes[1], Unread', n - m, nextId, Got, Passed + m)
      <4>1. Asked("header")
        BY <1>2, <2>1, <3>8
      <4>2. call.bytes[1] = Unread[0] /\ Passed = 0 /\ n \in Nat \ {0}
        BY <1>1, <2>1, <2>2, <2>3, <3>1, <4>1 DEF Within, AtHand
      <4>3. Newest(Unread[0], Unread, n, nextId, Got, 0)
        BY <2>1, <3>4, <4>2, HeadIsNewest
      <4>. QED
        BY <3>7, <4>2, <4>3
    <3>9. ASSUME pc' = "checksum"
          PROVE  Newest(EntryCell(call.entryHeader.id, 0, call.entryHeader.size),
                        Unread', n - m, nextId, Got, Passed + m)
      <4>1. InPayload
        BY <1>2, <2>1, <3>9
      <4>2. Newest(EntryCell(call.entryHeader.id, 0, call.entryHeader.size),
                   Unread, n, nextId, Got, Passed)
        BY <3>1, <4>1 DEF Within, AtHand
      <4>. QED
        BY <3>7, <4>2
    <3>10. AtHand(Unread, Used(hdr), nextId, Got)'
      BY <1>1, <1>2, <2>6, <3>2, <3>3, <3>8, <3>9 DEF AtHand
    <3>. QED
      BY <2>7, <3>2, <3>3, <3>5, <3>6, <3>10 DEF Within
  <2>. QED
    BY <1>2, <1>3, <2>7, <2>12, <2>13 DEF Standing, InCall
<1>. QED
  BY <1>2, <1>4, <1>5 DEF InCall

(* An exception leaves the call.                                           *)
LEMMA ThrowStanding ==
  ASSUME Throw
  PROVE  Standing'
BY NoEntries DEF Throw, Standing

(* readEntryHeader has read zeroed memory, bytes that begin with those of  *)
(* an entry it takes for one, or bytes of no single entry.                 *)
LEMMA HeaderOf ==
  ASSUME NEW bytes \in Seq(Cell), Len(bytes) = EntryHeaderSize,
         bytes[1] = ZeroCell \/ EntryByte(bytes[1], nextId),
         NEW h \in HeadersOf(bytes)
  PROVE  \/ h.id < 0
         \/ /\ h.id = 0 \/ EntryCell(h.id, 0, h.size) = bytes[1]
            /\ EntryHeaderSize + h.size < MaxOffset
<1>1. 1 \in 1 .. EntryHeaderSize /\ EntryHeaderSize < MaxOffset
      /\ EntryHeaderSize \in Nat
  BY MaxOffsetType
<1>2. CASE ZeroBytes(bytes)
  <2>1. h.id = 0 /\ h.size = 0
    BY <1>2 DEF HeadersOf
  <2>. QED
    BY <1>1, <2>1
<1>3. CASE ~ZeroBytes(bytes) /\ IntactHeader(bytes)
  <2>1. h.id = bytes[1].id /\ h.size = bytes[1].size /\ bytes[1].id > 0
    BY <1>3 DEF HeadersOf, IntactHeader
  <2>2. bytes[1] = EntryCell(bytes[1].id, 1 - 1, bytes[1].size)
    BY <1>1, <1>3 DEF IntactHeader
  <2>3. bytes[1] # ZeroCell
    BY <2>1 DEF ZeroCell, EntryCell
  <2>4. h.size \in Sizes
    BY <2>1, <2>3 DEF EntryByte
  <2>. QED
    BY <2>1, <2>2, <2>4, EntryFits
<1>4. CASE ~ZeroBytes(bytes) /\ ~IntactHeader(bytes)
  <2>1. h \in [id : {Garbled}, size : 0 .. MaxOffset + 1]
    BY <1>4 DEF HeadersOf
  <2>. QED
    BY <2>1 DEF Garbled
<1>. QED
  BY <1>2, <1>3, <1>4

LEMMA ReadPayloadStanding ==
  ASSUME TypeInv, Memory, Standing, ReadPayload, UNCHANGED biosVars
  PROVE  Standing'
<1>1. pc = "parse"
  BY DEF ReadPayload
<1>2. PICK h \in HeadersOf(call.bytes) :
        \/ /\ pc' = "toEnd"
           /\ call' = [call EXCEPT !.reading = "payload", !.length = h.size,
                                   !.bytes = <<>>, !.entryHeader = h]
           /\ UNCHANGED <<hdr, cells, cached, delivered>>
        \/ Throw
  BY DEF ReadPayload
<1>3. CASE Throw
  BY <1>3, ThrowStanding
<1>4. CASE /\ pc' = "toEnd"
           /\ call' = [call EXCEPT !.reading = "payload", !.length = h.size,
                                   !.bytes = <<>>, !.entryHeader = h]
           /\ UNCHANGED <<hdr, cells, cached, delivered>>
  <2>1. /\ call'.entryPairs = call.entryPairs /\ call'.byteRead = call.byteRead
        /\ call'.bytesToRead = call.bytesToRead
        /\ call'.reading = "payload" /\ call'.length = h.size
        /\ call'.entryHeader = h
    BY <1>4 DEF TypeInv, TypeOK, Call
  <2>2. InCall /\ ~InPayload
    BY <1>1 DEF Standing, Looping, InPayload, Asked
  <2>3. pc' \in Looping /\ InPayload' /\ ~Asked("header")'
        /\ Asked("payload")' /\ pc' # "checksum" /\ pc' # "parse"
    BY <1>4, <2>1 DEF Looping, InPayload, Asked
  <2>4. CASE Misread
    <3>1. Misread'
      BY <2>1, <2>2, <2>4 DEF InCall, Misread, NoHeader
    <3>. QED
      BY <2>3, <3>1 DEF Standing, InCall
  <2>5. CASE h.id < 0
    <3>1. Misread'
      BY <2>1, <2>5 DEF Misread
    <3>. QED
      BY <2>3, <3>1 DEF Standing, InCall
  <2>6. CASE Located /\ (Left >= 0 => Within) /\ ~(h.id < 0)
    <3>1. /\ h.id = 0 \/ EntryCell(h.id, 0, h.size) = call.bytes[1]
          /\ EntryHeaderSize + h.size < MaxOffset
      <4>1. /\ call.bytes \in Seq(Cell) /\ Len(call.bytes) = EntryHeaderSize
            /\ call.bytes[1] = ZeroCell \/ EntryByte(call.bytes[1], nextId)
        BY <1>1, <2>6 DEF TypeInv, TypeOK, Call, ReadIsComplete, Located
      <4>. QED
        BY <2>6, <4>1, HeaderOf
    <3>2. Passed = EntryHeaderSize /\ Passed' = EntryHeaderSize
      BY <1>1, <2>3, Progress DEF Passed
    <3>3. Left' = Left
      BY <2>1, <3>2 DEF Left
    <3>4. Located'
      BY <1>1, <1>4, <2>1, <2>3, <2>6, <3>1, <3>2, <3>3 DEF Located
    <3>5. ASSUME Left >= 0
          PROVE  Within'
      <4>1. Within
        BY <2>6, <3>5
      <4>2. /\ Unread' = Unread /\ Used(hdr)' = Used(hdr) /\ nextId' = nextId
            /\ Appending'
        BY <1>1, <1>4, <4>1, SameMemory DEF Within
      <4>3. Got' = Got
        BY <1>4, <2>1 DEF Got
      <4>4. Newest(call.bytes[1], Unread, Used(hdr), nextId, Got, EntryHeaderSize)
        BY <1>1, <3>2, <4>1 DEF Within, AtHand
      <4>5. Newest(EntryCell(h.id, 0, h.size),
                   Unread, Used(hdr), nextId, Got, EntryHeaderSize)
        <5>1. CASE h.id = 0
          <6>1. EntryCell(h.id, 0, h.size).id = 0
            BY <5>1 DEF EntryCell
          <6>. QED
            BY <6>1 DEF Newest
        <5>2. CASE EntryCell(h.id, 0, h.size) = call.bytes[1]
          BY <4>4, <5>2
        <5>. QED
          BY <3>1, <5>1, <5>2
      <4>6. AtHand(Unread, Used(hdr), nextId, Got)'
        BY <2>1, <2>3, <3>2, <4>2, <4>3, <4>5 DEF AtHand
      <4>. QED
        BY <3>3, <4>1, <4>2, <4>3, <4>6 DEF Within
    <3>. QED
      BY <2>3, <3>3, <3>4, <3>5 DEF Standing, InCall
  <2>. QED
    BY <2>2, <2>4, <2>5, <2>6 DEF InCall
<1>. QED
  BY <1>2, <1>3, <1>4

(* What is appended to entries that show a misread still shows it.         *)
LEMMA TaintStays ==
  ASSUME NEW d \in Seq(Int), NEW p \in Seq(Int), NEW e \in Int
  PROVE  /\ Tainted(p) => Tainted(d \o p) /\ Tainted(Append(p, e))
         /\ e < 0 => Tainted(Append(p, e))
<1>1. /\ DOMAIN p = 1 .. Len(p) /\ Len(p) \in Nat /\ Len(d) \in Nat
      /\ DOMAIN (d \o p) = 1 .. Len(d) + Len(p)
      /\ \A i \in 1 .. Len(p) : (d \o p)[i + Len(d)] = p[i]
      /\ DOMAIN Append(p, e) = 1 .. Len(p) + 1
      /\ \A i \in 1 .. Len(p) : Append(p, e)[i] = p[i]
      /\ Append(p, e)[Len(p) + 1] = e
  OBVIOUS
<1>2. ASSUME NEW i \in DOMAIN p, p[i] < 0
      PROVE  Tainted(d \o p) /\ Tainted(Append(p, e))
  <2>1. /\ i + Len(d) \in DOMAIN (d \o p) /\ (d \o p)[i + Len(d)] < 0
        /\ i \in DOMAIN Append(p, e) /\ Append(p, e)[i] < 0
    BY <1>1, <1>2
  <2>. QED
    BY <2>1 DEF Tainted
<1>3. e < 0 => Tainted(Append(p, e))
  <2>1. Len(p) + 1 \in DOMAIN Append(p, e)
    BY <1>1
  <2>. QED
    BY <1>1, <2>1 DEF Tainted
<1>. QED
  BY <1>2, <1>3 DEF Tainted

(* readEntry returns the entry at hand, or something that shows it was no  *)
(* entry.                                                                  *)
LEMMA EntryOf ==
  ASSUME NEW header \in [id : Int, size : Nat], NEW bytes,
         NEW e \in EntriesOf(header, bytes)
  PROVE  e \in Int /\ (e < 0 \/ e = header.id) /\ (header.id < 0 => e < 0)
<1>1. e \in {0, header.id, Garbled} /\ header.id \in Int
  BY DEF EntriesOf
<1>2. header.id < 0 => e = Garbled
  BY DEF EntriesOf, IntactEntry
<1>3. header.id = 0 => e = 0
  BY DEF EntriesOf
<1>4. header.id # 0 => e \in {header.id, Garbled}
  BY DEF EntriesOf
<1>. QED
  BY <1>1, <1>2, <1>3, <1>4 DEF Garbled

(* Appending to the entries of the call appends to what was received.      *)
LEMMA AppendBehind ==
  ASSUME NEW d \in Seq(Int), NEW p \in Seq(Int), NEW e \in Int
  PROVE  d \o Append(p, e) = Append(d \o p, e)
<1>. DEFINE q == d \o p
            left == d \o Append(p, e)
            right == Append(q, e)
<1>1. /\ left \in Seq(Int) /\ right \in Seq(Int) /\ q \in Seq(Int)
  OBVIOUS
<1>2. /\ Len(left) = Len(q) + 1 /\ Len(q) \in Nat
      /\ \A i \in 1 .. Len(q) : left[i] = q[i]
      /\ left[Len(q) + 1] = e
  BY OneMore
<1>. HIDE DEF q
<1>3. /\ Len(right) = Len(q) + 1
      /\ \A i \in 1 .. Len(q) : right[i] = q[i]
      /\ right[Len(q) + 1] = e
  BY <1>1
<1>. HIDE DEF left, right
<1>4. ASSUME NEW i \in 1 .. Len(left)
      PROVE  left[i] = right[i]
  <2>1. i \in 1 .. Len(q) \/ i = Len(q) + 1
    BY <1>2
  <2>. QED
    BY <1>2, <1>3, <2>1
<1>5. left = right
  BY <1>1, <1>2, <1>3, <1>4
<1>. QED
  BY <1>5 DEF left, right, q

LEMMA AcceptEntryStanding ==
  ASSUME TypeInv, Memory, Standing, AcceptEntry, UNCHANGED biosVars
  PROVE  Standing'
<1>1. /\ pc = "checksum" /\ pc' = "loop"
      /\ UNCHANGED <<hdr, cells, cached, delivered>>
  BY DEF AcceptEntry
<1>2. PICK e \in EntriesOf(call.entryHeader, call.bytes) :
        call' = [call EXCEPT !.entryPairs = Append(call.entryPairs, e),
                             !.byteRead = call.byteRead + EntryHeaderSize + call.length,
                             !.reading = "none", !.length = 0, !.bytes = <<>>,
                             !.entryHeader = NoHeader]
  BY DEF AcceptEntry
<1>3. /\ call'.entryPairs = Append(call.entryPairs, e)
      /\ call'.byteRead = call.byteRead + EntryHeaderSize + call.length
      /\ call'.bytesToRead = call.bytesToRead
      /\ call'.entryHeader = NoHeader
  BY <1>2 DEF TypeInv, TypeOK, Call
<1>4. /\ delivered \in Seq(Int) /\ call.entryPairs \in Seq(Int)
      /\ call.entryHeader \in [id : Int, size : Nat]
  BY DEF TypeInv, TypeOK, Call
<1>5. e \in Int /\ (e < 0 \/ e = call.entryHeader.id)
      /\ (call.entryHeader.id < 0 => e < 0)
  BY <1>4, EntryOf
<1>6. InCall /\ InPayload /\ pc' \in Looping /\ ~InPayload'
      /\ ~Asked("header")'
  BY <1>1 DEF Standing, Looping, InPayload, Asked
<1>7. CASE Misread \/ e < 0
  <2>1. Misread'
    BY <1>3, <1>4, <1>5, <1>7, TaintStays DEF Misread
  <2>. QED
    BY <1>3, <1>6, <2>1 DEF Standing, InCall
<1>8. CASE Located /\ (Left >= 0 => Within) /\ ~(e < 0)
  <2>1. e = call.entryHeader.id /\ call.length = call.entryHeader.size
        /\ call.length \in Nat /\ EntryHeaderSize \in Nat
    BY <1>5, <1>6, <1>8, Progress, MaxOffsetType DEF Located
  <2>2. Passed = EntryHeaderSize + call.length /\ Passed' = 0
    BY <1>1, Progress DEF Passed, Asked
  <2>3. Left' = Left
    <3>1. Left' = call.bytesToRead
                    - (call.byteRead + EntryHeaderSize + call.length) - 0
      BY <1>3, <2>2, Zenon DEF Left
    <3>2. /\ Left = call.bytesToRead - call.byteRead
                      - (EntryHeaderSize + call.length)
          /\ call.bytesToRead \in Nat /\ call.byteRead \in Nat
      BY <2>2, Progress
    <3>. QED
      BY <2>1, <3>1, <3>2
  <2>4. Located'
    BY <1>1, <1>6, <1>8, <2>3 DEF Located
  <2>5. ASSUME Left >= 0
        PROVE  Within'
    <3>1. Within
      BY <1>8, <2>5
    <3>2. /\ Unread' = Unread /\ Used(hdr)' = Used(hdr) /\ nextId' = nextId
          /\ Appending'
      BY <1>1, <3>1, SameMemory DEF Within
    <3>3. Got' = Append(Got, e)
      <4>1. Got' = delivered \o Append(call.entryPairs, e)
        BY <1>1, <1>3 DEF Got
      <4>2. delivered \o Append(call.entryPairs, e)
              = Append(delivered \o call.entryPairs, e)
        BY <1>4, <1>5, AppendBehind
      <4>. QED
        BY <4>1, <4>2 DEF Got
    <3>4. Newest(EntryCell(e, 0, call.length), Unread, Used(hdr), nextId, Got,
                 EntryHeaderSize + call.length)
      BY <1>6, <2>1, <2>2, <3>1 DEF Within, AtHand
    <3>5. Orderly(Unread, Used(hdr), nextId, Append(Got, e))
      <4>1. Used(hdr) \in Nat /\ nextId \in Nat \ {0} /\ Got \in Seq(Int)
        BY MemoryTypes
      <4>2. Orderly(Unread, Used(hdr), nextId, Got)
        BY <3>1 DEF Within
      <4>. QED
        BY <1>5, <2>1, <3>4, <4>1, <4>2, OrderlyTake
    <3>6. AtHand(Unread, Used(hdr), nextId, Got)'
      BY <1>1, <1>6 DEF AtHand
    <3>. QED
      BY <2>3, <3>1, <3>2, <3>3, <3>5, <3>6 DEF Within
  <2>. QED
    BY <1>3, <1>6, <2>3, <2>4, <2>5 DEF Standing, InCall
<1>. QED
  BY <1>6, <1>7, <1>8 DEF InCall

(* A call that has not read as far as its write pointer, or further,       *)
(* throws, unless it is a whole round of the queue behind or ahead, which  *)
(* a call never is.                                                        *)
LEMMA ReturnEntriesStanding ==
  ASSUME TypeInv, Memory, Standing, ReturnEntries, UNCHANGED biosVars
  PROVE  \/ Tainted(delivered')
         \/ Unreliable!InOrderUpTo(delivered, nextId - 1)' /\ Standing'
<1>1. /\ pc = "loop" /\ pc' = "idle"
      /\ call.byteRead >= call.bytesToRead
      /\ cached.biosWritePtr = cached.bmcReadPtr
      /\ UNCHANGED <<hdr, cells, cached>>
      /\ delivered' = delivered \o call.entryPairs /\ call' = NoCall
  BY DEF ReturnEntries
<1>2. /\ delivered \in Seq(Int) /\ call.entryPairs \in Seq(Int)
      /\ Got \in Seq(Int)
  BY MemoryTypes
<1>3. InCall /\ ~InPayload
  BY <1>1 DEF Standing, Looping, InPayload, Asked
<1>4. CASE Misread
  <2>1. Tainted(call.entryPairs)
    BY <1>3, <1>4 DEF InCall, Misread, NoHeader
  <2>. QED
    BY <1>1, <1>2, <2>1, TaintStays
<1>5. CASE Located /\ (Left >= 0 => Within)
  <2>1. Left = 0
    <3>1. Left = call.bytesToRead - call.byteRead /\ Left \in Int /\ Left <= 0
      BY <1>1, Progress
    <3>2. /\ hdr.bmcReadPtr \in Index /\ cached.biosWritePtr = hdr.bmcReadPtr
          /\ Left < MaxOffset /\ Left > -MaxOffset
          /\ hdr.bmcReadPtr + Left - cached.biosWritePtr
               \in {0, MaxOffset, -MaxOffset}
      BY <1>1, <1>5, MemoryTypes DEF Located
    <3>. QED
      BY <3>1, <3>2, MaxOffsetType
  <2>2. Within
    BY <1>5, <2>1
  <2>3. /\ Unread' = Unread /\ Used(hdr)' = Used(hdr) /\ nextId' = nextId
        /\ Appending'
    BY <1>1, <2>2, SameMemory DEF Within
  <2>4. delivered' = Got /\ Got' = Got /\ call'.entryPairs = <<>>
    <3>1. delivered' = Got /\ call'.entryPairs = <<>>
      BY <1>1, NoEntries DEF Got
    <3>2. Got' = delivered' \o <<>>
      BY <3>1 DEF Got
    <3>. QED
      BY <1>2, <3>1, <3>2, EmptyCallGot
  <2>5. AtRest'
    BY <1>1, <2>2, <2>3, <2>4 DEF AtRest, Within
  <2>6. Unreliable!InOrderUpTo(delivered', nextId' - 1)
    BY <2>2, <2>3, <2>4 DEF Within, Orderly
  <2>. QED
    BY <1>1, <2>5, <2>6 DEF Standing
<1>. QED
  BY <1>3, <1>4, <1>5 DEF InCall

(* initialize() leaves an empty queue to an append that is running, ...    *)
LEMMA InitializeEraseStanding ==
  ASSUME TypeInv, Memory, Standing, InitializeErase, UNCHANGED biosVars
  PROVE  Standing'
<1>1. /\ pc = "erase" /\ pc' = "writeHeader"
      /\ hdr' = ZeroHeader /\ cells' = [i \in Index |-> ZeroCell]
      /\ UNCHANGED <<call, bios>>
  BY DEF InitializeErase, biosVars
<1>2. call.entryPairs = <<>>
  BY <1>1 DEF Standing, Looping
<1>3. ASSUME bios.step # "idle"
      PROVE  Straddling'
  BY <1>1, <1>3 DEF Straddling, ZeroHeader
<1>. QED
  BY <1>1, <1>2, <1>3 DEF Standing

(* ... also when that ends only after the header is there again.           *)
LEMMA InitializeHeaderStanding ==
  ASSUME TypeInv, Memory, Standing, InitializeHeader, UNCHANGED biosVars,
         Unreliable!InOrderUpTo(delivered, nextId - 1)
  PROVE  Standing'
<1>1. /\ pc = "writeHeader" /\ pc' = "idle"
      /\ hdr' = InitialHeader
      /\ UNCHANGED <<cells, call, delivered, bios, nextId>>
  BY DEF InitializeHeader, biosVars
<1>2. call.entryPairs = <<>> /\ (bios.step = "idle" \/ Straddling)
  BY <1>1 DEF Standing, Looping
<1>3. hdr'.bmcReadPtr = 0 /\ hdr'.biosWritePtr = 0
  BY <1>1 DEF InitialHeader, ZeroHeader
<1>4. Appending' \/ Straddling'
  <2>1. CASE bios.step = "idle"
    BY <1>1, <2>1 DEF Appending
  <2>2. CASE Straddling
    <3>1. Straddling'
      BY <1>1, <1>3, <2>2 DEF Straddling, Distance
    <3>. QED
      BY <3>1
  <2>. QED
    BY <1>2, <2>1, <2>2
<1>5. Used(hdr)' = 0
  <2>1. Used(hdr') = 0
    BY <1>3 DEF Used
  <2>. QED
    BY <2>1 DEF Used
<1>6. Got' = delivered
  BY <1>1, <1>2, GotAtRest DEF Got
<1>7. Orderly(Unread, Used(hdr), nextId, Got)'
  <2>1. Orderly(Unread', 0, nextId, delivered)
    BY OrderlyEmpty
  <2>. QED
    BY <1>1, <1>5, <1>6, <2>1
<1>8. AtRest'
  BY <1>1, <1>2, <1>4, <1>7 DEF AtRest
<1>. QED
  BY <1>1, <1>8 DEF Standing

(* Whatever the BMC has read, it leaves valid pointers in the memory, and  *)
(* erases it before it writes a new header.                                *)
LEMMA BmcMemory ==
  ASSUME TypeInv, Memory, CacheCoherent, Bmc
  PROVE  Memory'
<1>1. UNCHANGED biosVars
  BY DEF Bmc
<1>2. CASE UpdateReadPtr
  <2>. DEFINE p == UpdatedReadPtr(cached.bmcReadPtr, call.length)
  <2>1. /\ pc = "update" /\ pc' \in {"parse", "checksum"}
        /\ UNCHANGED cells /\ hdr' = [hdr EXCEPT !.bmcReadPtr = p]
    BY <1>2 DEF UpdateReadPtr
  <2>2. /\ cached.bmcReadPtr \in Index
        /\ call.length \in Nat /\ call.length <= MaxOffset
    BY <2>1, MemoryTypes DEF CacheCoherent, Looping, TypeInv, TypeOK, Call
  <2>3. p \in Index
    <3>1. /\ cached.bmcReadPtr \in Nat /\ cached.bmcReadPtr < MaxOffset
          /\ cached.bmcReadPtr <= MaxOffset
      BY <2>2, MaxOffsetType
    <3>2. p \in Nat /\ p < MaxOffset
      BY <2>2, <3>1, WrapArithmetic
    <3>. QED
      BY <3>2, MaxOffsetType
  <2>. HIDE DEF p
  <2>4. /\ hdr'.bmcReadPtr = p /\ hdr'.biosWritePtr = hdr.biosWritePtr
        /\ hdr'.queueSize = hdr.queueSize
        /\ hdr'.ueRegionSize = hdr.ueRegionSize
    BY <2>1 DEF TypeInv, TypeOK, Header
  <2>5. UNCHANGED <<bios, nextId>>
    BY <1>1 DEF biosVars
  <2>. QED
    BY <2>1, <2>3, <2>4, <2>5 DEF Memory, SizesMatch
<1>3. CASE InitializeErase
  <2>1. /\ hdr' = ZeroHeader /\ cells' = [i \in Index |-> ZeroCell]
        /\ pc' = "writeHeader" /\ UNCHANGED <<bios, nextId>>
    BY <1>1, <1>3 DEF InitializeErase, biosVars
  <2>2. /\ hdr'.bmcReadPtr \in Index /\ hdr'.biosWritePtr \in Index
        /\ ~SizesMatch(hdr')
    BY <2>1, MaxOffsetType, SizeAssumption DEF ZeroHeader, SizesMatch
  <2>. QED
    BY <2>1, <2>2 DEF Memory, SizesMatch
<1>4. CASE InitializeHeader
  <2>1. /\ hdr' = InitialHeader /\ UNCHANGED <<cells, bios, nextId>>
        /\ pc' = "idle"
    BY <1>1, <1>4 DEF InitializeHeader, biosVars
  <2>2. /\ hdr'.bmcReadPtr \in Index /\ hdr'.biosWritePtr \in Index
        /\ SizesMatch(hdr')
    BY <2>1, MaxOffsetType DEF InitialHeader, ZeroHeader, SizesMatch
  <2>. QED
    BY <2>1, <2>2 DEF Memory, SizesMatch
<1>5. CASE ~UpdateReadPtr /\ ~InitializeErase /\ ~InitializeHeader
  <2>1. /\ UNCHANGED <<hdr, cells>>
        /\ \/ pc' = "erase"
           \/ pc' # "writeHeader" /\ pc \notin {"erase", "writeHeader"}
    BY <1>5 DEF Bmc, ReadHeaderLow, ReadHeaderHigh, CheckFails, Throw,
       CheckFindsNothing, CheckFindsEntries, ReadEntryHeader, ReadToQueueEnd,
       ReadWrapped, ReadPayload, AcceptEntry, RejectEntry, ReturnEntries,
       PointersDiffer
  <2>. QED
    BY <1>1, <2>1, SameMemory
<1>. QED
  BY <1>2, <1>3, <1>4, <1>5

(* Every step of the BMC keeps the invariant.                              *)
LEMMA BmcLossyInv ==
  ASSUME TypeInv, LossyInv, CacheCoherent, Bmc, ~torn'
  PROVE  LossyInv'
<1>1. Memory /\ Memory' /\ UNCHANGED biosVars /\ nextId' = nextId
  BY BmcMemory DEF LossyInv, Bmc, biosVars
<1>2. CASE ReturnEntries
  <2>1. CASE Tainted(delivered)
    <3>1. delivered' = delivered \o call.entryPairs
      BY <1>2 DEF ReturnEntries
    <3>2. delivered \in Seq(Int) /\ call.entryPairs \in Seq(Int)
      BY <1>1, MemoryTypes
    <3>3. PICK i \in DOMAIN delivered : delivered[i] < 0
      BY <2>1 DEF Tainted
    <3>4. i \in DOMAIN delivered' /\ delivered'[i] = delivered[i]
      BY <3>1, <3>2
    <3>. QED
      BY <1>1, <3>3, <3>4 DEF LossyInv, Tainted
  <2>2. CASE ~Tainted(delivered)
    <3>1. \/ Tainted(delivered')
          \/ Unreliable!InOrderUpTo(delivered, nextId - 1)' /\ Standing'
      BY <1>1, <1>2, <2>2, ReturnEntriesStanding DEF LossyInv
    <3>. QED
      BY <1>1, <3>1 DEF LossyInv, Tainted
  <2>. QED
    BY <2>1, <2>2
<1>3. CASE ~ReturnEntries
  <2>1. UNCHANGED delivered
    BY <1>3 DEF Bmc, ReadHeaderLow, ReadHeaderHigh, CheckFails, Throw,
       CheckFindsNothing, CheckFindsEntries, ReadEntryHeader, ReadToQueueEnd,
       ReadWrapped, UpdateReadPtr, ReadPayload, AcceptEntry, RejectEntry,
       PointersDiffer, InitializeErase, InitializeHeader
  <2>2. CASE Tainted(delivered)
    BY <1>1, <2>1, <2>2 DEF LossyInv, Tainted
  <2>3. CASE ~Tainted(delivered)
    <3>1. Standing /\ Unreliable!InOrderUpTo(delivered, nextId - 1)
      BY <2>3 DEF LossyInv
    <3>2. CheckFails \/ RejectEntry \/ PointersDiffer => Throw
      BY DEF CheckFails, RejectEntry, PointersDiffer
    <3>3. Standing'
      BY <1>1, <1>3, <3>1, <3>2, ThrowStanding, ReadHeaderLowStanding,
         ReadHeaderHighStanding, CheckFindsNothingStanding,
         CheckFindsEntriesStanding, ReadEntryHeaderStanding,
         ReadToQueueEndStanding, ReadWrappedStanding, UpdateReadPtrStanding,
         ReadPayloadStanding, AcceptEntryStanding, InitializeEraseStanding,
         InitializeHeaderStanding, BmcTypeInv, Zenon
         DEF Bmc
    <3>4. Unreliable!InOrderUpTo(delivered, nextId - 1)'
      BY <1>1, <2>1, <3>1 DEF Unreliable!InOrderUpTo
    <3>. QED
      BY <1>1, <3>3, <3>4 DEF LossyInv
  <2>. QED
    BY <2>2, <2>3
<1>. QED
  BY <1>2, <1>3

-----------------------------------------------------------------------------
(* The invariant holds, and what it says.                                  *)

LEMMA InitLossyInv == Init => LossyInv
<1>. SUFFICES ASSUME Init
              PROVE  LossyInv
  OBVIOUS
<1>1. /\ hdr.bmcReadPtr = 0 /\ hdr.biosWritePtr = 0 /\ SizesMatch(hdr)
      /\ pc = "idle" /\ call.entryPairs = <<>> /\ bios.step = "idle"
      /\ delivered = <<>> /\ cells = [i \in Index |-> ZeroCell]
  BY NoEntries DEF Init, InitialHeader, ZeroHeader, SizesMatch, IdleBios
<1>2. Memory
  BY <1>1, MaxOffsetType DEF Memory
<1>3. Unreliable!InOrderUpTo(delivered, nextId - 1)
  <2>1. DOMAIN delivered = {}
    BY <1>1
  <2>. QED
    BY <2>1 DEF Unreliable!InOrderUpTo
<1>4. Used(hdr) = 0 /\ Got = delivered
  BY <1>1 DEF Used, Got
<1>5. AtRest
  BY <1>1, <1>3, <1>4, OrderlyEmpty DEF AtRest, Appending
<1>. QED
  BY <1>1, <1>2, <1>3, <1>5 DEF LossyInv, Standing

(* A restart abandons the call.                                            *)
LEMMA RestartLossyInv ==
  ASSUME TypeInv, LossyInv, Restart, ~torn'
  PROVE  LossyInv'
<1>1. /\ pc' = "erase" /\ call'.entryPairs = <<>>
      /\ UNCHANGED <<hdr, cells, delivered, bios, nextId, biosVars>>
  BY NoEntries DEF Restart, biosVars
<1>2. Memory'
  BY <1>1, SameMemory DEF LossyInv
<1>3. Standing'
  BY <1>1 DEF Standing
<1>4. /\ Tainted(delivered)' = Tainted(delivered)
      /\ Unreliable!InOrderUpTo(delivered, nextId - 1)'
           = Unreliable!InOrderUpTo(delivered, nextId - 1)
  BY <1>1 DEF Tainted, Unreliable!InOrderUpTo
<1>. QED
  BY <1>2, <1>3, <1>4 DEF LossyInv

(* The daemon may restart, but nothing corrupts the memory.                *)
LEMMA OnlyRestarts ==
  ASSUME FaultKinds \subseteq {"crash"}, Next
  PROVE  Bmc \/ Bios \/ Restart
<1>1. "pointer" \notin FaultKinds /\ "size" \notin FaultKinds
      /\ "cell" \notin FaultKinds
  OBVIOUS
<1>. QED
  BY <1>1 DEF Next, CorruptPointer, CorruptSize, CorruptCell, Fault

LEMMA NextLossyInv ==
  ASSUME FaultKinds \subseteq {"crash"}, TypeInv, LossyInv, CacheCoherent,
         [Next]_vars, ~torn'
  PROVE  LossyInv'
<1>1. CASE Next
  BY <1>1, OnlyRestarts, BmcLossyInv, BiosLossyInv, RestartLossyInv
<1>2. CASE UNCHANGED vars
  <2>1. UNCHANGED <<hdr, cells, cached, pc, call, delivered, bios, nextId>>
    BY <1>2 DEF vars, bmcVars, biosVars
  <2>2. /\ Unread' = Unread /\ Used(hdr)' = Used(hdr) /\ Got' = Got
        /\ Rest' = Rest /\ Passed' = Passed
        /\ Asked("header")' = Asked("header") /\ Asked("payload")' = Asked("payload")
    BY <2>1 DEF Unread, Used, Got, Rest, Distance, Passed, Asked
  <2>3. Left' = Left /\ InPayload' = InPayload
    BY <2>1, <2>2 DEF Left, InPayload
  <2>4. Appending' = Appending /\ Straddling' = Straddling
    BY <2>1, <2>2 DEF Appending, Straddling, Distance
  <2>5. Memory'
    BY <2>1 DEF LossyInv, Memory, SizesMatch
  <2>6. AtRest => AtRest'
    BY <2>1, <2>2, <2>4 DEF AtRest, SizesMatch, Distance
  <2>7. (Within => Within') /\ (Located => Located')
    BY <2>1, <2>2, <2>3, <2>4 DEF Within, AtHand, Located
  <2>8. InCall => InCall'
    BY <2>1, <2>3, <2>7 DEF InCall, Misread
  <2>9. Standing => Standing'
    BY <2>1, <2>4, <2>6, <2>8 DEF Standing
  <2>. QED
    BY <2>1, <2>5, <2>9 DEF LossyInv, Tainted, Unreliable!InOrderUpTo
<1>. QED
  BY <1>1, <1>2

(* However often the daemon restarts, and until one side sees a pointer of *)
(* the other half written, the unread bytes stay in order and newer than   *)
(* what was returned, or something returned shows that bytes of no single  *)
(* entry passed for one.                                                   *)
THEOREM LossyKept ==
  ASSUME FaultKinds \subseteq {"crash"}
  PROVE  Spec => [](torn \/ LossyInv)
<1>1. TypeInv /\ CacheCoherent /\ (torn \/ LossyInv) /\ [Next]_vars
        => (torn \/ LossyInv)'
  BY NextLossyInv, TornStays
<1>2. Spec => []CacheCoherent
  <2>1. "pointer" \notin FaultKinds
    OBVIOUS
  <2>. QED
    BY <2>1, CacheStaysCoherent
<1>3. Init => torn \/ LossyInv
  BY InitLossyInv
<1>. QED
  BY <1>1, <1>2, <1>3, TypeCorrect, PTL DEF Spec

(* The queue implements a lossy channel that breaks when a pointer is seen *)
(* half written, however often the daemon restarts and wherever a restart  *)
(* finds the append of an entry: until then readErrorLogs returns entries  *)
(* in the order the BIOS sent them and none of them twice.                 *)
THEOREM LossyQueue ==
  ASSUME FaultKinds \subseteq {"crash"}
  PROVE  Spec => ImplementsLossyChannel
<1>1. Init => Unreliable!Init
  BY DEF Init, Unreliable!Init
<1>2. ASSUME TypeInv, TypeInv', (torn \/ LossyInv)', [Next]_vars
      PROVE  [Unreliable!Next]_(Unreliable!channel)
  <2>1. CASE UNCHANGED <<delivered, nextId>>
    <3>1. torn \in BOOLEAN /\ torn' \in BOOLEAN /\ (torn => torn')
      BY <1>2, TornStays DEF TypeInv, TypeOK
    <3>2. CASE torn' = torn
      BY <2>1, <3>2 DEF Unreliable!channel
    <3>3. CASE ~torn /\ torn' = TRUE
      BY <2>1, <3>3 DEF Unreliable!Next, Unreliable!Break
    <3>. QED
      BY <3>1, <3>2, <3>3
  <2>2. CASE UNCHANGED vars
    BY <2>1, <2>2 DEF vars, bmcVars, biosVars
  <2>3. CASE Bios
    <3>1. UNCHANGED delivered
      BY <2>3 DEF Bios, bmcVars
    <3>2. UNCHANGED nextId \/ nextId' = nextId + 1
      BY <2>3 DEF Bios, BiosReserve, BiosWrite, BiosPublish
    <3>3. nextId \in Nat
      BY <1>2 DEF TypeInv, TypeOK
    <3>4. CASE nextId' = nextId + 1
      <4>1. nextId' - 1 = nextId - 1 + 1 /\ nextId' # nextId
        BY <3>3, <3>4
      <4>2. UNCHANGED torn
        BY <2>3, <4>1 DEF Bios, BiosReserve, BiosWrite, BiosPublish
      <4>. QED
        BY <3>1, <4>1, <4>2 DEF Unreliable!Next, Unreliable!Send
    <3>. QED
      BY <2>1, <3>1, <3>2, <3>4
  <2>4. CASE Bmc
    <3>1. UNCHANGED nextId
      BY <2>4 DEF Bmc, biosVars
    <3>2. UNCHANGED delivered \/ ReturnEntries
      BY <2>4 DEF Bmc, ReadHeaderLow, ReadHeaderHigh, CheckFails, Throw,
         CheckFindsNothing, CheckFindsEntries, ReadEntryHeader, ReadToQueueEnd,
         ReadWrapped, UpdateReadPtr, ReadPayload, AcceptEntry, RejectEntry,
         PointersDiffer, InitializeErase, InitializeHeader
    <3>3. CASE ReturnEntries
      <4>1. delivered \in Seq(Int) /\ call.entryPairs \in Seq(Int)
        BY <1>2 DEF TypeInv, TypeOK, Call
      <4>2. delivered' = delivered \o call.entryPairs
        BY <3>3 DEF ReturnEntries
      <4>3. CASE call.entryPairs = <<>>
        <5>1. delivered' = delivered
          BY <4>1, <4>2, <4>3, EmptyCallGot
        <5>. QED
          BY <2>1, <3>1, <5>1
      <4>4. CASE call.entryPairs # <<>>
        <5>1. /\ Len(delivered') > Len(delivered)
              /\ SubSeq(delivered', 1, Len(delivered)) = delivered
          BY <4>1, <4>2, <4>4, BatchBehind
        <5>2. torn' = torn
          BY <2>4, <3>3 DEF Bmc, ReadHeaderHigh, ReturnEntries
        <5>3. ASSUME ~torn
              PROVE  Unreliable!Promised(delivered', nextId - 1)
          <6>1. LossyInv'
            BY <1>2, <5>2, <5>3
          <6>2. Tainted(delivered')
                \/ Unreliable!InOrderUpTo(delivered', nextId - 1)
            BY <3>1, <6>1 DEF LossyInv, Tainted, Unreliable!InOrderUpTo
          <6>. QED
            BY <6>2 DEF Unreliable!Promised, Tainted
        <5>4. nextId' - 1 = nextId - 1
          BY <3>1
        <5>5. Unreliable!Receive
          BY <5>1, <5>2, <5>3, <5>4 DEF Unreliable!Receive
        <5>. QED
          BY <5>5 DEF Unreliable!Next
      <4>. QED
        BY <4>3, <4>4
    <3>. QED
      BY <2>1, <3>1, <3>2, <3>3
  <2>5. CASE Restart
    BY <2>1, <2>5 DEF Restart, biosVars
  <2>. QED
    BY <1>2, <2>2, <2>3, <2>4, <2>5, OnlyRestarts
<1>. QED
  BY <1>1, <1>2, LossyKept, TypeCorrect, PTL
     DEF ImplementsLossyChannel, Unreliable!Spec, Spec

(* The low byte of the write pointer was copied from a valid one.          *)
LowInRange == pc = "header" => call.low \in Index

(* A pointer inside a queue whose offsets fit in one byte has no second    *)
(* byte to mix in.                                                         *)
LEMMA OneByte ==
  ASSUME MaxOffset <= ByteBase, NEW a \in Index, NEW b \in Index
  PROVE  MixedPtr(a, b) = a
<1>1. /\ a \in Nat /\ b \in Nat /\ ByteBase \in Nat /\ ByteBase > 0
      /\ a < ByteBase /\ b < ByteBase
  BY MaxOffsetType, SizeAssumption
<1>2. a % ByteBase = a /\ b \div ByteBase = 0
  BY <1>1
<1>. QED
  BY <1>1, <1>2 DEF MixedPtr

(* In such a queue no step of one side meets a half-written pointer of the *)
(* other.                                                                  *)
LEMMA NothingHalfWritten ==
  ASSUME MaxOffset <= ByteBase, TypeInv, Memory, CacheCoherent
  PROVE  HalfWrittenPtrs = {}
<1>. DEFINE p == UpdatedReadPtr(cached.bmcReadPtr, call.length)
<1>1. SUFFICES ASSUME pc = "update"
               PROVE  MixedPtr(p, hdr.bmcReadPtr) = p
  <2>1. CASE pc = "update"
    BY <2>1, <1>1 DEF HalfWrittenPtrs
  <2>2. CASE pc # "update"
    BY <2>2 DEF HalfWrittenPtrs
  <2>. QED
    BY <2>1, <2>2
<1>2. /\ cached.bmcReadPtr \in Index /\ hdr.bmcReadPtr \in Index
      /\ call.length \in Nat /\ call.length <= MaxOffset
  BY <1>1, MemoryTypes DEF CacheCoherent, Looping, TypeInv, TypeOK, Call
<1>3. /\ cached.bmcReadPtr \in Nat /\ cached.bmcReadPtr < MaxOffset
      /\ cached.bmcReadPtr <= MaxOffset
  BY <1>2, MaxOffsetType
<1>4. p \in Nat /\ p < MaxOffset
  BY <1>2, <1>3, WrapArithmetic
<1>5. p \in Index
  BY <1>4, MaxOffsetType
<1>. HIDE DEF p
<1>. QED
  BY <1>2, <1>5, OneByte

(* A queue whose offsets fit in one byte of a pointer cannot tear them,    *)
(* also not those that initialize() resets and those that a crash cuts     *)
(* off: for it, all of the above holds without a condition.                *)
THEOREM SmallQueueIntact ==
  ASSUME FaultKinds \subseteq {"crash"}, MaxOffset <= ByteBase
  PROVE  Spec => []~torn
<1>1. Init => LowInRange /\ ~torn
  BY DEF Init, LowInRange
<1>2. ASSUME TypeInv, Memory, CacheCoherent, LowInRange, ~torn, [Next]_vars
      PROVE  LowInRange' /\ ~torn'
  <2>1. HalfWrittenPtrs = {}
    BY <1>2, NothingHalfWritten
  <2>2. CASE Bmc /\ ReadHeaderHigh
    <3>1. call.low \in Index /\ hdr.biosWritePtr \in Index
      BY <1>2, <2>2 DEF ReadHeaderHigh, LowInRange, Memory
    <3>2. MixedPtr(call.low, hdr.biosWritePtr) = call.low
      BY <3>1, OneByte
    <3>. QED
      BY <1>2, <2>2, <3>2 DEF ReadHeaderHigh, LowInRange
  <2>3. CASE Bmc /\ ~ReadHeaderHigh
    <3>1. UNCHANGED torn
      BY <2>3 DEF Bmc
    <3>2. CASE ReadHeaderLow
      <4>1. call'.low = hdr.biosWritePtr
        BY <3>2 DEF ReadHeaderLow, NoCall
      <4>. QED
        BY <1>2, <3>1, <4>1 DEF LowInRange, Memory
    <3>3. CASE ~ReadHeaderLow
      <4>1. pc' # "header"
        BY <2>3, <3>3 DEF Bmc, CheckFails, Throw, CheckFindsNothing,
           CheckFindsEntries, ReadEntryHeader, ReadToQueueEnd, ReadWrapped,
           UpdateReadPtr, ReadPayload, AcceptEntry, RejectEntry,
           ReturnEntries, PointersDiffer, InitializeErase, InitializeHeader
      <4>. QED
        BY <1>2, <3>1, <4>1 DEF LowInRange
    <3>. QED
      BY <3>2, <3>3
  <2>4. CASE Bios
    <3>1. UNCHANGED <<pc, call>>
      BY <2>4 DEF Bios, bmcVars
    <3>2. UNCHANGED torn
      BY <2>1, <2>4 DEF Bios, BiosReserve, BiosWrite, BiosPublish
    <3>. QED
      BY <1>2, <3>1, <3>2 DEF LowInRange
  <2>5. CASE Restart
    BY <1>2, <2>1, <2>5 DEF Restart, LowInRange
  <2>6. CASE UNCHANGED vars
    BY <1>2, <2>6 DEF vars, bmcVars, LowInRange
  <2>. QED
    BY <1>2, <2>2, <2>3, <2>4, <2>5, <2>6, OnlyRestarts
<1>3. torn \/ LossyInv => torn \/ Memory
  BY DEF LossyInv
<1>4. TypeInv /\ CacheCoherent /\ (torn \/ Memory) /\ (LowInRange /\ ~torn)
        /\ [Next]_vars => (LowInRange /\ ~torn)'
  BY <1>2
<1>5. Spec => []CacheCoherent
  <2>1. "pointer" \notin FaultKinds
    OBVIOUS
  <2>. QED
    BY <2>1, CacheStaysCoherent
<1>. QED
  BY <1>1, <1>3, <1>4, <1>5, LossyKept, TypeCorrect, PTL DEF Spec

=============================================================================
