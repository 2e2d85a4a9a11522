-------------------------- MODULE RdeHandlerProofs --------------------------
(***************************************************************************)
(* Lemmas about DictionaryManager and RdeHandler, for all resource ids and *)
(* chunks: what each operation keeps, and what the packets of a transfer   *)
(* leave in the handler.                                                   *)
(***************************************************************************)
EXTENDS RdeHandler, FiniteSetTheorems, TLAPS

Pieces == [resource : ResourceIds, chunk : Chunks]

(* What a BIOS sends: pieces of one dictionary after the other.            *)
AllTransfers == {t \in Seq(Pieces) : t # <<>> /\ OneAfterAnother(t)}

(* A dictionary manager whose counter is right.  The type alone is not     *)
(* inductive: that the counter stays a natural number when an entry is     *)
(* invalidated needs that it counts this entry.                            *)
WellFormed(dm) == dm \in Managers /\ CountIsExact(dm)

-----------------------------------------------------------------------------
(* The operations of DictionaryManager.                                    *)

(* The set of valid dictionaries has a cardinality.                        *)
LEMMA ValidFinite ==
  ASSUME NEW dm
  PROVE  /\ IsFiniteSet(ValidDictionaries(dm))
         /\ Cardinality(ValidDictionaries(dm)) \in Nat
<1>1. ValidDictionaries(dm) \subseteq ResourceIds
  BY DEF ValidDictionaries
<1>2. IsFiniteSet(ValidDictionaries(dm))
  BY <1>1, ResourceAssumption, FS_Subset
<1>. QED
  BY <1>2, FS_CardinalityType

(* Setting the flag of an entry of the map counts it once.                 *)
LEMMA ValidateCounts ==
  ASSUME NEW dm, WellFormed(dm), NEW r \in ResourceIds,
         dm.dictionaries[r].found
  PROVE  WellFormed(ValidateDictionaryEntry(dm, r))
<1>. DEFINE new == ValidateDictionaryEntry(dm, r)
<1>1. /\ dm \in Managers
      /\ dm.dictionaries \in [ResourceIds -> DictionaryEntry]
      /\ dm.validDictionaryCount \in Nat
      /\ dm.validDictionaryCount = Cardinality(ValidDictionaries(dm))
  BY DEF WellFormed, Managers, CountIsExact
<1>2. /\ new.dictionaries =
           [dm.dictionaries EXCEPT ![r] = [dm.dictionaries[r] EXCEPT !.valid = TRUE]]
      /\ new.validDictionaryCount =
           IF dm.dictionaries[r].valid THEN dm.validDictionaryCount
           ELSE dm.validDictionaryCount + 1
  BY <1>1 DEF ValidateDictionaryEntry, Managers
<1>3. new \in Managers
  <2>1. new.dictionaries \in [ResourceIds -> DictionaryEntry]
    <3>1. [dm.dictionaries[r] EXCEPT !.valid = TRUE] \in DictionaryEntry
      BY <1>1 DEF DictionaryEntry
    <3>. QED
      BY <1>1, <1>2, <3>1
  <2>2. new.validDictionaryCount \in Nat
    BY <1>1, <1>2
  <2>. QED
    BY <1>1, <2>1, <2>2 DEF Managers, ValidateDictionaryEntry
<1>4. ValidDictionaries(new) = ValidDictionaries(dm) \cup {r}
  BY <1>1, <1>2 DEF ValidDictionaries, DictionaryEntry
<1>5. new.validDictionaryCount = Cardinality(ValidDictionaries(new))
  <2>1. CASE dm.dictionaries[r].valid
    <3>1. ValidDictionaries(new) = ValidDictionaries(dm)
      BY <1>4, <2>1 DEF ValidDictionaries
    <3>. QED
      BY <1>1, <1>2, <2>1, <3>1
  <2>2. CASE ~dm.dictionaries[r].valid
    <3>1. r \notin ValidDictionaries(dm)
      BY <2>2 DEF ValidDictionaries
    <3>2. Cardinality(ValidDictionaries(dm) \cup {r})
            = Cardinality(ValidDictionaries(dm)) + 1
      BY <3>1, ValidFinite, FS_AddElement
    <3>. QED
      BY <1>1, <1>2, <1>4, <2>2, <3>2
  <2>. QED
    BY <2>1, <2>2
<1>6. \A q \in ResourceIds :
        new.dictionaries[q].valid => new.dictionaries[q].found
  BY <1>1, <1>2 DEF WellFormed, CountIsExact, DictionaryEntry
<1>. QED
  BY <1>3, <1>5, <1>6 DEF WellFormed, CountIsExact

(* Clearing the flag discounts the entry if it was counted.                *)
LEMMA InvalidateCounts ==
  ASSUME NEW dm, WellFormed(dm), NEW r \in ResourceIds
  PROVE  WellFormed(InvalidateDictionaryEntry(dm, r))
<1>. DEFINE new == InvalidateDictionaryEntry(dm, r)
<1>1. /\ dm \in Managers
      /\ dm.dictionaries \in [ResourceIds -> DictionaryEntry]
      /\ dm.validDictionaryCount \in Nat
      /\ dm.validDictionaryCount = Cardinality(ValidDictionaries(dm))
  BY DEF WellFormed, Managers, CountIsExact
<1>2. /\ new.dictionaries =
           [dm.dictionaries EXCEPT ![r] = [dm.dictionaries[r] EXCEPT !.valid = FALSE]]
      /\ new.validDictionaryCount =
           IF dm.dictionaries[r].valid THEN dm.validDictionaryCount - 1
           ELSE dm.validDictionaryCount
  BY <1>1 DEF InvalidateDictionaryEntry, Managers
<1>3. new.dictionaries \in [ResourceIds -> DictionaryEntry]
  <2>1. [dm.dictionaries[r] EXCEPT !.valid = FALSE] \in DictionaryEntry
    BY <1>1 DEF DictionaryEntry
  <2>. QED
    BY <1>1, <1>2, <2>1
<1>4. ValidDictionaries(new) = ValidDictionaries(dm) \ {r}
  BY <1>1, <1>2 DEF ValidDictionaries, DictionaryEntry
<1>5. new.validDictionaryCount = Cardinality(ValidDictionaries(new))
  <2>1. CASE ~dm.dictionaries[r].valid
    <3>1. ValidDictionaries(new) = ValidDictionaries(dm)
      BY <1>4, <2>1 DEF ValidDictionaries
    <3>. QED
      BY <1>1, <1>2, <2>1, <3>1
  <2>2. CASE dm.dictionaries[r].valid
    <3>1. r \in ValidDictionaries(dm)
      BY <2>2 DEF ValidDictionaries
    <3>2. Cardinality(ValidDictionaries(dm) \ {r})
            = Cardinality(ValidDictionaries(dm)) - 1
      BY <3>1, ValidFinite, FS_RemoveElement
    <3>. QED
      BY <1>1, <1>2, <1>4, <2>2, <3>2
  <2>. QED
    BY <2>1, <2>2
<1>6. new.validDictionaryCount \in Nat
  BY <1>5, ValidFinite
<1>7. new \in Managers
  BY <1>1, <1>3, <1>6 DEF Managers, InvalidateDictionaryEntry
<1>8. \A q \in ResourceIds :
        new.dictionaries[q].valid => new.dictionaries[q].found
  BY <1>1, <1>2 DEF WellFormed, CountIsExact, DictionaryEntry
<1>. QED
  BY <1>5, <1>7, <1>8 DEF WellFormed, CountIsExact

(* Replacing the data of an entry leaves flag and counter alone.           *)
LEMMA DataUncounted ==
  ASSUME NEW dm, WellFormed(dm), NEW r \in ResourceIds,
         NEW d \in Seq(Chunks), NEW new,
         \/ new = [dm EXCEPT !.dictionaries[r].found = TRUE,
                             !.dictionaries[r].data = d]
         \/ new = [dm EXCEPT !.dictionaries[r].data = d]
  PROVE  WellFormed(new)
<1>1. /\ dm \in Managers
      /\ dm.dictionaries \in [ResourceIds -> DictionaryEntry]
      /\ dm.validDictionaryCount \in Nat
      /\ dm.validDictionaryCount = Cardinality(ValidDictionaries(dm))
      /\ \A q \in ResourceIds :
           dm.dictionaries[q].valid => dm.dictionaries[q].found
  BY DEF WellFormed, Managers, CountIsExact
<1>. DEFINE started == [dm.dictionaries[r] EXCEPT !.found = TRUE, !.data = d]
            extended == [dm.dictionaries[r] EXCEPT !.data = d]
<1>2. /\ new.validDictionaryCount = dm.validDictionaryCount
      /\ \/ new.dictionaries = [dm.dictionaries EXCEPT ![r] = started]
         \/ new.dictionaries = [dm.dictionaries EXCEPT ![r] = extended]
      /\ new = [dictionaries |-> new.dictionaries,
                validDictionaryCount |-> new.validDictionaryCount]
  <2>1. CASE new = [dm EXCEPT !.dictionaries[r].found = TRUE,
                              !.dictionaries[r].data = d]
    <3>1. new.dictionaries = [dm.dictionaries EXCEPT ![r].found = TRUE,
                                                     ![r].data = d]
      BY <1>1, <2>1 DEF Managers
    <3>2. new.dictionaries = [dm.dictionaries EXCEPT ![r] = started]
      BY <1>1, <3>1 DEF DictionaryEntry
    <3>. QED
      BY <1>1, <2>1, <3>2 DEF Managers
  <2>2. CASE new = [dm EXCEPT !.dictionaries[r].data = d]
    BY <1>1, <2>2 DEF Managers
  <2>. QED
    BY <2>1, <2>2
<1>3. new.dictionaries \in [ResourceIds -> DictionaryEntry]
  <2>1. started \in DictionaryEntry /\ extended \in DictionaryEntry
    BY <1>1 DEF DictionaryEntry
  <2>. QED
    BY <1>1, <1>2, <2>1
<1>4. \A q \in ResourceIds :
        /\ new.dictionaries[q].valid = dm.dictionaries[q].valid
        /\ dm.dictionaries[q].found => new.dictionaries[q].found
  <2>1. /\ started.valid = dm.dictionaries[r].valid /\ started.found
        /\ extended.valid = dm.dictionaries[r].valid
        /\ extended.found = dm.dictionaries[r].found
    BY <1>1 DEF DictionaryEntry
  <2>. HIDE DEF started, extended
  <2>. QED
    BY <1>1, <1>2, <2>1
<1>5. ValidDictionaries(new) = ValidDictionaries(dm)
  BY <1>4 DEF ValidDictionaries
<1>6. new \in Managers
  BY <1>1, <1>2, <1>3 DEF Managers
<1>. QED
  BY <1>1, <1>2, <1>4, <1>5, <1>6 DEF WellFormed, CountIsExact

(* The public operations keep the counter right.                           *)
LEMMA OperationsCount ==
  ASSUME NEW dm, WellFormed(dm), NEW r \in ResourceIds, NEW d \in Seq(Chunks)
  PROVE  /\ WellFormed(StartDictionaryEntry(dm, r, d))
         /\ WellFormed(MarkDataComplete(dm, r))
         /\ WellFormed(AddDictionaryData(dm, r, d))
         /\ WellFormed(InvalidateDictionaries(dm))
<1>. DEFINE cleared == InvalidateDictionaryEntry(dm, r)
<1>1. WellFormed(cleared)
  BY InvalidateCounts
<1>2. WellFormed(StartDictionaryEntry(dm, r, d))
  BY <1>1, DataUncounted DEF StartDictionaryEntry
<1>3. WellFormed(MarkDataComplete(dm, r))
  BY ValidateCounts DEF MarkDataComplete
<1>4. WellFormed(AddDictionaryData(dm, r, d))
  <2>1. cleared.dictionaries[r].data \o d \in Seq(Chunks)
    BY <1>1 DEF WellFormed, Managers, DictionaryEntry
  <2>. QED
    BY <1>1, <2>1, DataUncounted DEF AddDictionaryData
<1>5. WellFormed(InvalidateDictionaries(dm))
  <2>. DEFINE new == InvalidateDictionaries(dm)
  <2>1. dm.dictionaries \in [ResourceIds -> DictionaryEntry]
    BY DEF WellFormed, Managers
  <2>2. /\ new.dictionaries \in [ResourceIds -> DictionaryEntry]
        /\ \A q \in ResourceIds : ~new.dictionaries[q].valid
    BY <2>1 DEF InvalidateDictionaries, DictionaryEntry
  <2>3. ValidDictionaries(new) = {}
    BY <2>2 DEF ValidDictionaries
  <2>4. new.validDictionaryCount = 0 /\ Cardinality({}) = 0
    BY FS_EmptySet DEF InvalidateDictionaries
  <2>5. new \in Managers
    BY <2>2 DEF Managers, InvalidateDictionaries
  <2>. QED
    BY <2>2, <2>3, <2>4, <2>5 DEF WellFormed, CountIsExact
<1>. QED
  BY <1>2, <1>3, <1>4, <1>5

-----------------------------------------------------------------------------
(* Commands.                                                               *)

(* The handler's part of TypeOK, with the counter.                         *)
HandlerInv ==
  /\ flagState \in {"RdeStateIdle", "RdeStateStartRecvd"}
  /\ prevDictResourceId \in ResourceIds
  /\ WellFormed(dictionaryManager)
  /\ crc \in Seq(Chunks)
  /\ status \in Statuses

(* An element of a sequence over S is in S.                                *)
LEMMA ElementOfSeq ==
  ASSUME NEW S, NEW t \in Seq(S), NEW i \in 1 .. Len(t)
  PROVE  t[i] \in S
OBVIOUS

(* The packets of a transfer are packets.                                  *)
LEMMA PacketType ==
  ASSUME NEW t \in AllTransfers, NEW i \in 1 .. Len(t)
  PROVE  PacketOf(t, i) \in Packets
<1>1. t \in Seq([resource : ResourceIds, chunk : Chunks])
  BY DEF AllTransfers, Pieces
<1>2. t[i] \in [resource : ResourceIds, chunk : Chunks]
  BY <1>1, ElementOfSeq
<1>3. <<t[i].chunk>> \in Seq(Chunks)
  BY <1>2
<1>4. ChunksOf(t) \in Seq(Chunks)
  <2>1. DOMAIN t = 1 .. Len(t) /\ Len(t) \in Nat
    BY <1>1
  <2>2. ASSUME NEW j \in 1 .. Len(t)
        PROVE  t[j].chunk \in Chunks
    <3>1. t[j] \in [resource : ResourceIds, chunk : Chunks]
      BY <1>1, ElementOfSeq
    <3>. QED
      BY <3>1
  <2>. QED
    BY <2>1, <2>2 DEF ChunksOf
<1>. HIDE DEF ChunksOf
<1>. QED
  BY <1>2, <1>3, <1>4 DEF PacketOf, Packets, Flags

(* handleCrc leaves a well-formed manager and a status.                    *)
LEMMA HandleCrcCounts ==
  ASSUME NEW p, NEW c, NEW m, WellFormed(m)
  PROVE  /\ WellFormed(HandleCrc(p, c, m).manager)
         /\ HandleCrc(p, c, m).ret \in Statuses
<1>1. WellFormed(InvalidateDictionaries(m))
  <2>1. annotationResourceId \in ResourceIds /\ <<>> \in Seq(Chunks)
    BY ResourceAssumption
  <2>. QED
    BY <2>1, OperationsCount
<1>. QED
  BY <1>1 DEF HandleCrc, Statuses

(* What a packet's data does to the manager keeps it well-formed.          *)
LEMMA StoreDataCounts ==
  ASSUME HandlerInv, NEW p \in Packets
  PROVE  /\ WellFormed(StoreData(p))
         /\ WellFormed(MarkDataComplete(StoreData(p), p.resource))
<1>1. p.resource \in ResourceIds /\ p.data \in Seq(Chunks)
  BY DEF Packets
<1>2. WellFormed(MarkDataComplete(dictionaryManager, prevDictResourceId))
  BY <1>1, OperationsCount DEF HandlerInv
<1>3. WellFormed(StoreData(p))
  BY <1>1, <1>2, OperationsCount DEF StoreData, HandlerInv
<1>. QED
  BY <1>1, <1>3, OperationsCount

(* A packet, of a transfer or not, keeps the handler's invariant.          *)
LEMMA PacketHandlerInv ==
  ASSUME HandlerInv, NEW p \in Packets, MultiPartReceiveResp(p)
  PROVE  HandlerInv'
<1>1. p.resource \in ResourceIds /\ p.data \in Seq(Chunks)
  BY DEF Packets
<1>2. crc \o p.data \in Seq(Chunks)
  BY <1>1 DEF HandlerInv
<1>3. prevDictResourceId' = p.resource
  BY DEF MultiPartReceiveResp
<1>4. CASE HandleFlagStart(p)
  <2>1. WellFormed(dictionaryManager')
    BY <1>1, <1>4, OperationsCount DEF HandleFlagStart, HandlerInv
  <2>. QED
    BY <1>1, <1>3, <1>4, <2>1 DEF HandleFlagStart, HandlerInv, Statuses
<1>5. CASE HandleOutOfOrder(p)
  BY <1>1, <1>3, <1>5 DEF HandleOutOfOrder, HandlerInv, Statuses
<1>6. CASE HandleFlagMiddle(p)
  <2>1. WellFormed(dictionaryManager')
    BY <1>6, StoreDataCounts DEF HandleFlagMiddle, HandlerInv
  <2>. QED
    BY <1>1, <1>2, <1>3, <1>6, <2>1 DEF HandleFlagMiddle, HandlerInv, Statuses
<1>7. CASE HandleFlagEnd(p)
  <2>. DEFINE m == MarkDataComplete(StoreData(p), p.resource)
              result == HandleCrc(p, crc \o p.data, m)
  <2>1. WellFormed(m)
    BY StoreDataCounts
  <2>2. WellFormed(result.manager) /\ result.ret \in Statuses
    <3>. HIDE DEF m
    <3>. QED
      BY <2>1, HandleCrcCounts
  <2>3. /\ dictionaryManager' \in {dictionaryManager, result.manager}
        /\ status' \in {"RdeDictionaryError", result.ret}
        /\ crc' \in {crc, crc \o p.data}
        /\ flagState' = "RdeStateIdle"
    BY <1>7 DEF HandleFlagEnd
  <2>. HIDE DEF result
  <2>4. WellFormed(dictionaryManager')
    BY <2>2, <2>3 DEF HandlerInv
  <2>. QED
    BY <1>1, <1>2, <1>3, <2>2, <2>3, <2>4 DEF HandlerInv, Statuses
<1>8. CASE HandleFlagStartAndEnd(p)
  <2>. DEFINE started == StartDictionaryEntry(dictionaryManager, p.resource,
                                              p.data)
              m == MarkDataComplete(started, p.resource)
              result == HandleCrc(p, p.data, m)
  <2>1. WellFormed(started)
    BY <1>1, OperationsCount DEF HandlerInv
  <2>2. WellFormed(m)
    <3>. HIDE DEF started
    <3>. QED
      BY <1>1, <2>1, OperationsCount
  <2>3. WellFormed(result.manager) /\ result.ret \in Statuses
    <3>. HIDE DEF m
    <3>. QED
      BY <2>2, HandleCrcCounts
  <2>4. /\ dictionaryManager' = result.manager
        /\ status' = result.ret
        /\ crc' = p.data
        /\ flagState' = "RdeStateIdle"
    BY <1>8 DEF HandleFlagStartAndEnd
  <2>. HIDE DEF result
  <2>. QED
    BY <1>1, <1>3, <2>3, <2>4 DEF HandlerInv
<1>9. CASE HandleInvalidFlag(p)
  BY <1>1, <1>3, <1>9 DEF HandleInvalidFlag, HandlerInv, Statuses
<1>. QED
  BY <1>4, <1>5, <1>6, <1>7, <1>8, <1>9 DEF MultiPartReceiveResp

(* Any other command only sets the status.                                 *)
LEMMA OtherHandlerInv ==
  ASSUME HandlerInv,
         \/ \E r \in ResourceIds : OperationInitRequest(r)
         \/ OperationInitEarly \/ InvalidCommandType \/ ShortCommand
  PROVE  HandlerInv'
BY DEF OperationInitRequest, OperationInitEarly, InvalidCommandType,
       ShortCommand, HandlerInv, Statuses, EarlyReturns, LateReturns

(* The constructor.                                                        *)
LEMMA NewHandler ==
  /\ WellFormed(NoDictionaries)
  /\ HandlerInit => HandlerInv
<1>1. WellFormed(NoDictionaries)
  <2>1. Absent \in DictionaryEntry /\ ~Absent.valid
    BY DEF Absent, DictionaryEntry
  <2>2. NoDictionaries \in Managers
    BY <2>1 DEF NoDictionaries, Managers
  <2>3. ValidDictionaries(NoDictionaries) = {}
    BY <2>1 DEF NoDictionaries, ValidDictionaries
  <2>4. Cardinality({}) = 0
    BY FS_EmptySet
  <2>. QED
    BY <2>1, <2>2, <2>3, <2>4 DEF WellFormed, CountIsExact, NoDictionaries
<1>2. ASSUME HandlerInit
      PROVE  HandlerInv
  BY <1>1, <1>2, ResourceAssumption DEF HandlerInit, HandlerInv, Statuses
<1>. QED
  BY <1>1, <1>2

(* next is recv with one more piece.                                      *)
Continues(next, recv, x) == next = Append(recv, x)

(* Data d with the data of one more piece.                                 *)
WithPiece(d, x) == d \o <<x.chunk>>

LastResource(recv) == recv[Len(recv)].resource

(* The map ds has what pieces recv bring: each resource's whole data, and  *)
(* all but the last resource completed.                                    *)
Gathered(ds, recv) ==
  /\ \A r \in ResourcesOf(recv) :
       /\ ds[r].found
       /\ IsDataOf(ds[r].data, recv, r)
  /\ \A r \in ResourcesOf(recv) : r # LastResource(recv) => ds[r].valid

-----------------------------------------------------------------------------
(* Sequences of pieces.                                                    *)

(* What Append does, element by element.                                   *)
LEMMA AppendPiece ==
  ASSUME NEW recv \in Seq(Pieces), NEW x \in Pieces, NEW next,
         Continues(next, recv, x)
  PROVE  /\ next \in Seq(Pieces)
         /\ Len(recv) \in Nat /\ Len(next) = Len(recv) + 1
         /\ DOMAIN recv = 1 .. Len(recv) /\ DOMAIN next = 1 .. Len(recv) + 1
         /\ \A i \in DOMAIN recv : next[i] = recv[i]
         /\ next[Len(recv) + 1] = x
BY DEF Continues

LEMMA ConcatChunk ==
  ASSUME NEW S, NEW d \in Seq(S), NEW c \in S, NEW next, next = d \o <<c>>
  PROVE  /\ next \in Seq(S)
         /\ Len(d) \in Nat /\ Len(next) = Len(d) + 1
         /\ DOMAIN d = 1 .. Len(d) /\ DOMAIN next = 1 .. Len(d) + 1
         /\ \A i \in DOMAIN d : next[i] = d[i]
         /\ next[Len(d) + 1] = c
OBVIOUS

(* The pieces of a resource after one more piece.                          *)
LEMMA PiecesAppend ==
  ASSUME NEW recv \in Seq(Pieces), NEW x \in Pieces, NEW r, NEW next,
         Continues(next, recv, x)
  PROVE  /\ r = x.resource =>
              PiecesOf(next, r) = PiecesOf(recv, r) \cup {Len(recv) + 1}
         /\ r # x.resource => PiecesOf(next, r) = PiecesOf(recv, r)
<1>1. /\ Len(recv) \in Nat
      /\ DOMAIN recv = 1 .. Len(recv) /\ DOMAIN next = 1 .. Len(recv) + 1
      /\ \A i \in DOMAIN recv : next[i] = recv[i]
      /\ next[Len(recv) + 1] = x
  BY AppendPiece
<1>2. DOMAIN next = DOMAIN recv \cup {Len(recv) + 1}
  BY <1>1
<1>. QED
  BY <1>1, <1>2 DEF PiecesOf

LEMMA ResourcesAppend ==
  ASSUME NEW recv \in Seq(Pieces), NEW x \in Pieces, NEW next,
         Continues(next, recv, x)
  PROVE  ResourcesOf(next) = ResourcesOf(recv) \cup {x.resource}
<1>1. /\ Len(recv) \in Nat
      /\ DOMAIN recv = 1 .. Len(recv) /\ DOMAIN next = 1 .. Len(recv) + 1
      /\ \A i \in DOMAIN recv : next[i] = recv[i]
      /\ next[Len(recv) + 1] = x
  BY AppendPiece
<1>2. DOMAIN next = DOMAIN recv \cup {Len(recv) + 1}
  BY <1>1
<1>. QED
  BY <1>1, <1>2 DEF ResourcesOf

(* The data in one more piece.                                             *)
LEMMA ChunksAppend ==
  ASSUME NEW recv \in Seq(Pieces), NEW x \in Pieces, NEW next,
         Continues(next, recv, x)
  PROVE  ChunksOf(next) = ChunksOf(recv) \o <<x.chunk>>
<1>. SUFFICES ASSUME NEW old, old = ChunksOf(recv),
                     NEW new, new = old \o <<x.chunk>>
              PROVE  ChunksOf(next) = new
  OBVIOUS
<1>1. /\ Len(recv) \in Nat
      /\ DOMAIN recv = 1 .. Len(recv) /\ DOMAIN next = 1 .. Len(recv) + 1
      /\ \A i \in DOMAIN recv : next[i] = recv[i] /\ recv[i] \in Pieces
      /\ next[Len(recv) + 1] = x
  BY AppendPiece, ElementOfSeq
<1>2. old \in Seq(Chunks)
  BY <1>1 DEF ChunksOf, Pieces
<1>3. /\ Len(old) = Len(recv)
      /\ \A i \in 1 .. Len(recv) : old[i] = recv[i].chunk
  BY <1>1 DEF ChunksOf
<1>4. /\ DOMAIN new = 1 .. Len(recv) + 1
      /\ \A i \in 1 .. Len(recv) : new[i] = old[i]
      /\ new[Len(recv) + 1] = x.chunk
      /\ new \in Seq(Chunks)
  <2>1. x.chunk \in Chunks
    BY DEF Pieces
  <2>2. /\ new \in Seq(Chunks) /\ DOMAIN new = 1 .. Len(old) + 1
        /\ \A i \in 1 .. Len(old) : new[i] = old[i]
        /\ new[Len(old) + 1] = x.chunk
    BY <1>2, <2>1, ConcatChunk
  <2>. QED
    BY <1>3, <2>2
<1>5. new = [i \in 1 .. Len(recv) + 1 |-> new[i]]
  BY <1>4
<1>6. ASSUME NEW i \in 1 .. Len(recv) + 1
      PROVE  new[i] = next[i].chunk
  <2>1. CASE i = Len(recv) + 1
    BY <1>1, <1>4, <2>1
  <2>2. CASE i # Len(recv) + 1
    <3>1. i \in 1 .. Len(recv)
      BY <1>1, <2>2
    <3>. QED
      BY <1>1, <1>3, <1>4, <3>1
  <2>. QED
    BY <2>1, <2>2
<1>7. ChunksOf(next) = [i \in 1 .. Len(recv) + 1 |-> next[i].chunk]
  BY <1>1 DEF ChunksOf
<1>. QED
  BY <1>5, <1>6, <1>7

(* What was sent one after the other up to a piece was so before it, and   *)
(* a piece of another resource than the last one is that resource's first. *)
LEMMA OneAfterAnotherAppend ==
  ASSUME NEW recv \in Seq(Pieces), recv # <<>>, NEW x \in Pieces, NEW next,
         Continues(next, recv, x), OneAfterAnother(next)
  PROVE  /\ OneAfterAnother(recv)
         /\ x.resource # LastResource(recv) => x.resource \notin ResourcesOf(recv)
<1>. DEFINE n == Len(recv)
<1>1. /\ n \in Nat \ {0}
      /\ DOMAIN recv = 1 .. n /\ DOMAIN next = 1 .. n + 1
  BY AppendPiece
<1>2. ASSUME NEW r \in ResourcesOf(recv)
      PROVE  /\ \E first, last \in DOMAIN recv : PiecesOf(recv, r) = first .. last
             /\ r = x.resource => r = LastResource(recv)
  <2>1. r \in ResourcesOf(next)
    BY ResourcesAppend
  <2>2. PICK first, last \in 1 .. n + 1 : PiecesOf(next, r) = first .. last
    BY <1>1, <2>1 DEF OneAfterAnother
  <2>3. PICK i \in 1 .. n : i \in PiecesOf(recv, r)
    BY <1>1 DEF ResourcesOf, PiecesOf
  <2>4. PiecesOf(recv, r) \subseteq 1 .. n
    BY <1>1 DEF PiecesOf
  <2>5. CASE r # x.resource
    <3>1. PiecesOf(recv, r) = first .. last
      BY <2>2, <2>5, PiecesAppend
    <3>2. first \in 1 .. n /\ last \in 1 .. n
      BY <1>1, <2>2, <2>3, <2>4, <3>1
    <3>. QED
      BY <1>1, <2>5, <3>1, <3>2
  <2>6. CASE r = x.resource
    <3>1. first .. last = PiecesOf(recv, r) \cup {n + 1}
      BY <2>2, <2>6, PiecesAppend
    <3>2. last = n + 1 /\ first <= i
      BY <1>1, <2>2, <2>3, <3>1
    <3>3. PiecesOf(recv, r) = first .. n
      <4>1. n + 1 \notin PiecesOf(recv, r)
        BY <1>1, <2>4
      <4>2. PiecesOf(recv, r) = (first .. n + 1) \ {n + 1}
        BY <2>2, <3>1, <3>2, <4>1
      <4>. QED
        BY <1>1, <2>2, <4>2
    <3>4. first \in 1 .. n /\ n \in 1 .. n /\ n \in PiecesOf(recv, r)
      BY <1>1, <2>2, <2>3, <3>2, <3>3
    <3>5. r = LastResource(recv)
      BY <3>4 DEF PiecesOf, LastResource
    <3>. QED
      BY <1>1, <3>3, <3>4, <3>5
  <2>. QED
    BY <2>5, <2>6
<1>. QED
  BY <1>2 DEF OneAfterAnother

(* A resource's data stays its data when a piece of another follows.       *)
LEMMA DataOfOther ==
  ASSUME NEW recv \in Seq(Pieces), NEW x \in Pieces, NEW next,
         Continues(next, recv, x),
         NEW r, r # x.resource, NEW d \in Seq(Chunks), IsDataOf(d, recv, r)
  PROVE  IsDataOf(d, next, r)
<1>1. /\ Len(recv) \in Nat
      /\ DOMAIN recv = 1 .. Len(recv) /\ DOMAIN next = 1 .. Len(recv) + 1
      /\ \A i \in DOMAIN recv : next[i] = recv[i]
  BY AppendPiece
<1>2. PICK first \in DOMAIN recv :
        /\ PiecesOf(recv, r) = first .. first + Len(d) - 1
        /\ \A k \in DOMAIN d : d[k] = recv[first + k - 1].chunk
  BY DEF IsDataOf
<1>3. PiecesOf(next, r) = first .. first + Len(d) - 1
  BY <1>2, PiecesAppend
<1>4. ASSUME NEW k \in DOMAIN d
      PROVE  d[k] = next[first + k - 1].chunk
  <2>1. Len(d) \in Nat /\ k \in 1 .. Len(d)
    OBVIOUS
  <2>2. first + k - 1 \in PiecesOf(recv, r)
    BY <1>1, <1>2, <2>1
  <2>3. first + k - 1 \in DOMAIN recv
    BY <2>2 DEF PiecesOf
  <2>. QED
    BY <1>1, <1>2, <2>3
<1>5. first \in DOMAIN next
  BY <1>1
<1>. QED
  BY <1>3, <1>4, <1>5 DEF IsDataOf

(* Data of the same resource is appended to it.                            *)
LEMMA DataOfSame ==
  ASSUME NEW recv \in Seq(Pieces), recv # <<>>, NEW x \in Pieces, NEW next,
         Continues(next, recv, x), x.resource = LastResource(recv),
         NEW d \in Seq(Chunks), IsDataOf(d, recv, x.resource),
         NEW more, more = WithPiece(d, x)
  PROVE  IsDataOf(more, next, x.resource)
<1>. DEFINE n == Len(recv)
<1>1. /\ n \in Nat \ {0}
      /\ DOMAIN recv = 1 .. n /\ DOMAIN next = 1 .. n + 1
      /\ \A i \in DOMAIN recv : next[i] = recv[i]
      /\ next[n + 1] = x
  BY AppendPiece
<1>2. PICK first \in DOMAIN recv :
        /\ PiecesOf(recv, x.resource) = first .. first + Len(d) - 1
        /\ \A k \in DOMAIN d : d[k] = recv[first + k - 1].chunk
  BY DEF IsDataOf
<1>3. x.chunk \in Chunks
  BY DEF Pieces
<1>4. /\ Len(d) \in Nat /\ DOMAIN d = 1 .. Len(d) /\ Len(more) = Len(d) + 1
      /\ DOMAIN more = 1 .. Len(d) + 1
      /\ \A k \in DOMAIN d : more[k] = d[k]
      /\ more[Len(d) + 1] = x.chunk
  BY <1>3, ConcatChunk DEF WithPiece
<1>5. n \in PiecesOf(recv, x.resource)
  BY <1>1 DEF PiecesOf, LastResource
<1>6. PiecesOf(recv, x.resource) \subseteq 1 .. n
  BY <1>1 DEF PiecesOf
<1>7. first + Len(d) - 1 = n
  <2>1. first + Len(d) - 1 \in PiecesOf(recv, x.resource)
    BY <1>1, <1>2, <1>4, <1>5
  <2>. QED
    BY <1>1, <1>2, <1>4, <1>5, <1>6, <2>1
<1>8. PiecesOf(next, x.resource) = first .. first + Len(more) - 1
  <2>1. PiecesOf(next, x.resource) = (first .. n) \cup {n + 1}
    BY <1>2, <1>7, PiecesAppend
  <2>. QED
    BY <1>1, <1>4, <1>7, <2>1
<1>9. ASSUME NEW k \in DOMAIN more
      PROVE  more[k] = next[first + k - 1].chunk
  <2>1. CASE k = Len(d) + 1
    <3>1. first + k - 1 = n + 1
      <4>1. first \in Nat /\ Len(d) \in Nat /\ n \in Nat
        BY <1>1, <1>4
      <4>. QED
        BY <1>7, <2>1, <4>1
    <3>. QED
      BY <1>1, <1>4, <2>1, <3>1
  <2>2. CASE k # Len(d) + 1
    <3>1. k \in DOMAIN d /\ first + k - 1 \in DOMAIN recv
      BY <1>1, <1>4, <1>7, <2>2
    <3>. QED
      BY <1>1, <1>2, <1>4, <3>1
  <2>. QED
    BY <2>1, <2>2
<1>10. first \in DOMAIN next
  BY <1>1
<1>. QED
  BY <1>8, <1>9, <1>10 DEF IsDataOf

(* The first piece of a resource is all its data.                          *)
LEMMA DataOfFirst ==
  ASSUME NEW recv \in Seq(Pieces), NEW x \in Pieces, NEW next,
         Continues(next, recv, x), x.resource \notin ResourcesOf(recv)
  PROVE  IsDataOf(<<x.chunk>>, next, x.resource)
<1>. DEFINE first == Len(recv) + 1
<1>1. /\ first \in Nat \ {0}
      /\ DOMAIN next = 1 .. first /\ next[first] = x
  BY AppendPiece
<1>2. PiecesOf(recv, x.resource) = {}
  BY DEF PiecesOf, ResourcesOf
<1>3. PiecesOf(next, x.resource) = {first}
  BY <1>2, PiecesAppend
<1>4. /\ {first} = first .. first + Len(<<x.chunk>>) - 1
      /\ \A k \in DOMAIN <<x.chunk>> : <<x.chunk>>[k] = next[first + k - 1].chunk
  <2>. HIDE DEF first
  <2>1. /\ Len(<<x.chunk>>) = 1 /\ DOMAIN <<x.chunk>> = {1}
        /\ <<x.chunk>>[1] = x.chunk
    OBVIOUS
  <2>2. first + 1 - 1 = first /\ first .. first = {first}
    BY <1>1
  <2>. QED
    BY <1>1, <2>1, <2>2
<1>5. first \in DOMAIN next
  BY <1>1
<1>. HIDE DEF first
<1>. QED
  BY <1>3, <1>4, <1>5 DEF IsDataOf

-----------------------------------------------------------------------------
(* What the handler gathers.                                               *)

(* StoreData makes ds2 of ds: piece x continues the data of its resource,  *)
(* or starts it anew and completes the last resource before.               *)
Stores(ds, ds2, last, x) ==
  /\ ds2[x.resource].found /\ ~ds2[x.resource].valid
  /\ x.resource = last =>
       ds2[x.resource].data = WithPiece(ds[x.resource].data, x)
  /\ x.resource # last =>
       /\ ds2[x.resource].data = <<x.chunk>>
       /\ ds2[last].found /\ ds2[last].valid
       /\ ds2[last].data = ds[last].data
  /\ \A q \in ResourceIds \ {x.resource, last} : ds2[q] = ds[q]

(* Every resource of recv can be used, and is what was received of it.     *)
Complete(ds, recv) ==
  \A r \in ResourcesOf(recv) :
    ds[r].found /\ ds[r].valid /\ IsDataOf(ds[r].data, recv, r)

(* The resources of pieces are resource ids, the last one's among them.    *)
LEMMA ResourcesOfPieces ==
  ASSUME NEW recv \in Seq(Pieces)
  PROVE  /\ ResourcesOf(recv) \subseteq ResourceIds
         /\ recv # <<>> => LastResource(recv) \in ResourcesOf(recv)
<1>1. /\ Len(recv) \in Nat /\ DOMAIN recv = 1 .. Len(recv)
      /\ recv # <<>> => Len(recv) \in DOMAIN recv
      /\ \A i \in DOMAIN recv : recv[i] \in Pieces
  BY ElementOfSeq
<1>. QED
  BY <1>1 DEF ResourcesOf, LastResource, Pieces

LEMMA GatheredNext ==
  ASSUME NEW recv \in Seq(Pieces), recv # <<>>, NEW x \in Pieces, NEW next,
         Continues(next, recv, x), OneAfterAnother(next),
         NEW ds \in [ResourceIds -> DictionaryEntry], NEW ds2,
         Gathered(ds, recv), Stores(ds, ds2, LastResource(recv), x)
  PROVE  Gathered(ds2, next)
<1>. DEFINE last == LastResource(recv)
<1>1. /\ ResourcesOf(next) = ResourcesOf(recv) \cup {x.resource}
      /\ ResourcesOf(recv) \subseteq ResourceIds /\ last \in ResourcesOf(recv)
  BY ResourcesAppend, ResourcesOfPieces
<1>2. LastResource(next) = x.resource
  BY AppendPiece DEF LastResource
<1>3. \A r \in ResourcesOf(recv) : ds[r].data \in Seq(Chunks)
  BY <1>1 DEF DictionaryEntry
<1>4. ASSUME NEW r \in ResourcesOf(recv), r # x.resource
      PROVE  /\ ds2[r].found /\ ds2[r].valid
             /\ IsDataOf(ds2[r].data, next, r)
  <2>1. IsDataOf(ds[r].data, next, r)
    BY <1>3, <1>4, DataOfOther DEF Gathered
  <2>2. CASE r = last
    BY <1>4, <2>1, <2>2 DEF Stores
  <2>3. CASE r # last
    <3>1. ds2[r] = ds[r]
      BY <1>1, <1>4, <2>3 DEF Stores
    <3>. QED
      BY <2>1, <2>3, <3>1 DEF Gathered
  <2>. QED
    BY <2>2, <2>3
<1>5. ds2[x.resource].found
  BY DEF Stores
<1>6. IsDataOf(ds2[x.resource].data, next, x.resource)
  <2>1. CASE x.resource = last
    <3>1. /\ ds[last].data \in Seq(Chunks)
          /\ IsDataOf(ds[last].data, recv, x.resource)
      BY <1>1, <1>3, <2>1 DEF Gathered
    <3>2. ds2[x.resource].data = WithPiece(ds[last].data, x)
      BY <2>1 DEF Stores
    <3>. QED
      BY <2>1, <3>1, <3>2, DataOfSame
  <2>2. CASE x.resource # last
    <3>1. x.resource \notin ResourcesOf(recv)
      BY <2>2, OneAfterAnotherAppend
    <3>2. ds2[x.resource].data = <<x.chunk>>
      BY <2>2 DEF Stores
    <3>. QED
      BY <3>1, <3>2, DataOfFirst
  <2>. QED
    BY <2>1, <2>2
<1>. QED
  BY <1>1, <1>2, <1>4, <1>5, <1>6 DEF Gathered

(* The first piece of a transfer.                                          *)
LEMMA GatheredFirst ==
  ASSUME NEW x \in Pieces, NEW ds,
         ds[x.resource].found, ds[x.resource].data = <<x.chunk>>
  PROVE  Gathered(ds, <<x>>)
<1>1. Continues(<<x>>, <<>>, x) /\ <<>> \in Seq(Pieces)
  BY DEF Continues
<1>2. ResourcesOf(<<>>) = {}
  BY DEF ResourcesOf
<1>3. ResourcesOf(<<x>>) = {x.resource}
  <2>1. ResourcesOf(<<x>>) = ResourcesOf(<<>>) \cup {x.resource}
    BY <1>1, ResourcesAppend, Zenon
  <2>. QED
    BY <1>2, <2>1
<1>4. LastResource(<<x>>) = x.resource
  BY DEF LastResource
<1>5. IsDataOf(<<x.chunk>>, <<x>>, x.resource)
  BY <1>1, <1>2, DataOfFirst
<1>. QED
  BY <1>3, <1>4, <1>5 DEF Gathered

-----------------------------------------------------------------------------
(* What the operations of DictionaryManager do to the map.                 *)

LEMMA ClearEffect ==
  ASSUME NEW dm \in Managers, NEW r \in ResourceIds,
         NEW cleared, cleared = InvalidateDictionaryEntry(dm, r)
  PROVE  /\ cleared.dictionaries \in [ResourceIds -> DictionaryEntry]
         /\ cleared.dictionaries[r].found = dm.dictionaries[r].found
         /\ ~cleared.dictionaries[r].valid
         /\ cleared.dictionaries[r].data = dm.dictionaries[r].data
         /\ \A q \in ResourceIds \ {r} :
              cleared.dictionaries[q] = dm.dictionaries[q]
         /\ cleared = [dictionaries |-> cleared.dictionaries,
                       validDictionaryCount |-> cleared.validDictionaryCount]
<1>1. dm.dictionaries \in [ResourceIds -> DictionaryEntry]
  BY DEF Managers
<1>2. /\ cleared.dictionaries =
           [dm.dictionaries EXCEPT ![r] = [dm.dictionaries[r] EXCEPT !.valid = FALSE]]
      /\ cleared = [dictionaries |-> cleared.dictionaries,
                    validDictionaryCount |-> cleared.validDictionaryCount]
  BY <1>1 DEF InvalidateDictionaryEntry, Managers
<1> DEFINE entry == [dm.dictionaries[r] EXCEPT !.valid = FALSE]
<1>3. /\ entry \in DictionaryEntry /\ ~entry.valid
      /\ entry.found = dm.dictionaries[r].found
      /\ entry.data = dm.dictionaries[r].data
  <2>1. dm.dictionaries[r] \in DictionaryEntry
    BY <1>1
  <2>. QED
    BY <2>1 DEF DictionaryEntry
<1> HIDE DEF entry
<1>4. cleared.dictionaries = [dm.dictionaries EXCEPT ![r] = entry]
  BY <1>2 DEF entry
<1>. QED
  BY <1>1, <1>2, <1>3, <1>4

LEMMA StartEffect ==
  ASSUME NEW dm \in Managers, NEW r \in ResourceIds, NEW d,
         NEW new, new = StartDictionaryEntry(dm, r, d)
  PROVE  /\ new.dictionaries[r].found /\ ~new.dictionaries[r].valid
         /\ new.dictionaries[r].data = d
         /\ \A q \in ResourceIds \ {r} :
              new.dictionaries[q] = dm.dictionaries[q]
<1>. SUFFICES ASSUME NEW cleared, cleared = InvalidateDictionaryEntry(dm, r)
              PROVE  /\ new.dictionaries[r].found /\ ~new.dictionaries[r].valid
                     /\ new.dictionaries[r].data = d
                     /\ \A q \in ResourceIds \ {r} :
                          new.dictionaries[q] = dm.dictionaries[q]
  OBVIOUS
<1>1. /\ cleared.dictionaries \in [ResourceIds -> DictionaryEntry]
      /\ ~cleared.dictionaries[r].valid
      /\ \A q \in ResourceIds \ {r} :
           cleared.dictionaries[q] = dm.dictionaries[q]
      /\ cleared = [dictionaries |-> cleared.dictionaries,
                    validDictionaryCount |-> cleared.validDictionaryCount]
  BY ClearEffect
<1>2. new = [cleared EXCEPT !.dictionaries[r].found = TRUE,
                            !.dictionaries[r].data = d]
  BY DEF StartDictionaryEntry
<1>3. new.dictionaries = [cleared.dictionaries EXCEPT ![r].found = TRUE,
                                                      ![r].data = d]
  BY <1>1, <1>2
<1>4. new.dictionaries =
        [cleared.dictionaries EXCEPT
           ![r] = [cleared.dictionaries[r] EXCEPT !.found = TRUE, !.data = d]]
  BY <1>1, <1>3 DEF DictionaryEntry
<1>. QED
  BY <1>1, <1>4 DEF DictionaryEntry

LEMMA MarkEffect ==
  ASSUME NEW dm \in Managers, NEW r \in ResourceIds, dm.dictionaries[r].found,
         NEW new, new = MarkDataComplete(dm, r)
  PROVE  /\ new.dictionaries[r].found /\ new.dictionaries[r].valid
         /\ new.dictionaries[r].data = dm.dictionaries[r].data
         /\ \A q \in ResourceIds \ {r} :
              new.dictionaries[q] = dm.dictionaries[q]
<1>1. dm.dictionaries \in [ResourceIds -> DictionaryEntry]
  BY DEF Managers
<1>2. new.dictionaries =
        [dm.dictionaries EXCEPT ![r] = [dm.dictionaries[r] EXCEPT !.valid = TRUE]]
  BY <1>1 DEF MarkDataComplete, ValidateDictionaryEntry, Managers
<1>. QED
  BY <1>1, <1>2 DEF DictionaryEntry

LEMMA AddEffect ==
  ASSUME NEW dm \in Managers, NEW x \in Pieces, NEW r, r = x.resource,
         dm.dictionaries[r].found, NEW d, d = <<x.chunk>>,
         NEW new, new = AddDictionaryData(dm, r, d)
  PROVE  /\ new.dictionaries[r].found /\ ~new.dictionaries[r].valid
         /\ new.dictionaries[r].data = WithPiece(dm.dictionaries[r].data, x)
         /\ \A q \in ResourceIds \ {r} :
              new.dictionaries[q] = dm.dictionaries[q]
<1>. SUFFICES ASSUME NEW cleared, cleared = InvalidateDictionaryEntry(dm, r),
                     NEW more, more = WithPiece(dm.dictionaries[r].data, x)
              PROVE  /\ new.dictionaries[r].found /\ ~new.dictionaries[r].valid
                     /\ new.dictionaries[r].data = more
                     /\ \A q \in ResourceIds \ {r} :
                          new.dictionaries[q] = dm.dictionaries[q]
  OBVIOUS
<1>1. /\ cleared.dictionaries \in [ResourceIds -> DictionaryEntry]
      /\ ~cleared.dictionaries[r].valid
      /\ cleared.dictionaries[r].found
      /\ cleared.dictionaries[r].data = dm.dictionaries[r].data
      /\ \A q \in ResourceIds \ {r} :
           cleared.dictionaries[q] = dm.dictionaries[q]
      /\ cleared = [dictionaries |-> cleared.dictionaries,
                    validDictionaryCount |-> cleared.validDictionaryCount]
  BY ClearEffect DEF Pieces
<1>2. r \in ResourceIds
  BY DEF Pieces
<1>3. more = cleared.dictionaries[r].data \o d
  BY <1>1 DEF WithPiece
<1>4. new = [cleared EXCEPT !.dictionaries[r].data = more]
  BY <1>3 DEF AddDictionaryData
<1>5. new.dictionaries = [cleared.dictionaries EXCEPT ![r].data = more]
  BY <1>1, <1>4
<1>6. new.dictionaries =
        [cleared.dictionaries EXCEPT
           ![r] = [cleared.dictionaries[r] EXCEPT !.data = more]]
  BY <1>1, <1>5
<1>. QED
  BY <1>1, <1>2, <1>6 DEF DictionaryEntry

LEMMA InvalidateEffect ==
  ASSUME NEW dm \in Managers, NEW q \in ResourceIds
  PROVE  ~InvalidateDictionaries(dm).dictionaries[q].valid
BY DEF InvalidateDictionaries, Managers, DictionaryEntry

(* A packet's data in the map, once its resource has been started.         *)
LEMMA StoreEffect ==
  ASSUME HandlerInv, NEW x \in Pieces, NEW p \in Packets,
         p.resource = x.resource, p.data = <<x.chunk>>,
         dictionaryManager.dictionaries[prevDictResourceId].found
  PROVE  Stores(dictionaryManager.dictionaries, StoreData(p).dictionaries,
                prevDictResourceId, x)
<1>. SUFFICES ASSUME NEW dm, dm = dictionaryManager,
                     NEW last, last = prevDictResourceId,
                     NEW new, new = StoreData(p)
              PROVE  Stores(dm.dictionaries, new.dictionaries, last, x)
  OBVIOUS
<1>1. /\ dm \in Managers /\ WellFormed(dm) /\ last \in ResourceIds
      /\ dm.dictionaries[last].found
      /\ x.resource \in ResourceIds /\ p.data \in Seq(Chunks)
  BY DEF HandlerInv, WellFormed, Pieces, Packets
<1>2. CASE x.resource = last
  <2>1. new = AddDictionaryData(dm, last, p.data)
    BY <1>2 DEF StoreData
  <2>2. /\ new.dictionaries[last].found /\ ~new.dictionaries[last].valid
        /\ new.dictionaries[last].data = WithPiece(dm.dictionaries[last].data, x)
        /\ \A q \in ResourceIds \ {last} :
             new.dictionaries[q] = dm.dictionaries[q]
    BY <1>1, <1>2, <2>1, AddEffect
  <2>. QED
    BY <1>2, <2>2 DEF Stores
<1>3. CASE x.resource # last
  <2>. SUFFICES ASSUME NEW marked, marked = MarkDataComplete(dm, last),
                       NEW d, d = p.data,
                       NEW r \in ResourceIds, r = x.resource
                PROVE  Stores(dm.dictionaries, new.dictionaries, last, x)
    BY <1>1
  <2>1. new = StartDictionaryEntry(marked, r, d)
    BY <1>3 DEF StoreData
  <2>2. marked \in Managers
    BY <1>1, OperationsCount DEF WellFormed
  <2>3. /\ marked.dictionaries[last].found /\ marked.dictionaries[last].valid
        /\ marked.dictionaries[last].data = dm.dictionaries[last].data
        /\ \A q \in ResourceIds \ {last} :
             marked.dictionaries[q] = dm.dictionaries[q]
    BY <1>1, MarkEffect
  <2>4. /\ new.dictionaries[r].found
        /\ ~new.dictionaries[r].valid
        /\ new.dictionaries[r].data = d
        /\ \A q \in ResourceIds \ {r} :
             new.dictionaries[q] = marked.dictionaries[q]
    BY <2>1, <2>2, StartEffect
  <2>. QED
    BY <1>1, <1>3, <2>3, <2>4 DEF Stores
<1>. QED
  BY <1>2, <1>3

-----------------------------------------------------------------------------
(* What a packet of a transfer does.                                       *)

(* The handler is gathering, and recv is what it has gathered.             *)
Holding(recv) ==
  /\ flagState = "RdeStateStartRecvd"
  /\ crc = ChunksOf(recv)
  /\ prevDictResourceId = LastResource(recv)
  /\ dictionaryManager.dictionaries[prevDictResourceId].found
  /\ OneAfterAnother(recv) => Gathered(dictionaryManager.dictionaries, recv)

LEMMA TransferPieces ==
  ASSUME NEW t \in AllTransfers
  PROVE  /\ t \in Seq(Pieces) /\ t # <<>> /\ OneAfterAnother(t)
         /\ Len(t) \in Nat \ {0} /\ DOMAIN t = 1 .. Len(t)
         /\ \A i \in 1 .. Len(t) : t[i] \in Pieces
<1>1. t \in Seq(Pieces) /\ t # <<>> /\ OneAfterAnother(t)
  BY DEF AllTransfers
<1>. QED
  BY <1>1, ElementOfSeq

(* The first of several packets of a transfer starts all over.             *)
LEMMA StartHolds ==
  ASSUME HandlerInv, NEW t \in AllTransfers, Len(t) # 1,
         MultiPartReceiveResp(PacketOf(t, 1))
  PROVE  /\ Holding(<<t[1]>>)'
         /\ ~dictionaryManager'.dictionaries[t[1].resource].valid
         /\ \A q \in ResourceIds \ {t[1].resource} :
              dictionaryManager'.dictionaries[q] = dictionaryManager.dictionaries[q]
         /\ status' = "RdeOk"
<1>. SUFFICES ASSUME NEW p, p = PacketOf(t, 1), NEW x \in Pieces, x = t[1]
              PROVE  /\ Holding(<<x>>)'
                     /\ ~dictionaryManager'.dictionaries[x.resource].valid
                     /\ \A q \in ResourceIds \ {x.resource} :
                          dictionaryManager'.dictionaries[q]
                            = dictionaryManager.dictionaries[q]
                     /\ status' = "RdeOk"
  BY TransferPieces
<1>1. p.flag = "Start" /\ p.resource = x.resource /\ p.data = <<x.chunk>>
  BY DEF PacketOf
<1>2. HandleFlagStart(p) /\ prevDictResourceId' = x.resource
  BY <1>1 DEF MultiPartReceiveResp, HandleFlagMiddle, HandleFlagEnd,
              HandleFlagStartAndEnd, HandleOutOfOrder, HandleInvalidFlag
<1>3. x.resource \in ResourceIds /\ dictionaryManager \in Managers
  BY DEF Pieces, HandlerInv, WellFormed
<1>4. /\ dictionaryManager'.dictionaries[x.resource].found
      /\ ~dictionaryManager'.dictionaries[x.resource].valid
      /\ dictionaryManager'.dictionaries[x.resource].data = p.data
      /\ \A q \in ResourceIds \ {x.resource} :
           dictionaryManager'.dictionaries[q] = dictionaryManager.dictionaries[q]
  <2>1. dictionaryManager' =
          StartDictionaryEntry(dictionaryManager, x.resource, p.data)
    BY <1>1, <1>2 DEF HandleFlagStart
  <2>. QED
    BY <1>3, <2>1, StartEffect
<1>5. Gathered(dictionaryManager'.dictionaries, <<x>>)
  BY <1>1, <1>4, GatheredFirst
<1>6. LastResource(<<x>>) = x.resource /\ ChunksOf(<<x>>) = <<x.chunk>>
  BY DEF LastResource, ChunksOf
<1>7. flagState' = "RdeStateStartRecvd" /\ crc' = <<x.chunk>> /\ status' = "RdeOk"
  BY <1>1, <1>2 DEF HandleFlagStart
<1>. QED
  BY <1>2, <1>4, <1>5, <1>6, <1>7 DEF Holding

(* A packet in the middle adds its piece.                                  *)
LEMMA MiddleHolds ==
  ASSUME HandlerInv, NEW t \in AllTransfers, NEW i \in 2 .. Len(t) - 1,
         NEW recv \in Seq(Pieces), recv # <<>>, Holding(recv),
         NEW next, Continues(next, recv, t[i]),
         MultiPartReceiveResp(PacketOf(t, i))
  PROVE  /\ Holding(next)'
         /\ Stores(dictionaryManager.dictionaries,
                   dictionaryManager'.dictionaries, LastResource(recv), t[i])
         /\ status' = "RdeOk"
<1>. SUFFICES ASSUME NEW p, p = PacketOf(t, i), NEW x \in Pieces, x = t[i]
              PROVE  /\ Holding(next)'
                     /\ Stores(dictionaryManager.dictionaries,
                               dictionaryManager'.dictionaries,
                               LastResource(recv), x)
                     /\ status' = "RdeOk"
  BY TransferPieces
<1>1. /\ p.flag = "Middle" /\ p.resource = x.resource /\ p.data = <<x.chunk>>
      /\ p \in Packets
  <2>1. i # 1 /\ i # Len(t) /\ Len(t) # 1 /\ i \in 1 .. Len(t)
    BY TransferPieces
  <2>2. p \in Packets
    BY <2>1, PacketType
  <2>. QED
    BY <2>1, <2>2 DEF PacketOf
<1>2. HandleFlagMiddle(p) /\ prevDictResourceId' = x.resource
  BY <1>1 DEF MultiPartReceiveResp, HandleFlagStart, HandleFlagEnd, Holding,
              HandleFlagStartAndEnd, HandleOutOfOrder, HandleInvalidFlag
<1>3. /\ dictionaryManager' = StoreData(p) /\ crc' = crc \o p.data
      /\ status' = "RdeOk" /\ flagState' = "RdeStateStartRecvd"
  BY <1>1, <1>2 DEF HandleFlagMiddle, StoreFails, Holding
<1>4. Stores(dictionaryManager.dictionaries, dictionaryManager'.dictionaries,
             LastResource(recv), x)
  BY <1>1, <1>3, StoreEffect DEF Holding
<1>5. LastResource(next) = x.resource
  BY AppendPiece DEF LastResource
<1>6. crc' = ChunksOf(next)
  BY <1>1, <1>3, ChunksAppend DEF Holding
<1>7. dictionaryManager'.dictionaries[x.resource].found
  BY <1>4 DEF Stores
<1>8. ASSUME OneAfterAnother(next)
      PROVE  Gathered(dictionaryManager'.dictionaries, next)
  <2>1. OneAfterAnother(recv)
    BY <1>8, OneAfterAnotherAppend
  <2>2. dictionaryManager.dictionaries \in [ResourceIds -> DictionaryEntry]
    BY DEF HandlerInv, WellFormed, Managers
  <2>. QED
    BY <1>4, <1>8, <2>1, <2>2, GatheredNext DEF Holding
<1>. QED
  BY <1>2, <1>3, <1>4, <1>5, <1>6, <1>7, <1>8 DEF Holding

(* Completing the last resource completes all of them.                     *)
LEMMA MarkCompletes ==
  ASSUME NEW recv \in Seq(Pieces), recv # <<>>,
         NEW dm \in Managers, Gathered(dm.dictionaries, recv),
         NEW new, new = MarkDataComplete(dm, LastResource(recv))
  PROVE  /\ Complete(new.dictionaries, recv)
         /\ \A q \in ResourceIds \ ResourcesOf(recv) :
              new.dictionaries[q] = dm.dictionaries[q]
<1>. SUFFICES ASSUME NEW last, last = LastResource(recv)
              PROVE  /\ Complete(new.dictionaries, recv)
                     /\ \A q \in ResourceIds \ ResourcesOf(recv) :
                          new.dictionaries[q] = dm.dictionaries[q]
  OBVIOUS
<1>1. /\ ResourcesOf(recv) \subseteq ResourceIds
      /\ last \in ResourcesOf(recv) /\ last \in ResourceIds
  BY ResourcesOfPieces
<1>2. dm.dictionaries[last].found
  BY <1>1 DEF Gathered
<1>3. /\ new.dictionaries[last].found /\ new.dictionaries[last].valid
      /\ new.dictionaries[last].data = dm.dictionaries[last].data
      /\ \A q \in ResourceIds \ {last} : new.dictionaries[q] = dm.dictionaries[q]
  BY <1>1, <1>2, MarkEffect
<1>. QED
  BY <1>1, <1>3 DEF Gathered, Complete

(* The last of several packets ends the transfer.  It is accepted exactly  *)
(* if all of the data is there, and otherwise nothing stays usable.        *)
LEMMA EndStops ==
  ASSUME HandlerInv, NEW t \in AllTransfers, NEW i, i = Len(t), i # 1,
         NEW recv \in Seq(Pieces), recv # <<>>, Holding(recv),
         NEW next, Continues(next, recv, t[i]),
         MultiPartReceiveResp(PacketOf(t, i))
  PROVE  /\ flagState' = "RdeStateIdle"
         /\ ChunksOf(next) = ChunksOf(t) =>
              /\ status' = "RdeStopFlagReceived"
              /\ OneAfterAnother(next) =>
                   /\ Complete(dictionaryManager'.dictionaries, next)
                   /\ \A q \in ResourceIds \ ResourcesOf(next) :
                        dictionaryManager'.dictionaries[q]
                          = dictionaryManager.dictionaries[q]
         /\ ChunksOf(next) # ChunksOf(t) =>
              /\ status' = "RdeInvalidChecksum"
              /\ \A q \in ResourceIds : ~dictionaryManager'.dictionaries[q].valid
<1>. SUFFICES ASSUME NEW p, p = PacketOf(t, i), NEW x \in Pieces, x = t[i],
                     NEW stored, stored = StoreData(p),
                     NEW marked, marked = MarkDataComplete(stored, p.resource)
              PROVE  /\ flagState' = "RdeStateIdle"
                     /\ ChunksOf(next) = ChunksOf(t) =>
                          /\ status' = "RdeStopFlagReceived"
                          /\ OneAfterAnother(next) =>
                               /\ Complete(dictionaryManager'.dictionaries, next)
                               /\ \A q \in ResourceIds \ ResourcesOf(next) :
                                    dictionaryManager'.dictionaries[q]
                                      = dictionaryManager.dictionaries[q]
                     /\ ChunksOf(next) # ChunksOf(t) =>
                          /\ status' = "RdeInvalidChecksum"
                          /\ \A q \in ResourceIds :
                               ~dictionaryManager'.dictionaries[q].valid
  BY TransferPieces
<1>1. /\ p.flag = "End" /\ p.resource = x.resource /\ p.data = <<x.chunk>>
      /\ p.sizeMatches /\ p.checksum = ChunksOf(t) /\ p \in Packets
  <2>1. i \in 1 .. Len(t)
    BY TransferPieces
  <2>2. p \in Packets
    BY <2>1, PacketType
  <2>. QED
    BY <2>1, <2>2 DEF PacketOf
<1>2. HandleFlagEnd(p)
  BY <1>1 DEF MultiPartReceiveResp, HandleFlagStart, HandleFlagMiddle, Holding,
              HandleFlagStartAndEnd, HandleOutOfOrder, HandleInvalidFlag
<1>3. ~StoreFails(p)
  BY <1>1 DEF StoreFails, Holding
<1>4. crc \o p.data = ChunksOf(next)
  BY <1>1, ChunksAppend DEF Holding
<1>5. /\ flagState' = "RdeStateIdle"
      /\ dictionaryManager' = HandleCrc(p, ChunksOf(next), marked).manager
      /\ status' = HandleCrc(p, ChunksOf(next), marked).ret
  BY <1>2, <1>3, <1>4 DEF HandleFlagEnd
<1>6. /\ stored \in Managers /\ marked \in Managers
  BY <1>1, StoreDataCounts DEF WellFormed
<1>7. ASSUME ChunksOf(next) = ChunksOf(t)
      PROVE  status' = "RdeStopFlagReceived" /\ dictionaryManager' = marked
  BY <1>1, <1>5, <1>7 DEF HandleCrc
<1>8. ASSUME ChunksOf(next) # ChunksOf(t)
      PROVE  /\ status' = "RdeInvalidChecksum"
             /\ \A q \in ResourceIds : ~dictionaryManager'.dictionaries[q].valid
  <2>1. /\ status' = "RdeInvalidChecksum"
        /\ dictionaryManager' = InvalidateDictionaries(marked)
    BY <1>1, <1>5, <1>8 DEF HandleCrc
  <2>. QED
    BY <1>6, <2>1, InvalidateEffect
<1>9. ASSUME OneAfterAnother(next)
      PROVE  /\ Complete(marked.dictionaries, next)
             /\ \A q \in ResourceIds \ ResourcesOf(next) :
                  marked.dictionaries[q] = dictionaryManager.dictionaries[q]
  <2>1. Stores(dictionaryManager.dictionaries, stored.dictionaries,
               LastResource(recv), x)
    BY <1>1, StoreEffect DEF Holding
  <2>2. OneAfterAnother(recv)
    BY <1>9, OneAfterAnotherAppend
  <2>3. dictionaryManager.dictionaries \in [ResourceIds -> DictionaryEntry]
    BY DEF HandlerInv, WellFormed, Managers
  <2>4. Gathered(stored.dictionaries, next)
    BY <1>9, <2>1, <2>2, <2>3, GatheredNext DEF Holding
  <2>5. /\ LastResource(next) = x.resource /\ next \in Seq(Pieces)
        /\ next # <<>>
    BY AppendPiece DEF LastResource
  <2>6. /\ Complete(marked.dictionaries, next)
        /\ \A q \in ResourceIds \ ResourcesOf(next) :
             marked.dictionaries[q] = stored.dictionaries[q]
    BY <1>1, <1>6, <2>4, <2>5, MarkCompletes
  <2>7. /\ ResourcesOf(next) = ResourcesOf(recv) \cup {x.resource}
        /\ LastResource(recv) \in ResourcesOf(recv)
    BY ResourcesAppend, ResourcesOfPieces
  <2>. QED
    BY <2>1, <2>6, <2>7 DEF Stores
<1>. QED
  BY <1>5, <1>7, <1>8, <1>9

(* The only packet of a transfer is always accepted.                       *)
LEMMA SingleStops ==
  ASSUME HandlerInv, NEW t \in AllTransfers, Len(t) = 1,
         MultiPartReceiveResp(PacketOf(t, 1))
  PROVE  /\ flagState' = "RdeStateIdle"
         /\ status' = "RdeStopFlagReceived"
         /\ Complete(dictionaryManager'.dictionaries, t)
         /\ \A q \in ResourceIds \ ResourcesOf(t) :
              dictionaryManager'.dictionaries[q] = dictionaryManager.dictionaries[q]
<1>. SUFFICES ASSUME NEW p, p = PacketOf(t, 1), NEW x \in Pieces, x = t[1],
                     NEW d, d = p.data, NEW started,
                     started = StartDictionaryEntry(dictionaryManager,
                                                    x.resource, d),
                     NEW marked, marked = MarkDataComplete(started, x.resource)
              PROVE  /\ flagState' = "RdeStateIdle"
                     /\ status' = "RdeStopFlagReceived"
                     /\ Complete(dictionaryManager'.dictionaries, t)
                     /\ \A q \in ResourceIds \ ResourcesOf(t) :
                          dictionaryManager'.dictionaries[q]
                            = dictionaryManager.dictionaries[q]
  BY TransferPieces
<1>1. t = <<x>>
  BY TransferPieces
<1>2. LastResource(t) = x.resource /\ ChunksOf(t) = <<x.chunk>>
  BY <1>1 DEF LastResource, ChunksOf
<1>3. /\ p.flag = "StartAndEnd" /\ p.resource = x.resource /\ d = <<x.chunk>>
      /\ p.sizeMatches /\ p.checksum = <<x.chunk>> /\ d \in Seq(Chunks)
  BY <1>2 DEF PacketOf, Pieces
<1>4. HandleFlagStartAndEnd(p)
  BY <1>3 DEF MultiPartReceiveResp, HandleFlagStart, HandleFlagMiddle,
              HandleFlagEnd, HandleOutOfOrder, HandleInvalidFlag
<1>5. /\ flagState' = "RdeStateIdle"
      /\ dictionaryManager' = marked
      /\ status' = "RdeStopFlagReceived"
  BY <1>3, <1>4 DEF HandleFlagStartAndEnd, HandleCrc
<1>6. /\ x.resource \in ResourceIds /\ started \in Managers
      /\ dictionaryManager \in Managers
  BY <1>3, OperationsCount DEF Pieces, HandlerInv, WellFormed
<1>7. /\ started.dictionaries[x.resource].found
      /\ started.dictionaries[x.resource].data = d
      /\ \A q \in ResourceIds \ {x.resource} :
           started.dictionaries[q] = dictionaryManager.dictionaries[q]
  BY <1>6, StartEffect
<1>8. Gathered(started.dictionaries, t)
  BY <1>1, <1>3, <1>7, GatheredFirst
<1>9. /\ Complete(marked.dictionaries, t)
      /\ \A q \in ResourceIds \ ResourcesOf(t) :
           marked.dictionaries[q] = started.dictionaries[q]
  BY <1>2, <1>6, <1>8, MarkCompletes, TransferPieces
<1>10. x.resource \in ResourcesOf(t)
  BY <1>1 DEF ResourcesOf
<1>. QED
  BY <1>5, <1>7, <1>9, <1>10

(* While nothing has been started, later packets are refused.              *)
LEMMA OutOfOrderRefused ==
  ASSUME NEW t \in AllTransfers, NEW i \in 2 .. Len(t),
         flagState # "RdeStateStartRecvd",
         MultiPartReceiveResp(PacketOf(t, i))
  PROVE  /\ UNCHANGED <<flagState, dictionaryManager>>
         /\ status' = "RdeInvalidPktOrder"
<1>. SUFFICES ASSUME NEW p, p = PacketOf(t, i)
              PROVE  /\ UNCHANGED <<flagState, dictionaryManager>>
                     /\ status' = "RdeInvalidPktOrder"
  OBVIOUS
<1>1. p.flag \in {"Middle", "End"}
  BY TransferPieces DEF PacketOf
<1>. QED
  BY <1>1 DEF MultiPartReceiveResp, HandleFlagStart, HandleFlagMiddle,
              HandleFlagEnd, HandleFlagStartAndEnd, HandleOutOfOrder,
              HandleInvalidFlag

-----------------------------------------------------------------------------
(* Transfers that arrive.                                                  *)

FirstPieces(t, n) == [i \in 1 .. n |-> t[i]]

LEMMA FirstPiecesAppend ==
  ASSUME NEW t \in AllTransfers, NEW n \in 1 .. Len(t)
  PROVE  /\ FirstPieces(t, n) \in Seq(Pieces)
         /\ FirstPieces(t, n) # <<>>
         /\ n < Len(t) => Continues(FirstPieces(t, n + 1), FirstPieces(t, n),
                                    t[n + 1])
         /\ n = Len(t) => FirstPieces(t, n) = t
         /\ n = 1 => FirstPieces(t, n) = <<t[1]>>
<1>1. /\ t \in Seq(Pieces) /\ Len(t) \in Nat /\ DOMAIN t = 1 .. Len(t)
      /\ \A i \in 1 .. Len(t) : t[i] \in Pieces
  BY TransferPieces
<1>2. /\ FirstPieces(t, n) \in Seq(Pieces)
      /\ FirstPieces(t, n) # <<>>
      /\ Len(FirstPieces(t, n)) = n
  BY <1>1 DEF FirstPieces
<1>3. ASSUME n < Len(t)
      PROVE  Continues(FirstPieces(t, n + 1), FirstPieces(t, n), t[n + 1])
  <2>1. t[n + 1] \in Pieces /\ n + 1 \in 1 .. Len(t)
    BY <1>1, <1>3
  <2>2. ASSUME NEW recv, recv = FirstPieces(t, n), NEW x \in Pieces, x = t[n + 1]
        PROVE  Append(recv, x) = FirstPieces(t, n + 1)
    <3>1. /\ recv \in Seq(Pieces) /\ Len(recv) = n
          /\ \A i \in 1 .. n : recv[i] = t[i]
      BY <1>2, <2>2 DEF FirstPieces
    <3>. QED
      BY <2>2, <3>1 DEF FirstPieces
  <2>. QED
    BY <2>1, <2>2 DEF Continues
<1>4. n = Len(t) => FirstPieces(t, n) = t
  BY <1>1 DEF FirstPieces
<1>5. n = 1 => FirstPieces(t, n) = <<t[1]>>
  BY <1>1 DEF FirstPieces
<1>. QED
  BY <1>2, <1>3, <1>4, <1>5

-----------------------------------------------------------------------------
(* Transfers that are accepted.                                            *)

(* The checksum covers the data of a transfer, and not the resource ids in *)
(* its packets: two dictionaries must differ in every chunk for the        *)
(* checksum to tell which one a chunk belongs to.                          *)
NamedByChunks(S) ==
  \A x, y \in S : x.chunk = y.chunk => x.resource = y.resource

(* With the chunks, the pieces are the same.                               *)
LEMMA SameChunks ==
  ASSUME NEW S \in SUBSET Pieces, NamedByChunks(S),
         NEW t \in Seq(S), NEW recv \in Seq(S), ChunksOf(recv) = ChunksOf(t)
  PROVE  recv = t
<1>1. /\ Len(t) \in Nat /\ DOMAIN t = 1 .. Len(t)
      /\ \A i \in 1 .. Len(t) : t[i] \in S /\ t[i] \in Pieces
      /\ t = [i \in 1 .. Len(t) |-> t[i]]
  BY ElementOfSeq
<1>2. /\ Len(recv) \in Nat /\ DOMAIN recv = 1 .. Len(recv)
      /\ \A i \in 1 .. Len(recv) : recv[i] \in S /\ recv[i] \in Pieces
      /\ recv = [i \in 1 .. Len(recv) |-> recv[i]]
  BY ElementOfSeq
<1>3. 1 .. Len(recv) = 1 .. Len(t)
  <2>1. DOMAIN ChunksOf(recv) = DOMAIN recv /\ DOMAIN ChunksOf(t) = DOMAIN t
    BY DEF ChunksOf
  <2>. QED
    BY <1>1, <1>2, <2>1
<1>4. ASSUME NEW i \in 1 .. Len(t)
      PROVE  recv[i] = t[i]
  <2>1. ChunksOf(recv)[i] = recv[i].chunk /\ ChunksOf(t)[i] = t[i].chunk
    BY <1>1, <1>2, <1>3 DEF ChunksOf
  <2>2. recv[i].chunk = t[i].chunk
    BY <2>1
  <2>3. recv[i].resource = t[i].resource
    BY <1>1, <1>2, <1>3, <2>2 DEF NamedByChunks
  <2>4. \A x, y \in Pieces : x.resource = y.resource /\ x.chunk = y.chunk => x = y
    BY DEF Pieces
  <2>. QED
    BY <1>1, <1>2, <1>3, <2>2, <2>3, <2>4
<1>. QED
  BY <1>1, <1>2, <1>3, <1>4

=============================================================================
