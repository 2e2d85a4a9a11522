----------------------------- MODULE RdeHandler -----------------------------
(***************************************************************************)
(* RdeCommandHandler (rde_handler.cpp): the reassembly of dictionaries     *)
(* from RDEMultipartReceive responses, and the decoding of BEJ encoded     *)
(* logs with them.  One action is one call of decodeRdeCommand.            *)
(*                                                                         *)
(* CRC-32 is taken to be free of collisions: the value of a CRC is the     *)
(* sequence of chunks it was computed over (Crc32 models the function).    *)
(***************************************************************************)
EXTENDS DictionaryManager

(* Packets.  sizeMatches: the command is exactly header + data + checksum. *)
Flags == {"Start", "Middle", "End", "StartAndEnd", "Invalid"}
Packets == [flag : Flags, resource : ResourceIds, data : Seq(Chunks),
            sizeMatches : BOOLEAN, checksum : Seq(Chunks)]

VARIABLES
  flagState,            \* RdeDictTransferFlagState
  prevDictResourceId,   \* resource id of the last packet
  dictionaryManager,
  crc,                  \* chunks since crc was last set to 0xFFFFFFFF
  status,               \* RdeDecodeStatus of the last command
  published             \* history: what the last published log used

handlerVars == <<flagState, prevDictResourceId, dictionaryManager, crc, status,
                 published>>

-----------------------------------------------------------------------------
Statuses == {"RdeOk", "RdeInvalidCommand", "RdeUnsupportedOperation",
             "RdeNoDictionary", "RdePayloadOverflow", "RdeBejDecodingError",
             "RdeInvalidPktOrder", "RdeDictionaryError",
             "RdeExternalStorerError", "RdeInvalidChecksum",
             "RdeStopFlagReceived"}

(* A transfer is a sequence of pieces [resource, chunk].                   *)
ChunksOf(t) == [i \in DOMAIN t |-> t[i].chunk]

ResourcesOf(t) == {t[i].resource : i \in DOMAIN t}
PiecesOf(t, r) == {i \in DOMAIN t : t[i].resource = r}

(* The BIOS sends one dictionary after the other.                          *)
OneAfterAnother(t) ==
  \A r \in ResourcesOf(t) :
    \E first, last \in DOMAIN t : PiecesOf(t, r) = first .. last

(* d is the whole data of resource r in transfer t.                        *)
IsDataOf(d, t, r) ==
  \E first \in DOMAIN t :
    /\ PiecesOf(t, r) = first .. first + Len(d) - 1
    /\ \A k \in DOMAIN d : d[k] = t[first + k - 1].chunk

(* Packet i of transfer t, as the BIOS (external) makes it: the first one  *)
(* carries START, the last one END and the CRC over all data.              *)
PacketOf(t, i) ==
  [flag |-> IF Len(t) = 1 THEN "StartAndEnd"
            ELSE IF i = 1 THEN "Start"
            ELSE IF i = Len(t) THEN "End" ELSE "Middle",
   resource |-> t[i].resource,
   data |-> <<t[i].chunk>>,
   sizeMatches |-> TRUE,
   checksum |-> ChunksOf(t)]

-----------------------------------------------------------------------------
(* multiPartReceiveResp.                                                   *)

(* A command shorter than its header and data is refused before anything   *)
(* is read from it.                                                        *)
ShortCommand ==
  /\ status' = "RdeInvalidCommand"
  /\ UNCHANGED <<flagState, prevDictResourceId, dictionaryManager, crc,
                 published>>

(* Faulty variant: the checksum is not compared.                           *)
HandleCrcUnchecked(p, c, m) ==
  [ret |-> IF p.sizeMatches THEN "RdeStopFlagReceived" ELSE "RdeInvalidCommand",
   manager |-> m]

(* handleCrc, after the data went into manager m and the CRC became c: the *)
(* command's status and the manager it leaves.                             *)
HandleCrc(p, c, m) ==
  IF ~p.sizeMatches THEN [ret |-> "RdeInvalidCommand", manager |-> m]
  ELSE IF c # p.checksum
       THEN [ret |-> "RdeInvalidChecksum", manager |-> InvalidateDictionaries(m)]
       ELSE [ret |-> "RdeStopFlagReceived", manager |-> m]

(* Faulty variant: a known resource id is always continued.                *)
StoreDataContinues(p) ==
  LET completed == MarkDataComplete(dictionaryManager, prevDictResourceId) IN
  IF dictionaryManager.dictionaries[p.resource].found
  THEN AddDictionaryData(completed, p.resource, p.data)
  ELSE StartDictionaryEntry(completed, p.resource, p.data)

(* Data for the same resource as before is added to it; another resource   *)
(* completes the previous dictionary and starts a new one.                 *)
StoreData(p) ==
  IF prevDictResourceId # p.resource
  THEN StartDictionaryEntry(
         MarkDataComplete(dictionaryManager, prevDictResourceId),
         p.resource, p.data)
  ELSE AddDictionaryData(dictionaryManager, p.resource, p.data)

StoreFails(p) ==
  /\ prevDictResourceId = p.resource
  /\ ~dictionaryManager.dictionaries[p.resource].found

(* Faulty variant: the CRC of an aborted transfer is continued.            *)
HandleFlagStartKeepsCrc(p) ==
  /\ p.flag = "Start"
  /\ crc' = crc \o p.data
  /\ dictionaryManager' =
       StartDictionaryEntry(dictionaryManager, p.resource, p.data)
  /\ flagState' = "RdeStateStartRecvd"
  /\ status' = "RdeOk"

HandleFlagStart(p) ==
  /\ p.flag = "Start"
  /\ crc' = p.data
  /\ dictionaryManager' =
       StartDictionaryEntry(dictionaryManager, p.resource, p.data)
  /\ flagState' = "RdeStateStartRecvd"
  /\ status' = "RdeOk"

HandleOutOfOrder(p) ==
  /\ p.flag \in {"Middle", "End"}
  /\ flagState # "RdeStateStartRecvd"
  /\ status' = "RdeInvalidPktOrder"
  /\ UNCHANGED <<flagState, dictionaryManager, crc>>

HandleFlagMiddle(p) ==
  /\ p.flag = "Middle"
  /\ flagState = "RdeStateStartRecvd"
  /\ \/ /\ ~StoreFails(p)
        /\ dictionaryManager' = StoreData(p)
        /\ crc' = crc \o p.data
        /\ status' = "RdeOk"
     \/ /\ StoreFails(p)
        /\ status' = "RdeDictionaryError"
        /\ UNCHANGED <<dictionaryManager, crc>>
  /\ UNCHANGED flagState

HandleFlagEnd(p) ==
  /\ p.flag = "End"
  /\ flagState = "RdeStateStartRecvd"
  /\ flagState' = "RdeStateIdle"
  /\ \/ /\ ~StoreFails(p)
        /\ crc' = crc \o p.data
        /\ LET result == HandleCrc(p, crc \o p.data,
                                   MarkDataComplete(StoreData(p), p.resource))
           IN /\ dictionaryManager' = result.manager
              /\ status' = result.ret
     \/ /\ StoreFails(p)
        /\ status' = "RdeDictionaryError"
        /\ UNCHANGED <<dictionaryManager, crc>>

HandleFlagStartAndEnd(p) ==
  /\ p.flag = "StartAndEnd"
  /\ flagState' = "RdeStateIdle"
  /\ crc' = p.data
  /\ LET started == StartDictionaryEntry(dictionaryManager, p.resource, p.data)
         result == HandleCrc(p, p.data, MarkDataComplete(started, p.resource))
     IN /\ dictionaryManager' = result.manager
        /\ status' = result.ret

HandleInvalidFlag(p) ==
  /\ p.flag = "Invalid"
  /\ status' = "RdeInvalidCommand"
  /\ UNCHANGED <<flagState, dictionaryManager, crc>>

(* The switch over transferFlag, and the assignment after it that is also  *)
(* made when the packet was refused.                                       *)
MultiPartReceiveResp(p) ==
  /\ \/ HandleFlagStart(p) \/ HandleFlagMiddle(p) \/ HandleFlagEnd(p)
     \/ HandleFlagStartAndEnd(p) \/ HandleOutOfOrder(p) \/ HandleInvalidFlag(p)
  /\ prevDictResourceId' = p.resource
  /\ UNCHANGED published

-----------------------------------------------------------------------------
(* operationInitRequest.                                                   *)

(* The checks that fail before a dictionary is asked for; RdeOk is a       *)
(* request without a payload, such as a region full of zeros.              *)
EarlyReturns == {"RdeInvalidCommand", "RdeOk", "RdeUnsupportedOperation",
                 "RdePayloadOverflow"}

(* What happens with the dictionaries, decided by libbej and the storer.   *)
LateReturns == {"RdeBejDecodingError", "RdeExternalStorerError", "RdeOk"}

NothingPublished == [resource |-> annotationResourceId, used |-> FALSE,
                     schema |-> <<>>, annotation |-> <<>>]

OperationInitEarly ==
  /\ \E s \in EarlyReturns : status' = s
  /\ UNCHANGED <<flagState, prevDictResourceId, dictionaryManager, crc,
                 published>>

OperationInitRequest(r) ==
  LET found == /\ HasDictionary(dictionaryManager, r)
               /\ HasDictionary(dictionaryManager, annotationResourceId)
  IN
  /\ \/ /\ ~found
        /\ status' = "RdeNoDictionary"
        /\ UNCHANGED published
     \/ /\ found
        /\ \E s \in LateReturns :
             /\ status' = s
             /\ published' =
                  IF s = "RdeOk"
                  THEN [resource |-> r, used |-> TRUE,
                        schema |-> dictionaryManager.dictionaries[r].data,
                        annotation |-> dictionaryManager.dictionaries
                                         [annotationResourceId].data]
                  ELSE published
  /\ UNCHANGED <<flagState, prevDictResourceId, dictionaryManager, crc>>

(* A command type that is neither of the two.                              *)
InvalidCommandType ==
  /\ status' = "RdeInvalidCommand"
  /\ UNCHANGED <<flagState, prevDictResourceId, dictionaryManager, crc,
                 published>>

-----------------------------------------------------------------------------
(* The constructor.                                                        *)
HandlerInit ==
  /\ flagState = "RdeStateIdle"
  /\ prevDictResourceId = annotationResourceId
  /\ dictionaryManager = NoDictionaries
  /\ crc = <<>>
  /\ status = "RdeOk"
  /\ published = NothingPublished

=============================================================================
