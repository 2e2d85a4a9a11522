------------------------------- MODULE Daemon -------------------------------
(***************************************************************************)
(* The daemon as a whole: readLoop (ReadLoop) calls decodeRdeCommand of    *)
(* one RdeCommandHandler (RdeHandler) for UE logs and for the entries of   *)
(* the queue, so that the outcome of a call depends on all calls before    *)
(* it.  The handler outlives exceptions and initialize(), but not the      *)
(* process.                                                                *)
(*                                                                         *)
(* The BIOS (external) sends its dictionaries through the queue after each *)
(* boot of the host, and queue logs once these are sent and the BMC shows  *)
(* the ready bit.  A UE log can come at any time.                          *)
(***************************************************************************)
EXTENDS ReadLoop, RdeHandler

CONSTANTS
  logResourceId,   \* the schema that logs are encoded with
  Transfer,        \* the dictionaries the BIOS sends, as a transfer
  LogResults,      \* what libbej and the storer may make of a log
  AlteredPackets,  \* what a packet may become when its bytes change
  MaxBoots         \* bound: boots of the host

VARIABLES
  contents,    \* what the BIOS put into the entries, by number: a packet
               \*   of the transfer, Log, or Altered
  host,        \* boots so far, packets sent since the last one
  whole,       \* history: no entry was lost since the last boot
  disturbed    \* history: ever, a packet was dropped at a full queue or
               \*   an entry changed and its checksum did not tell

history == <<whole, disturbed>>
daemonVars == <<vars, handlerVars, contents, host, history>>

ASSUME DaemonAssumption ==
  /\ logResourceId \in ResourceIds
  /\ Transfer \in Seq([resource : ResourceIds, chunk : Chunks])
  /\ OneAfterAnother(Transfer)
  /\ {annotationResourceId, logResourceId} \subseteq ResourcesOf(Transfer)
  /\ LogResults \subseteq {"RdeOk", "RdeBejDecodingError",
                           "RdeExternalStorerError", "throws"}
  /\ AlteredPackets \subseteq Packets
  /\ MaxBoots \in Nat
  \* The outcomes of the handler are those readLoop tells apart.
  /\ UeOutcomes = {"good", "bad"}
  /\ EntryOutcomes = {"log", "stop", "refused", "throws"}

-----------------------------------------------------------------------------
(* decodeRdeCommand.                                                       *)

Log == 0
Altered == -1

(* A log is decoded with the dictionaries there are, or one is missing; or *)
(* an exception of the storer passes through the handler.                  *)
DecodeLog(r) ==
  /\ OperationInitRequest(r)
  /\ status' \in LogResults \cup {"RdeNoDictionary"}

DecodeLogThrows ==
  /\ "throws" \in LogResults
  /\ \A r \in {logResourceId, annotationResourceId} :
       HasDictionary(dictionaryManager, r)
  /\ UNCHANGED handlerVars

(* The UE log; the zeroed region is a request without payload, and a log   *)
(* that is cut short is refused for its size.                              *)
DecodeUeLog ==
  \/ /\ ueLog # ZeroUe
     /\ DecodeLog(logResourceId)
     /\ DecodeUe(IF status' = "RdeOk" THEN "good" ELSE "bad")
  \/ /\ ueLog # ZeroUe
     /\ DecodeLogThrows
     /\ DecodeUe("bad")
  \/ /\ ueLog = ZeroUe
     /\ OperationInitEarly /\ status' = "RdeOk"
     /\ DecodeUe("zero")
  \/ /\ OperationInitEarly /\ status' = "RdeInvalidCommand"
     /\ DecodeUe("cut")

OutcomeOf(s) == CASE s = "RdeStopFlagReceived" -> "stop"
                  [] s = "RdeOk" -> "log"
                  [] OTHER -> "refused"

(* What an altered entry decodes to: another packet, a log with another    *)
(* resource id, or a command that is refused before it changes anything.   *)
DecodeAltered ==
  \/ \E p \in AlteredPackets : MultiPartReceiveResp(p)
  \/ \E r \in ResourceIds : DecodeLog(r)
  \/ OperationInitEarly

DecodeQueueEntry ==
  /\ entryPairs # <<>>
  /\ LET content == contents[Head(entryPairs)] IN
     \/ /\ content \in DOMAIN Transfer
        /\ MultiPartReceiveResp(PacketOf(Transfer, content))
        /\ DecodeEntry(OutcomeOf(status'))
     \/ /\ content = Log
        /\ DecodeLog(logResourceId)
        /\ DecodeEntry(OutcomeOf(status'))
     \/ /\ content = Altered
        /\ DecodeAltered
        /\ DecodeEntry(OutcomeOf(status'))
     \/ /\ content \in {Log, Altered}
        /\ DecodeLogThrows
        /\ DecodeEntry("throws")

-----------------------------------------------------------------------------
(* The steps of readLoop that do not decode.                               *)
LoopStep ==
  /\ \/ ReadUeHeader \/ ReadUeRegion \/ AckUe
     \/ CheckForOverflow \/ AckOverflow
     \/ ReadErrorLogs \/ SetReady \/ Rearm \/ InitializeHeader
  /\ UNCHANGED <<handlerVars, whole>>

(* Entries that were read and not yet decoded are lost with an exception,  *)
(* those in the queue when it is erased.                                   *)
EraseStep ==
  /\ InitializeErase
  /\ whole' = FALSE
  /\ UNCHANGED handlerVars

BmcStep ==
  /\ \/ LoopStep
     \/ EraseStep
     \/ (DecodeUeLog \/ DecodeQueueEntry) /\ UNCHANGED whole
  /\ UNCHANGED <<biosVars, faults, contents, host, disturbed>>

(* The daemon dies; its successor starts with a new handler.               *)
RestartStep ==
  /\ Restart
  /\ flagState' = "RdeStateIdle"
  /\ prevDictResourceId' = annotationResourceId
  /\ dictionaryManager' = NoDictionaries
  /\ crc' = <<>>
  /\ status' = "RdeOk"
  /\ UNCHANGED <<published, contents, host, history>>

CorruptStep ==
  /\ \/ CorruptSizes
     \/ CorruptQueue /\ \E i \in DOMAIN queue : CorruptDetected(i)
  /\ UNCHANGED <<handlerVars, contents, host, history>>

(* A change that the checksum of an entry does not tell.                   *)
AlterStep ==
  /\ CorruptQueue
  /\ \E i \in DOMAIN queue :
       /\ CorruptUnnoticed(i)
       /\ contents' = [contents EXCEPT ![queue[i]] = Altered]
  /\ whole' = FALSE /\ disturbed' = TRUE
  /\ UNCHANGED <<handlerVars, host>>

-----------------------------------------------------------------------------
(* The host boots; the BIOS forgets what it was doing.                     *)
Boot ==
  /\ host.boots < MaxBoots
  /\ host' = [boots |-> host.boots + 1, sent |-> 0]
  /\ bios' = IdleBios
  /\ whole' = TRUE
  /\ UNCHANGED <<shared, bmcVars, nextUe, nextEntry, faults, handlerVars,
                 contents, disturbed>>

SendPacket ==
  /\ host.boots > 0 /\ host.sent < Len(Transfer)
  /\ BiosAppend
  /\ contents' = Append(contents, host.sent + 1)
  /\ host' = [host EXCEPT !.sent = @ + 1]

SendLog ==
  /\ host.boots > 0 /\ host.sent = Len(Transfer)
  /\ hdr.bmcFlags.ready = 1
  /\ BiosAppend
  /\ contents' = Append(contents, Log)
  /\ UNCHANGED host

ReportStep ==
  /\ BiosWriteUe \/ BiosToggleUe \/ BiosOverflow
  /\ UNCHANGED <<contents, host>>

BiosStep ==
  /\ SendPacket \/ SendLog \/ ReportStep
  /\ UNCHANGED <<bmcVars, faults, handlerVars, history>>

(* The next packet finds the queue full.  The BIOS waits and sends it once *)
(* there is room (SendPacket), or drops it and goes on with the next one;  *)
(* the overflow flag reports it if it does not yet report another one.     *)
DropPacket ==
  /\ Fault("drop")
  /\ host.boots > 0 /\ host.sent < Len(Transfer)
  /\ \/ BiosOverflow
     \/ /\ bios.step = "idle" /\ hdr.sizes = "ok"
        /\ Len(queue) >= QueueCapacity /\ OverflowPending(hdr)
        /\ UNCHANGED <<shared, biosVars>>
  /\ host' = [host EXCEPT !.sent = @ + 1]
  /\ whole' = FALSE /\ disturbed' = TRUE
  /\ UNCHANGED <<bmcVars, handlerVars, contents>>

-----------------------------------------------------------------------------
DaemonInit ==
  /\ Init
  /\ HandlerInit
  /\ contents = <<>>
  /\ host = [boots |-> 0, sent |-> 0]
  /\ whole = FALSE /\ disturbed = FALSE

DaemonNext ==
  \/ BmcStep \/ BiosStep \/ DropPacket \/ Boot
  \/ RestartStep \/ CorruptStep \/ AlterStep

DaemonSpec == DaemonInit /\ [][DaemonNext]_daemonVars

(* As in ReadLoop; the BIOS and the host owe nothing.                      *)
FairDaemonSpec == DaemonSpec /\ WF_daemonVars(BmcStep)

-----------------------------------------------------------------------------
(* Properties.                                                             *)

IsWholeNow(r) ==
  /\ HasDictionary(dictionaryManager, r)
  /\ IsDataOf(dictionaryManager.dictionaries[r].data, Transfer, r)

AllWhole == \A r \in ResourcesOf(Transfer) : IsWholeNow(r)

(* What the ready bit tells the BIOS: unless a transfer is going on, the   *)
(* handler of the running daemon can decode logs with whole dictionaries,  *)
(* as long as entries are only lost by resets and restarts, which clear    *)
(* the bit.  After a single packet was dropped at a full queue, or changed *)
(* unnoticed, this is not so: END fails its checksum, which invalidates    *)
(* all dictionaries and leaves the bit of an earlier transfer set.         *)
ReadyMeansDictionaries ==
  ~disturbed /\ hdr.bmcFlags.ready = 1 /\ flagState = "RdeStateIdle" /\ pc # "erase"
    => AllWhole

(* As long as no packet is dropped or changed unnoticed, a log from the    *)
(* queue is only ever published with whole dictionaries, however resets,   *)
(* restarts and boots of the host cut transfers short.                     *)
QueueLogsDecodedWhole ==
  [][/\ ~disturbed
     /\ stored' # stored /\ contents[stored'[Len(stored')]] = Log
     => AllWhole]_daemonVars

(* A transfer of which nothing is lost makes the BMC ready, and with whole *)
(* dictionaries, whatever went wrong before it, and unless the host boots  *)
(* again.  This also ends the state after a lost packet in which the bit   *)
(* is set and all dictionaries are invalid.                                *)
TransferMakesReady ==
  (whole /\ host.sent = Len(Transfer)) ~>
    (\/ hdr.bmcFlags.ready = 1 /\ AllWhole
     \/ ~whole \/ host.sent < Len(Transfer))

(* The ready bit outlives the dictionaries it stands for: a new transfer   *)
(* or a new daemon begins without any.  Yet, as long as no packet is       *)
(* dropped or changed unnoticed, no log from the queue is ever refused for *)
(* want of one: what takes them away from a log that is waiting takes the  *)
(* log as well.                                                            *)
LogsFindDictionaries ==
  [][/\ ~disturbed
     /\ entryPairs # <<>> /\ entryPairs' = Tail(entryPairs)
     /\ contents[Head(entryPairs)] = Log
     => status' # "RdeNoDictionary"]_daemonVars

=============================================================================
