------------------------------ MODULE ReadLoop ------------------------------
(***************************************************************************)
(* readLoop (main.cpp): what the daemon does every READ_INTERVAL_MS with   *)
(* the shared memory as a whole.  It looks for a log of an uncorrectable   *)
(* error (UE) in the reserved region, acknowledges queue overflows, reads  *)
(* the queue and decodes its entries, and initializes the buffer when      *)
(* anything throws.  UE logs and overflows are handed over by pairs of     *)
(* bits: something is pending while the BIOS's bit differs from the BMC's. *)
(*                                                                         *)
(* One BMC action is one access to the shared memory, or one call of       *)
(* decodeRdeCommand, with the computation up to the next one.  The queue   *)
(* is a sequence of entries here; Buffer models how it is read, and Daemon *)
(* what decodeRdeCommand does, which is a choice of its outcomes here.     *)
(***************************************************************************)
EXTENDS Integers, Sequences

CONSTANTS
  UeOutcomes,      \* of decoding a UE log: "good", or "bad" for a status
                   \*   that makes readLoop throw and for an exception
  EntryOutcomes,   \* of decoding an entry: "log" (RdeOk), "stop" (the stop
                   \*   flag), "refused" (another status), "throws"
  QueueCapacity,   \* entries the queue holds
  MaxUe,           \* bound: UE logs in one behaviour
  MaxEntries,      \* bound: queue entries in one behaviour
  FaultKinds,      \* "crash", "size", "entry", "reinit", "timer", and
                   \*   "drop" in Daemon
  MaxFaults        \* bound: faults in one behaviour

ASSUME ReadLoopAssumption ==
  /\ UeOutcomes \subseteq {"good", "bad"}
  /\ EntryOutcomes \subseteq {"log", "stop", "refused", "throws"}
  /\ QueueCapacity \in Nat /\ MaxUe \in Nat /\ MaxEntries \in Nat
  /\ FaultKinds \subseteq {"crash", "size", "entry", "reinit", "timer", "drop"}
  /\ MaxFaults \in Nat

VARIABLES
  hdr,          \* the flags and sizes of the header in shared memory
  ueRegion,     \* the number of the UE log in the reserved region
  queue,        \* the numbers of the entries in the queue
  cached,       \* BufferImpl::cachedBufferHeader
  pc,           \* where the BMC is in readLoop
  ueLog,        \* the local ueLog
  entryPairs,   \* entries readErrorLogs returned, not yet decoded
  processed,    \* history: UE logs that were decoded and published
  stored,       \* history: queue entries that were decoded
  bios,         \* the BIOS: step, the flags it is about to write
  nextUe,       \* number of the next UE log
  nextEntry,    \* number of the next queue entry
  faults        \* number of faults injected so far

shared == <<hdr, ueRegion, queue>>
bmcVars == <<cached, pc, ueLog, entryPairs, processed, stored>>
biosVars == <<bios, nextUe, nextEntry>>
vars == <<shared, bmcVars, biosVars, faults>>

-----------------------------------------------------------------------------
(* The header: one bit of each flag, and whether the sizes are the ones    *)
(* that initialize() wrote, zero, or something else.                       *)

Bit == {0, 1}

Toggle(b) == 1 - b

BiosFlags == [ueSwitch : Bit, overflow : Bit]
BmcFlags == [ueSwitch : Bit, overflow : Bit, ready : Bit]
Header == [sizes : {"ok", "zero", "wrong"},
           biosFlags : BiosFlags, bmcFlags : BmcFlags]

ZeroHeader ==
  [sizes |-> "zero",
   biosFlags |-> [ueSwitch |-> 0, overflow |-> 0],
   bmcFlags |-> [ueSwitch |-> 0, overflow |-> 0, ready |-> 0]]
InitialHeader == [ZeroHeader EXCEPT !.sizes = "ok"]

UePending(h) == h.biosFlags.ueSwitch # h.bmcFlags.ueSwitch

OverflowPending(h) == h.biosFlags.overflow # h.bmcFlags.overflow

(* The region filled with zeros: it decodes as a request without a         *)
(* payload, for which nothing is published.                                *)
ZeroUe == 0

(* An entry that fails the checks of readErrorLogs.                        *)
CorruptEntry == 0

-----------------------------------------------------------------------------
(* readLoop.                                                               *)

(* The catch blocks: everything local is dropped.                          *)
Throw ==
  /\ pc' = "erase"
  /\ ueLog' = ZeroUe
  /\ entryPairs' = <<>>

(* readUeLogFromReservedRegion reads the header and returns nothing if the *)
(* region's size is 0 or the bits agree.                                   *)
ReadUeHeader ==
  /\ pc = "idle"
  /\ cached' = hdr
  /\ pc' = IF hdr.sizes # "zero" /\ UePending(hdr) THEN "readUe" ELSE "overflow"
  /\ UNCHANGED <<shared, ueLog, entryPairs, processed, stored>>

(* Faulty variant: the log is acknowledged as soon as it is copied.        *)
ReadUeRegionAcks ==
  /\ pc = "readUe"
  /\ ueLog' = ueRegion
  /\ hdr' = [hdr EXCEPT !.bmcFlags.ueSwitch = Toggle(@)]
  /\ pc' = "decodeUe"
  /\ UNCHANGED <<ueRegion, queue, cached, entryPairs, processed, stored>>

(* A wrong size of the region may reach past the shared memory, which      *)
(* throws, or cover too little or too much of it.                          *)
ReadUeRegion ==
  /\ pc = "readUe"
  /\ \/ /\ ueLog' = ueRegion
        /\ pc' = "decodeUe"
        /\ UNCHANGED entryPairs
     \/ /\ cached.sizes = "wrong"
        /\ Throw
  /\ UNCHANGED <<shared, cached, processed, stored>>

(* decodeRdeCommand on the UE log: RdeOk, or anything else and a throw.    *)
(* What the region holds decides unless a wrong size cut it short.         *)
DecodeUe(outcome) ==
  /\ pc = "decodeUe"
  /\ IF outcome = "cut" THEN cached.sizes = "wrong"
     ELSE (outcome = "zero") = (ueLog = ZeroUe)
  /\ \/ /\ outcome \in {"good", "zero"}
        /\ processed' = IF outcome = "good" THEN Append(processed, ueLog)
                        ELSE processed
        /\ pc' = "ackUe"
        /\ UNCHANGED <<ueLog, entryPairs>>
     \/ /\ outcome \in {"bad", "cut"}
        /\ Throw
        /\ UNCHANGED processed
  /\ UNCHANGED <<shared, cached, stored>>

(* Faulty variant: the cache keeps the old flags.                          *)
UpdateBmcFlagsNotCached(newBmcFlags) ==
  /\ hdr' = [hdr EXCEPT !.bmcFlags = newBmcFlags]
  /\ UNCHANGED <<ueRegion, queue, cached>>

(* updateBmcFlags: the flags go to shared memory and to the cache.         *)
UpdateBmcFlags(newBmcFlags) ==
  /\ hdr' = [hdr EXCEPT !.bmcFlags = newBmcFlags]
  /\ cached' = [cached EXCEPT !.bmcFlags = newBmcFlags]
  /\ UNCHANGED <<ueRegion, queue>>

(* Faulty variant: the log is not acknowledged.                            *)
AckUeForgotten ==
  /\ pc = "ackUe"
  /\ ueLog' = ZeroUe
  /\ pc' = "overflow"
  /\ UNCHANGED <<shared, cached, entryPairs, processed, stored>>

AckUe ==
  /\ pc = "ackUe"
  /\ UpdateBmcFlags([cached.bmcFlags EXCEPT !.ueSwitch = Toggle(@)])
  /\ ueLog' = ZeroUe
  /\ pc' = "overflow"
  /\ UNCHANGED <<entryPairs, processed, stored>>

(* Faulty variant: the BIOS's bit alone announces an overflow.             *)
CheckForOverflowIfSet ==
  /\ pc = "overflow"
  /\ cached' = hdr
  /\ pc' = IF hdr.biosFlags.overflow = 1 THEN "ackOverflow" ELSE "read"
  /\ UNCHANGED <<shared, ueLog, entryPairs, processed, stored>>

(* checkForOverflowAndAcknowledge reads the header again.                  *)
CheckForOverflow ==
  /\ pc = "overflow"
  /\ cached' = hdr
  /\ pc' = IF OverflowPending(hdr) THEN "ackOverflow" ELSE "read"
  /\ UNCHANGED <<shared, ueLog, entryPairs, processed, stored>>

(* Faulty variant: the BIOS's bits are copied over the BMC's word.         *)
AckOverflowCopiesBits ==
  /\ pc = "ackOverflow"
  /\ UpdateBmcFlags([ueSwitch |-> cached.bmcFlags.ueSwitch,
                     overflow |-> cached.biosFlags.overflow, ready |-> 0])
  /\ pc' = "read"
  /\ UNCHANGED <<ueLog, entryPairs, processed, stored>>

AckOverflow ==
  /\ pc = "ackOverflow"
  /\ UpdateBmcFlags([cached.bmcFlags EXCEPT !.overflow = Toggle(@)])
  /\ pc' = "read"
  /\ UNCHANGED <<ueLog, entryPairs, processed, stored>>

(* readErrorLogs reads the header a third time and takes every entry, or   *)
(* throws for wrong sizes or an entry that fails its checks.               *)
Unreadable(q) == \E i \in DOMAIN q : q[i] = CorruptEntry

ReadErrorLogs ==
  /\ pc = "read"
  /\ cached' = hdr
  /\ \/ /\ hdr.sizes = "ok" /\ ~Unreadable(queue)
        /\ entryPairs' = queue
        /\ queue' = <<>>
        /\ pc' = "decode"
        /\ UNCHANGED ueLog
     \/ /\ hdr.sizes # "ok" \/ Unreadable(queue)
        /\ Throw
        /\ UNCHANGED queue
  /\ UNCHANGED <<hdr, ueRegion, processed, stored>>

(* The loop over the entries.  Only a throw stops it: any status other     *)
(* than RdeStopFlagReceived is ignored.                                    *)
DecodeEntry(outcome) ==
  /\ pc = "decode" /\ entryPairs # <<>>
  /\ \/ /\ outcome \in {"log", "stop"}
        /\ stored' = Append(stored, Head(entryPairs))
        /\ entryPairs' = Tail(entryPairs)
        /\ pc' = IF outcome = "stop" THEN "setReady" ELSE "decode"
        /\ UNCHANGED ueLog
     \/ /\ outcome = "refused"
        /\ entryPairs' = Tail(entryPairs)
        /\ UNCHANGED <<pc, ueLog, stored>>
     \/ /\ outcome = "throws"
        /\ Throw
        /\ UNCHANGED stored
  /\ UNCHANGED <<shared, cached, processed>>

(* Faulty variant: the rest of the batch is dropped after the stop flag.   *)
SetReadyReturns ==
  /\ pc = "setReady"
  /\ UpdateBmcFlags([cached.bmcFlags EXCEPT !.ready = 1])
  /\ pc' = "idle"
  /\ entryPairs' = <<>>
  /\ UNCHANGED <<ueLog, processed, stored>>

SetReady ==
  /\ pc = "setReady"
  /\ UpdateBmcFlags([cached.bmcFlags EXCEPT !.ready = 1])
  /\ pc' = "decode"
  /\ UNCHANGED <<ueLog, entryPairs, processed, stored>>

(* The timer is armed again.                                               *)
Rearm ==
  /\ pc = "decode" /\ entryPairs = <<>>
  /\ pc' = "idle"
  /\ UNCHANGED <<shared, cached, ueLog, entryPairs, processed, stored>>

(* initialize() in the catch blocks, and in main() after a restart.        *)
InitializeErase ==
  /\ pc = "erase"
  /\ hdr' = ZeroHeader
  /\ ueRegion' = ZeroUe
  /\ queue' = <<>>
  /\ pc' = "writeHeader"
  /\ UNCHANGED <<cached, ueLog, entryPairs, processed, stored>>

(* Faulty variant: the flags of before are written back.                   *)
InitializeHeaderKeepsFlags ==
  /\ pc = "writeHeader"
  /\ hdr' = [InitialHeader EXCEPT !.bmcFlags = cached.bmcFlags]
  /\ cached' = [InitialHeader EXCEPT !.bmcFlags = cached.bmcFlags]
  /\ pc' = "idle"
  /\ UNCHANGED <<ueRegion, queue, ueLog, entryPairs, processed, stored>>

InitializeHeader ==
  /\ pc = "writeHeader"
  /\ hdr' = InitialHeader
  /\ cached' = InitialHeader
  /\ pc' = "idle"
  /\ UNCHANGED <<ueRegion, queue, ueLog, entryPairs, processed, stored>>

-----------------------------------------------------------------------------
(* The BIOS (external).  It hands over a UE log when the previous one was  *)
(* taken: it fills the region and then toggles its bit, computed from the  *)
(* flags it saw when it began.                                             *)

IdleBios == [step |-> "idle", flags |-> ZeroHeader.biosFlags]

BiosWriteUe ==
  /\ bios.step = "idle" /\ nextUe <= MaxUe
  /\ hdr.sizes = "ok" /\ ~UePending(hdr)
  /\ ueRegion' = nextUe
  /\ bios' = [step |-> "toggle",
              flags |-> [hdr.biosFlags EXCEPT !.ueSwitch = Toggle(@)]]
  /\ UNCHANGED <<hdr, queue, nextUe, nextEntry>>

BiosToggleUe ==
  /\ bios.step = "toggle"
  /\ hdr' = [hdr EXCEPT !.biosFlags = bios.flags]
  /\ bios' = IdleBios
  /\ nextUe' = nextUe + 1
  /\ UNCHANGED <<ueRegion, queue, nextEntry>>

BiosAppend ==
  /\ bios.step = "idle" /\ nextEntry <= MaxEntries
  /\ hdr.sizes = "ok"
  /\ Len(queue) < QueueCapacity
  /\ queue' = Append(queue, nextEntry)
  /\ nextEntry' = nextEntry + 1
  /\ UNCHANGED <<hdr, ueRegion, bios, nextUe>>

(* An entry finds the queue full, which is reported once until it is       *)
(* acknowledged.  The entry, not numbered here, is dropped or waits.       *)
BiosOverflow ==
  /\ bios.step = "idle" /\ nextEntry <= MaxEntries
  /\ hdr.sizes = "ok"
  /\ Len(queue) >= QueueCapacity /\ ~OverflowPending(hdr)
  /\ hdr' = [hdr EXCEPT !.biosFlags.overflow = Toggle(@)]
  /\ UNCHANGED <<ueRegion, queue, bios, nextUe, nextEntry>>

-----------------------------------------------------------------------------
(* Faults.                                                                 *)

Fault(kind) ==
  /\ kind \in FaultKinds
  /\ faults < MaxFaults
  /\ faults' = faults + 1

(* The daemon dies and systemd starts it again.                            *)
Restart ==
  /\ Fault("crash")
  /\ Throw
  /\ cached' = ZeroHeader
  /\ UNCHANGED <<shared, processed, stored, biosVars>>

CorruptSizes ==
  /\ Fault("size")
  /\ \E s \in {"zero", "wrong"} : hdr' = [hdr EXCEPT !.sizes = s]
  /\ UNCHANGED <<ueRegion, queue, bmcVars, biosVars>>

(* Bytes of an entry change.  The checks of readErrorLogs fail, or else    *)
(* the one-byte checksum passes: then the entry stays, what it decodes to  *)
(* being a choice of DecodeEntry, and when its size changed it may swallow *)
(* entries behind it.                                                      *)
CorruptDetected(i) == queue' = [queue EXCEPT ![i] = CorruptEntry]

CorruptUnnoticed(i) ==
  /\ queue[i] # CorruptEntry
  /\ \E last \in i .. Len(queue) :
       queue' = SubSeq(queue, 1, i) \o SubSeq(queue, last + 1, Len(queue))

CorruptQueue ==
  /\ Fault("entry")
  /\ \E i \in DOMAIN queue : CorruptDetected(i) \/ CorruptUnnoticed(i)
  /\ UNCHANGED <<hdr, ueRegion, bmcVars, biosVars>>

(* async_wait reports an error, or initialize() throws in a catch block:   *)
(* readLoop returns without arming the timer.                              *)
AsyncWaitFails ==
  /\ Fault("timer")
  /\ pc = "idle"
  /\ pc' = "terminated"
  /\ UNCHANGED <<shared, cached, ueLog, entryPairs, processed, stored, biosVars>>

ReinitializeFails ==
  /\ Fault("reinit")
  /\ pc \in {"erase", "writeHeader"}
  /\ pc' = "terminated"
  /\ UNCHANGED <<shared, cached, ueLog, entryPairs, processed, stored, biosVars>>

-----------------------------------------------------------------------------
Bmc ==
  /\ \/ ReadUeHeader \/ ReadUeRegion \/ AckUe
     \/ \E outcome \in UeOutcomes \cup {"zero", "cut"} : DecodeUe(outcome)
     \/ CheckForOverflow \/ AckOverflow \/ ReadErrorLogs
     \/ \E outcome \in EntryOutcomes : DecodeEntry(outcome)
     \/ SetReady \/ Rearm
     \/ InitializeErase \/ InitializeHeader
  /\ UNCHANGED <<biosVars, faults>>

Bios ==
  /\ BiosWriteUe \/ BiosToggleUe \/ BiosAppend \/ BiosOverflow
  /\ UNCHANGED <<bmcVars, faults>>

Init ==
  /\ hdr = InitialHeader /\ cached = InitialHeader
  /\ ueRegion = ZeroUe /\ ueLog = ZeroUe
  /\ queue = <<>> /\ entryPairs = <<>>
  /\ pc = "idle"
  /\ processed = <<>> /\ stored = <<>>
  /\ bios = IdleBios
  /\ nextUe = 1 /\ nextEntry = 1
  /\ faults = 0

Next ==
  \/ Bmc \/ Bios
  \/ Restart \/ CorruptSizes \/ CorruptQueue \/ AsyncWaitFails \/ ReinitializeFails

(* io.run() keeps serving the timer.  The BIOS owes nothing.               *)
Fairness == WF_vars(Bmc)

Spec == Init /\ [][Next]_vars
FairSpec == Spec /\ Fairness

-----------------------------------------------------------------------------
(* Properties.                                                             *)

Steps == {"idle", "readUe", "decodeUe", "ackUe", "overflow", "ackOverflow",
          "read", "decode", "setReady", "erase", "writeHeader", "terminated"}

(* Every variable keeps its type.                                          *)
TypeOK ==
  /\ hdr \in Header /\ cached \in Header
  /\ ueRegion \in Nat /\ ueLog \in Nat
  /\ queue \in Seq(Nat) /\ entryPairs \in Seq(Nat)
  /\ pc \in Steps
  /\ processed \in Seq(Nat) /\ stored \in Seq(Nat)
  /\ bios \in [step : {"idle", "toggle"}, flags : BiosFlags]
  /\ nextUe \in Nat \ {0} /\ nextEntry \in Nat \ {0}
  /\ faults \in Nat

(* Where readLoop holds a cached header it will compute new flags from.    *)
UsesCache == {"readUe", "decodeUe", "ackUe", "ackOverflow", "decode", "setReady"}

(* All three bits of bmcFlags share one word, which readLoop rewrites from *)
(* the cached header in three places, long after it was read: the cached   *)
(* word is always the current one, so no update undoes another.            *)
FlagsCoherent == pc \in UsesCache => cached.bmcFlags = hdr.bmcFlags

Increasing(s) == \A i, j \in DOMAIN s : i < j => s[i] < s[j]

(* Whatever throws and whenever the daemon is restarted, no UE log and no  *)
(* queue entry is decoded twice or out of order: a UE log that was         *)
(* published but not yet acknowledged is erased before it can be read a    *)
(* second time.                                                            *)
AtMostOnceInOrder == Increasing(processed) /\ Increasing(stored)

(* As long as nothing throws, the BMC's bit catches up only after the log  *)
(* was published, so that the BIOS may reuse the region; and until then    *)
(* the log is in the region.                                               *)
AckedIsProcessed ==
  IF UePending(hdr)
  THEN /\ ueRegion = nextUe - 1
       /\ Len(processed) = IF pc = "ackUe" THEN nextUe - 1 ELSE nextUe - 2
  ELSE Len(processed) = nextUe - 1

(* As long as nothing throws, every UE log is published and every entry    *)
(* that made it into the queue is decoded, eventually.                     *)
EverythingProcessed ==
  /\ \A u \in 1 .. MaxUe : (nextUe > u) ~> (Len(processed) >= u)
  /\ \A e \in 1 .. MaxEntries :
       (nextEntry > e) ~> (\E i \in DOMAIN stored : stored[i] = e)

(* Only initialize() takes the ready bit back.                             *)
ReadyStays ==
  [][hdr.bmcFlags.ready = 1 /\ hdr'.bmcFlags.ready = 0 => pc = "erase"]_vars

(* Whatever throws and whenever the daemon restarts, both handshakes keep  *)
(* coming to rest on a valid header, so the BIOS can always report again - *)
(* unless initialize() or the timer itself fails and the read loop ends.   *)
HandshakesSettle ==
  \/ []<>(hdr.sizes = "ok" /\ ~UePending(hdr)) /\ []<>~OverflowPending(hdr)
  \/ <>(pc = "terminated")

(* "Successfully processed. Toggle BMC's view of ueSwitch flag." (main.cpp *)
(* readLoop): the step that acknowledges a UE log follows its publication. *)
AckFollowsProcessing ==
  [][AckUe => processed # <<>> /\ processed[Len(processed)] = ueLog]_vars

=============================================================================
