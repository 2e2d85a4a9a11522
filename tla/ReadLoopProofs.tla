--------------------------- MODULE ReadLoopProofs ---------------------------
(***************************************************************************)
(* Proofs about ReadLoop: the word of flags that readLoop rewrites from    *)
(* its cached header is always the current one, every variable keeps its   *)
(* type, and only initialize() takes the ready bit back.                   *)
(***************************************************************************)
EXTENDS ReadLoop, TLAPS

Senders == [step : {"idle", "toggle"}, flags : BiosFlags]

(* The part of TypeOK the flags depend on.                                 *)
FlagTypes ==
  /\ hdr \in Header /\ cached \in Header
  /\ pc \in Steps
  /\ bios \in Senders

(* Between the two writes of initialize() the flags are zero.              *)
ErasedFlags == pc = "writeHeader" => hdr.bmcFlags.ready = 0

FlagsInv == FlagTypes /\ FlagsCoherent /\ ErasedFlags

-----------------------------------------------------------------------------
LEMMA ToggleType == \A b \in Bit : Toggle(b) \in Bit
BY DEF Toggle, Bit

LEMMA HeaderTypes ==
  /\ ZeroHeader \in Header /\ InitialHeader \in Header
  /\ ZeroHeader.bmcFlags.ready = 0
  /\ IdleBios \in Senders
BY DEF ZeroHeader, InitialHeader, Header, BmcFlags, BiosFlags, Bit, IdleBios,
       Senders

(* updateBmcFlags leaves the same flags in shared memory and in the cache. *)
LEMMA UpdateBmcFlagsCoherent ==
  ASSUME FlagTypes, NEW f \in BmcFlags, UpdateBmcFlags(f)
  PROVE  /\ hdr' \in Header /\ cached' \in Header
         /\ hdr'.bmcFlags = f /\ cached'.bmcFlags = f
BY DEF FlagTypes, UpdateBmcFlags, Header

(* The three words readLoop computes are flags, and keep the ready bit.    *)
LEMMA ComputedFlags ==
  ASSUME NEW f \in BmcFlags
  PROVE  /\ [f EXCEPT !.ueSwitch = Toggle(@)] \in BmcFlags
         /\ [f EXCEPT !.ueSwitch = Toggle(@)].ready = f.ready
         /\ [f EXCEPT !.overflow = Toggle(@)] \in BmcFlags
         /\ [f EXCEPT !.overflow = Toggle(@)].ready = f.ready
         /\ [f EXCEPT !.ready = 1] \in BmcFlags
         /\ [f EXCEPT !.ready = 1].ready = 1
BY ToggleType DEF BmcFlags, Bit

LEMMA FlagsInit == Init => FlagsInv
BY HeaderTypes DEF Init, FlagsInv, FlagTypes, FlagsCoherent, ErasedFlags,
                   UsesCache, Steps

-----------------------------------------------------------------------------
(* One step per action of the BMC.                                         *)
LEMMA FlagsBmc ==
  ASSUME FlagsInv, Bmc
  PROVE  FlagsInv'
<1>. USE DEF FlagsInv
<1>1. bios' = bios
  BY DEF Bmc, biosVars
<1>2. CASE ReadUeHeader
  BY <1>1, <1>2 DEF ReadUeHeader, shared, FlagTypes, FlagsCoherent,
                    ErasedFlags, Steps
<1>3. CASE ReadUeRegion
  BY <1>1, <1>3 DEF ReadUeRegion, Throw, shared, FlagTypes, FlagsCoherent,
                    ErasedFlags, Steps, UsesCache
<1>4. ASSUME NEW outcome, DecodeUe(outcome)
      PROVE  FlagsInv'
  BY <1>1, <1>4 DEF DecodeUe, Throw, shared, FlagTypes, FlagsCoherent,
                    ErasedFlags, Steps, UsesCache
<1>5. CASE AckUe
  <2>1. cached.bmcFlags \in BmcFlags
    BY DEF FlagTypes, Header
  <2>2. /\ hdr' \in Header /\ cached' \in Header
        /\ hdr'.bmcFlags = cached'.bmcFlags
    BY <1>5, <2>1, ComputedFlags, UpdateBmcFlagsCoherent DEF AckUe
  <2>. QED
    BY <1>1, <1>5, <2>2 DEF AckUe, FlagTypes, FlagsCoherent, ErasedFlags, Steps
<1>6. CASE CheckForOverflow
  BY <1>1, <1>6 DEF CheckForOverflow, shared, FlagTypes, FlagsCoherent,
                    ErasedFlags, Steps
<1>7. CASE AckOverflow
  <2>1. cached.bmcFlags \in BmcFlags
    BY DEF FlagTypes, Header
  <2>2. /\ hdr' \in Header /\ cached' \in Header
        /\ hdr'.bmcFlags = cached'.bmcFlags
    BY <1>7, <2>1, ComputedFlags, UpdateBmcFlagsCoherent DEF AckOverflow
  <2>. QED
    BY <1>1, <1>7, <2>2 DEF AckOverflow, FlagTypes, FlagsCoherent,
                            ErasedFlags, Steps
<1>8. CASE ReadErrorLogs
  BY <1>1, <1>8 DEF ReadErrorLogs, Throw, FlagTypes, FlagsCoherent,
                    ErasedFlags, Steps
<1>9. ASSUME NEW outcome, DecodeEntry(outcome)
      PROVE  FlagsInv'
  BY <1>1, <1>9 DEF DecodeEntry, Throw, shared, FlagTypes, FlagsCoherent,
                    ErasedFlags, Steps, UsesCache
<1>10. CASE SetReady
  <2>1. cached.bmcFlags \in BmcFlags
    BY DEF FlagTypes, Header
  <2>2. /\ hdr' \in Header /\ cached' \in Header
        /\ hdr'.bmcFlags = cached'.bmcFlags
    BY <1>10, <2>1, ComputedFlags, UpdateBmcFlagsCoherent DEF SetReady
  <2>. QED
    BY <1>1, <1>10, <2>2 DEF SetReady, FlagTypes, FlagsCoherent, ErasedFlags,
                             Steps
<1>11. CASE Rearm
  BY <1>1, <1>11 DEF Rearm, shared, FlagTypes, FlagsCoherent, ErasedFlags,
                     Steps, UsesCache
<1>12. CASE InitializeErase
  BY <1>1, <1>12, HeaderTypes DEF InitializeErase, FlagTypes, FlagsCoherent,
                                  ErasedFlags, Steps, UsesCache
<1>13. CASE InitializeHeader
  BY <1>1, <1>13, HeaderTypes DEF InitializeHeader, FlagTypes, FlagsCoherent,
                                  ErasedFlags, Steps, UsesCache
<1>. QED
  BY <1>2, <1>3, <1>4, <1>5, <1>6, <1>7, <1>8, <1>9, <1>10, <1>11, <1>12,
     <1>13 DEF Bmc

(* The BIOS writes its own word of flags only.                             *)
LEMMA FlagsBios ==
  ASSUME FlagsInv, Bios
  PROVE  FlagsInv' /\ hdr'.bmcFlags = hdr.bmcFlags
<1>. USE DEF FlagsInv
<1>1. pc' = pc /\ cached' = cached
  BY DEF Bios, bmcVars
<1>2. ASSUME BiosWriteUe
      PROVE  hdr' = hdr /\ bios' \in Senders
  <2>1. [hdr.biosFlags EXCEPT !.ueSwitch = Toggle(@)] \in BiosFlags
    BY ToggleType DEF FlagTypes, Header, BiosFlags
  <2>. QED
    BY <1>2, <2>1 DEF BiosWriteUe, Senders
<1>3. CASE BiosToggleUe
  BY <1>1, <1>3, HeaderTypes
     DEF BiosToggleUe, FlagTypes, FlagsCoherent, ErasedFlags, Header, Senders
<1>4. ASSUME BiosAppend
      PROVE  hdr' = hdr /\ bios' = bios
  BY <1>4 DEF BiosAppend
<1>5. CASE BiosOverflow
  <2>1. [hdr.biosFlags EXCEPT !.overflow = Toggle(@)] \in BiosFlags
    BY ToggleType DEF FlagTypes, Header, BiosFlags
  <2>2. hdr' = [hdr EXCEPT !.biosFlags =
                  [hdr.biosFlags EXCEPT !.overflow = Toggle(@)]]
    BY <1>5 DEF BiosOverflow, FlagTypes, Header
  <2>3. hdr' \in Header /\ hdr'.bmcFlags = hdr.bmcFlags
    BY <2>1, <2>2 DEF FlagTypes, Header
  <2>. QED
    BY <1>1, <1>5, <2>3 DEF BiosOverflow, FlagTypes, FlagsCoherent, ErasedFlags
<1>. QED
  BY <1>1, <1>2, <1>3, <1>4, <1>5 DEF Bios, FlagTypes, FlagsCoherent, ErasedFlags

LEMMA FlagsFaults ==
  ASSUME FlagsInv,
         Restart \/ CorruptSizes \/ CorruptQueue \/ AsyncWaitFails \/ ReinitializeFails
  PROVE  FlagsInv' /\ hdr'.bmcFlags = hdr.bmcFlags
<1>. USE DEF FlagsInv
<1>1. CASE Restart
  BY <1>1, HeaderTypes DEF Restart, Throw, shared, biosVars, FlagTypes,
                           FlagsCoherent, ErasedFlags, Steps, UsesCache
<1>2. CASE CorruptSizes
  BY <1>2 DEF CorruptSizes, bmcVars, biosVars, FlagTypes, FlagsCoherent,
              ErasedFlags, Header
<1>3. CASE CorruptQueue
  BY <1>3 DEF CorruptQueue, bmcVars, biosVars, FlagTypes, FlagsCoherent,
              ErasedFlags
<1>4. CASE AsyncWaitFails
  BY <1>4 DEF AsyncWaitFails, shared, biosVars, FlagTypes, FlagsCoherent,
              ErasedFlags, Steps, UsesCache
<1>5. CASE ReinitializeFails
  BY <1>5 DEF ReinitializeFails, shared, biosVars, FlagTypes, FlagsCoherent,
              ErasedFlags, Steps, UsesCache
<1>. QED
  BY <1>1, <1>2, <1>3, <1>4, <1>5

LEMMA FlagsStep == FlagsInv /\ [Next]_vars => FlagsInv'
<1>. SUFFICES ASSUME FlagsInv, [Next]_vars PROVE FlagsInv'
  OBVIOUS
<1>1. CASE UNCHANGED vars
  BY <1>1 DEF vars, shared, bmcVars, biosVars, FlagsInv, FlagTypes,
              FlagsCoherent, ErasedFlags
<1>. QED
  BY <1>1, FlagsBmc, FlagsBios, FlagsFaults DEF Next

(* Whatever throws, and however the BIOS, restarts and corrupted sizes     *)
(* interleave with readLoop, the bmcFlags word it computes the next value  *)
(* from is the one in shared memory.                                       *)
THEOREM FlagsStayCoherent == Spec => []FlagsCoherent
<1>1. FlagsInv => FlagsCoherent
  BY DEF FlagsInv
<1>. QED
  BY <1>1, FlagsInit, FlagsStep, PTL DEF Spec

-----------------------------------------------------------------------------
(* The other part of TypeOK: logs, entries and counters.                   *)
DataTypes ==
  /\ ueRegion \in Nat /\ ueLog \in Nat
  /\ queue \in Seq(Nat) /\ entryPairs \in Seq(Nat)
  /\ processed \in Seq(Nat) /\ stored \in Seq(Nat)
  /\ nextUe \in Nat \ {0} /\ nextEntry \in Nat \ {0}
  /\ faults \in Nat

LEMMA SequencesOfNumbers ==
  /\ <<>> \in Seq(Nat)
  /\ \A s \in Seq(Nat), n \in Nat : Append(s, n) \in Seq(Nat)
  /\ \A s \in Seq(Nat) : s # <<>> => Head(s) \in Nat /\ Tail(s) \in Seq(Nat)
OBVIOUS

LEMMA ConcatElements ==
  ASSUME NEW s \in Seq(Nat), NEW t \in Seq(Nat)
  PROVE  /\ s \o t \in Seq(Nat)
         /\ Len(s \o t) = Len(s) + Len(t)
         /\ \A k \in 1 .. Len(s) : (s \o t)[k] = s[k]
         /\ \A k \in Len(s) + 1 .. Len(s) + Len(t) : (s \o t)[k] = t[k - Len(s)]
OBVIOUS

LEMMA ShiftedIndex ==
  ASSUME NEW n \in Nat, NEW i \in Nat, NEW last \in Nat,
         NEW k \in i + 1 .. i + n - last
  PROVE  /\ k - i \in 1 .. n - last /\ last + (k - i) = k + last - i
         /\ k \in i + 1 .. i + (n - last)
OBVIOUS

(* What is left of a sequence when an element swallows some behind it.     *)
LEMMA SwallowedSequence ==
  ASSUME NEW s \in Seq(Nat), NEW i \in DOMAIN s, NEW last \in i .. Len(s)
  PROVE  LET c == SubSeq(s, 1, i) \o SubSeq(s, last + 1, Len(s))
         IN  /\ c \in Seq(Nat)
             /\ Len(c) = i + Len(s) - last
             /\ \A k \in 1 .. i : c[k] = s[k]
             /\ \A k \in i + 1 .. Len(c) : c[k] = s[k + last - i]
<1>. DEFINE a == SubSeq(s, 1, i)
            b == SubSeq(s, last + 1, Len(s))
<1>1. i \in 1 .. Len(s) /\ last \in i .. Len(s) /\ Len(s) \in Nat
  OBVIOUS
<1>2. a \in Seq(Nat) /\ Len(a) = i /\ \A k \in 1 .. i : a[k] = s[k]
  BY <1>1
<1>3. /\ b \in Seq(Nat) /\ Len(b) = Len(s) - last
      /\ \A k \in 1 .. Len(s) - last : b[k] = s[last + k]
  BY <1>1
<1>. HIDE DEF a, b
<1>4. a \o b \in Seq(Nat) /\ Len(a \o b) = i + Len(s) - last
  <2>1. a \o b \in Seq(Nat) /\ Len(a \o b) = Len(a) + Len(b)
    BY <1>2, <1>3, ConcatElements
  <2>. QED
    BY <1>1, <1>2, <1>3, <2>1
<1>5. ASSUME NEW k \in 1 .. i
      PROVE  (a \o b)[k] = s[k]
  BY <1>2, <1>3, ConcatElements
<1>6. ASSUME NEW k \in i + 1 .. i + Len(s) - last
      PROVE  (a \o b)[k] = s[k + last - i]
  <2>1. /\ k - i \in 1 .. Len(s) - last /\ last + (k - i) = k + last - i
        /\ k \in i + 1 .. i + (Len(s) - last)
    <3>1. i \in Nat /\ last \in Nat /\ Len(s) \in Nat
      BY <1>1
    <3>. QED
      BY <3>1, ShiftedIndex
  <2>2. (a \o b)[k] = b[k - i]
    <3>1. k \in Len(a) + 1 .. Len(a) + Len(b)
      BY <1>2, <1>3, <2>1
    <3>. QED
      BY <1>2, <1>3, <3>1, ConcatElements
  <2>. QED
    BY <1>3, <2>1, <2>2
<1>. QED
  BY <1>4, <1>5, <1>6 DEF a, b

LEMMA DataBmc ==
  ASSUME DataTypes, Bmc
  PROVE  DataTypes'
<1>. USE DEF DataTypes, ZeroUe
<1>1. UNCHANGED <<nextUe, nextEntry, faults>>
  BY DEF Bmc, biosVars
<1>2. CASE ReadUeHeader \/ CheckForOverflow \/ Rearm
  BY <1>1, <1>2 DEF ReadUeHeader, CheckForOverflow, Rearm, shared
<1>8. CASE ReadUeRegion
  <2>1. entryPairs' \in {entryPairs, <<>>} /\ ueLog' \in {ueRegion, 0}
    BY <1>8 DEF ReadUeRegion, Throw
  <2>2. UNCHANGED <<ueRegion, queue, processed, stored>>
    BY <1>8 DEF ReadUeRegion, shared
  <2>3. entryPairs' \in Seq(Nat)
    BY <2>1, SequencesOfNumbers
  <2>4. ueLog' \in Nat
    BY <2>1
  <2>. QED
    BY <1>1, <2>2, <2>3, <2>4
<1>3. CASE AckUe \/ AckOverflow \/ SetReady
  BY <1>1, <1>3 DEF AckUe, AckOverflow, SetReady, UpdateBmcFlags
<1>4. ASSUME NEW outcome, DecodeUe(outcome)
      PROVE  DataTypes'
  <2>1. processed' \in {processed, Append(processed, ueLog)}
    BY <1>4 DEF DecodeUe
  <2>2. processed' \in Seq(Nat)
    BY <2>1, SequencesOfNumbers
  <2>3. entryPairs' \in {entryPairs, <<>>} /\ ueLog' \in {ueLog, 0}
    BY <1>4 DEF DecodeUe, Throw
  <2>4. UNCHANGED <<ueRegion, queue, stored>>
    BY <1>4 DEF DecodeUe, shared
  <2>5. entryPairs' \in Seq(Nat)
    BY <2>3, SequencesOfNumbers
  <2>6. ueLog' \in Nat
    BY <2>3
  <2>. QED
    BY <1>1, <2>2, <2>4, <2>5, <2>6
<1>5. CASE ReadErrorLogs
  <2>1. entryPairs' \in {queue, <<>>} /\ queue' \in {queue, <<>>}
    BY <1>5 DEF ReadErrorLogs, Throw
  <2>2. ueLog' \in {ueLog, 0} /\ UNCHANGED <<ueRegion, processed, stored>>
    BY <1>5 DEF ReadErrorLogs, Throw
  <2>3. entryPairs' \in Seq(Nat) /\ queue' \in Seq(Nat)
    BY <2>1, SequencesOfNumbers
  <2>4. ueLog' \in Nat
    BY <2>2
  <2>. QED
    BY <1>1, <2>2, <2>3, <2>4
<1>6. ASSUME NEW outcome, DecodeEntry(outcome)
      PROVE  DataTypes'
  <2>1. entryPairs # <<>>
    BY <1>6 DEF DecodeEntry
  <2>2. Head(entryPairs) \in Nat /\ Tail(entryPairs) \in Seq(Nat)
    BY <2>1, SequencesOfNumbers
  <2>3. stored' \in {stored, Append(stored, Head(entryPairs))}
    BY <1>6 DEF DecodeEntry
  <2>4. stored' \in Seq(Nat)
    BY <2>2, <2>3, SequencesOfNumbers
  <2>5. entryPairs' \in {Tail(entryPairs), <<>>} /\ ueLog' \in {ueLog, 0}
    BY <1>6 DEF DecodeEntry, Throw
  <2>6. UNCHANGED <<ueRegion, queue, processed>>
    BY <1>6 DEF DecodeEntry, shared
  <2>7. entryPairs' \in Seq(Nat)
    BY <2>2, <2>5, SequencesOfNumbers
  <2>8. ueLog' \in Nat
    BY <2>5
  <2>. QED
    BY <1>1, <2>4, <2>6, <2>7, <2>8
<1>7. CASE InitializeErase \/ InitializeHeader
  <2>1. ueRegion' \in {ueRegion, 0} /\ queue' \in {queue, <<>>}
    BY <1>7 DEF InitializeErase, InitializeHeader
  <2>2. UNCHANGED <<ueLog, entryPairs, processed, stored>>
    BY <1>7 DEF InitializeErase, InitializeHeader
  <2>3. ueRegion' \in Nat
    BY <2>1
  <2>4. queue' \in Seq(Nat)
    BY <2>1, SequencesOfNumbers
  <2>. QED
    BY <1>1, <2>2, <2>3, <2>4
<1>. QED
  BY <1>2, <1>3, <1>4, <1>5, <1>6, <1>7, <1>8 DEF Bmc

LEMMA DataOthers ==
  ASSUME DataTypes,
         Bios \/ Restart \/ CorruptSizes \/ CorruptQueue \/ AsyncWaitFails
              \/ ReinitializeFails
  PROVE  DataTypes'
<1>. USE DEF DataTypes, ZeroUe, CorruptEntry, bmcVars, biosVars, shared
<1>1. CASE Bios
  <2>1. queue' \in {queue, Append(queue, nextEntry)}
    BY <1>1 DEF Bios, BiosWriteUe, BiosToggleUe, BiosAppend, BiosOverflow
  <2>2. queue' \in Seq(Nat)
    BY <2>1, SequencesOfNumbers
  <2>3. /\ ueRegion' \in {ueRegion, nextUe}
        /\ nextUe' \in {nextUe, nextUe + 1}
        /\ nextEntry' \in {nextEntry, nextEntry + 1}
    BY <1>1 DEF Bios, BiosWriteUe, BiosToggleUe, BiosAppend, BiosOverflow
  <2>4. ueRegion' \in Nat /\ nextUe' \in Nat \ {0} /\ nextEntry' \in Nat \ {0}
    BY <2>3
  <2>5. UNCHANGED <<bmcVars, faults>>
    BY <1>1 DEF Bios
  <2>. QED
    BY <2>2, <2>4, <2>5
<1>2. CASE Restart
  BY <1>2, SequencesOfNumbers DEF Restart, Throw, Fault
<1>3. CASE CorruptSizes
  BY <1>3 DEF CorruptSizes, Fault
<1>4. CASE CorruptQueue
  <2>1. PICK i \in DOMAIN queue : CorruptDetected(i) \/ CorruptUnnoticed(i)
    BY <1>4 DEF CorruptQueue
  <2>2. ASSUME CorruptDetected(i)
        PROVE  queue' \in Seq(Nat)
    BY <2>2 DEF CorruptDetected
  <2>3. ASSUME CorruptUnnoticed(i)
        PROVE  queue' \in Seq(Nat)
    <3>1. PICK last \in i .. Len(queue) :
            queue' = SubSeq(queue, 1, i) \o SubSeq(queue, last + 1, Len(queue))
      BY <2>3 DEF CorruptUnnoticed
    <3>2. queue \in Seq(Nat)
      OBVIOUS
    <3>. QED
      BY <3>1, <3>2, SwallowedSequence
  <2>4. queue' \in Seq(Nat)
    BY <2>1, <2>2, <2>3
  <2>. QED
    BY <1>4, <2>4 DEF CorruptQueue, Fault
<1>5. CASE AsyncWaitFails \/ ReinitializeFails
  BY <1>5 DEF AsyncWaitFails, ReinitializeFails, Fault
<1>. QED
  BY <1>1, <1>2, <1>3, <1>4, <1>5

LEMMA DataInit == Init => DataTypes
BY DEF Init, DataTypes, ZeroUe

LEMMA DataStep == DataTypes /\ [Next]_vars => DataTypes'
<1>1. ASSUME DataTypes, UNCHANGED vars
      PROVE  DataTypes'
  BY <1>1 DEF DataTypes, vars, shared, bmcVars, biosVars
<1>. QED
  BY <1>1, DataBmc, DataOthers DEF Next

(* Every variable of ReadLoop keeps its type, whatever fails: in           *)
(* particular the header stays one, also while the BIOS, initialize() and  *)
(* updateBmcFlags write parts of it.                                       *)
THEOREM TypeCorrect == Spec => []TypeOK
<1>1. FlagsInv /\ DataTypes => TypeOK
  BY DEF FlagsInv, FlagTypes, DataTypes, TypeOK, Senders
<1>. QED
  BY <1>1, FlagsInit, FlagsStep, DataInit, DataStep, PTL DEF Spec

-----------------------------------------------------------------------------
(* Toggling the ueSwitch or the overflow bit never loses a ready bit that  *)
(* was set: only the erasure in initialize() clears it.                    *)
THEOREM ReadyIsKept == Spec => ReadyStays
<1>. DEFINE Kept == hdr.bmcFlags.ready = 1 /\ hdr'.bmcFlags.ready = 0 => pc = "erase"
<1>1. FlagsInv /\ [Next]_vars => [Kept]_vars
  <2>. SUFFICES ASSUME FlagsInv, Next, hdr.bmcFlags.ready = 1,
                       hdr'.bmcFlags.ready = 0, pc # "erase"
                PROVE  FALSE
    OBVIOUS
  <2>1. hdr'.bmcFlags # hdr.bmcFlags
    OBVIOUS
  <2>2. Bmc
    BY <2>1, FlagsBios, FlagsFaults DEF Next
  <2>3. cached.bmcFlags \in BmcFlags
    BY DEF FlagsInv, FlagTypes, Header
  <2>4. CASE AckUe
    <3>1. cached.bmcFlags = hdr.bmcFlags
      BY <2>4 DEF AckUe, FlagsInv, FlagsCoherent, UsesCache
    <3>2. hdr'.bmcFlags = [cached.bmcFlags EXCEPT !.ueSwitch = Toggle(@)]
      BY <2>3, <2>4, ComputedFlags, UpdateBmcFlagsCoherent DEF AckUe, FlagsInv
    <3>. QED
      BY <2>3, <3>1, <3>2, ComputedFlags
  <2>5. CASE AckOverflow
    <3>1. cached.bmcFlags = hdr.bmcFlags
      BY <2>5 DEF AckOverflow, FlagsInv, FlagsCoherent, UsesCache
    <3>2. hdr'.bmcFlags = [cached.bmcFlags EXCEPT !.overflow = Toggle(@)]
      BY <2>3, <2>5, ComputedFlags, UpdateBmcFlagsCoherent
         DEF AckOverflow, FlagsInv
    <3>. QED
      BY <2>3, <3>1, <3>2, ComputedFlags
  <2>6. CASE SetReady
    <3>1. hdr'.bmcFlags = [cached.bmcFlags EXCEPT !.ready = 1]
      BY <2>3, <2>6, ComputedFlags, UpdateBmcFlagsCoherent DEF SetReady, FlagsInv
    <3>. QED
      BY <2>3, <3>1, ComputedFlags
  <2>7. CASE InitializeErase
    BY <2>7 DEF InitializeErase
  <2>8. CASE InitializeHeader
    BY <2>8 DEF InitializeHeader, FlagsInv, ErasedFlags
  <2>9. ASSUME \/ ReadUeHeader \/ ReadUeRegion \/ CheckForOverflow
               \/ ReadErrorLogs \/ Rearm
               \/ \E outcome : DecodeUe(outcome) \/ DecodeEntry(outcome)
        PROVE  hdr' = hdr
    BY <2>9 DEF ReadUeHeader, ReadUeRegion, DecodeUe, CheckForOverflow,
                ReadErrorLogs, DecodeEntry, Rearm, shared
  <2>. QED
    BY <2>1, <2>2, <2>4, <2>5, <2>6, <2>7, <2>8, <2>9 DEF Bmc
<1>. QED
  BY <1>1, FlagsInit, FlagsStep, PTL DEF Spec, ReadyStays

=============================================================================
