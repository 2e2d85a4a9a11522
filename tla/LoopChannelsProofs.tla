------------------------- MODULE LoopChannelsProofs -------------------------
(***************************************************************************)
(* Proofs about what readLoop hands on: no UE log and no queue entry is    *)
(* decoded twice or out of order, whatever fails; and as long as nothing   *)
(* throws, both ways through the shared memory are reliable channels.      *)
(***************************************************************************)
EXTENDS LoopChannels, ReadLoopProofs

(* The entries of s, corrupt ones aside, are numbered in their order.      *)
Ordered(s) ==
  \A i, j \in DOMAIN s : i < j /\ s[j] # CorruptEntry => s[i] < s[j]

Before(s, t) ==
  \A i \in DOMAIN s, j \in DOMAIN t : t[j] # CorruptEntry => s[i] < t[j]

Below(s, n) == \A i \in DOMAIN s : s[i] < n

-----------------------------------------------------------------------------
(* Sequences of numbers.                                                   *)

LEMMA EmptyOrdered ==
  /\ Ordered(<<>>) /\ ~Unreadable(<<>>)
  /\ \A n : Below(<<>>, n)
  /\ \A s : Before(<<>>, s) /\ Before(s, <<>>)
BY DEF Ordered, Before, Below, Unreadable

LEMMA AppendElements ==
  ASSUME NEW s \in Seq(Nat), NEW n \in Nat
  PROVE  /\ DOMAIN s = 1 .. Len(s) /\ Len(s) \in Nat
         /\ DOMAIN Append(s, n) = 1 .. Len(s) + 1
         /\ \A i \in 1 .. Len(s) : Append(s, n)[i] = s[i] /\ s[i] \in Nat
         /\ Append(s, n)[Len(s) + 1] = n
OBVIOUS

LEMMA TailElements ==
  ASSUME NEW s \in Seq(Nat), s # <<>>
  PROVE  /\ Len(s) \in Nat \ {0} /\ DOMAIN s = 1 .. Len(s)
         /\ Head(s) = s[1]
         /\ DOMAIN Tail(s) = 1 .. Len(s) - 1
         /\ \A i \in 1 .. Len(s) - 1 : Tail(s)[i] = s[i + 1]
         /\ \A i \in 1 .. Len(s) : s[i] \in Nat
OBVIOUS

(* A number above every element of s comes after s, and keeps its order.   *)
LEMMA AppendOrdered ==
  ASSUME NEW s \in Seq(Nat), NEW n \in Nat \ {0}, Ordered(s), Below(s, n)
  PROVE  /\ Ordered(Append(s, n))
         /\ ~Unreadable(s) => ~Unreadable(Append(s, n))
         /\ \A m \in Nat : n < m => Below(Append(s, n), m)
<1>1. Ordered(Append(s, n))
  <2>. SUFFICES ASSUME NEW i \in 1 .. Len(s) + 1, NEW j \in 1 .. Len(s) + 1,
                       i < j, Append(s, n)[j] # CorruptEntry
                PROVE  Append(s, n)[i] < Append(s, n)[j]
    BY AppendElements DEF Ordered
  <2>. QED
    BY AppendElements DEF Ordered, Below
<1>2. ~Unreadable(s) => ~Unreadable(Append(s, n))
  BY AppendElements DEF Unreadable, CorruptEntry
<1>3. ASSUME NEW m \in Nat, n < m
      PROVE  Below(Append(s, n), m)
  BY <1>3, AppendElements DEF Below
<1>. QED
  BY <1>1, <1>2, <1>3

LEMMA AppendBefore ==
  ASSUME NEW s \in Seq(Nat), NEW n \in Nat, NEW t \in Seq(Nat)
  PROVE  /\ Before(t, s) /\ Below(t, n) => Before(t, Append(s, n))
         /\ Before(s, t) /\ Before(<<n>>, t) => Before(Append(s, n), t)
BY AppendElements, SMTT(30) DEF Before, Below

(* What is taken from the head of s comes before the rest of it.           *)
LEMMA TailOrdered ==
  ASSUME NEW s \in Seq(Nat), s # <<>>, Ordered(s), ~Unreadable(s)
  PROVE  /\ Ordered(Tail(s)) /\ ~Unreadable(Tail(s))
         /\ Before(<<Head(s)>>, Tail(s))
         /\ Head(s) \in Nat \ {0}
         /\ \A n \in Nat : Below(s, n) => Head(s) < n /\ Below(Tail(s), n)
         /\ \A t : Before(t, s) => Before(t, Tail(s)) /\ Below(t, Head(s))
         /\ \A t : Before(s, t) => Before(Tail(s), t) /\ Before(<<Head(s)>>, t)
<1>1. Ordered(Tail(s)) /\ ~Unreadable(Tail(s)) /\ Head(s) \in Nat \ {0}
  BY TailElements DEF Ordered, Unreadable, CorruptEntry
<1>2. Before(<<Head(s)>>, Tail(s))
  BY TailElements DEF Ordered, Before
<1>3. ASSUME NEW n \in Nat, Below(s, n)
      PROVE  Head(s) < n /\ Below(Tail(s), n)
  BY <1>3, TailElements DEF Below
<1>4. ASSUME NEW t, Before(t, s)
      PROVE  Before(t, Tail(s)) /\ Below(t, Head(s))
  BY <1>4, TailElements DEF Before, Below, Unreadable
<1>5. ASSUME NEW t, Before(s, t)
      PROVE  Before(Tail(s), t) /\ Before(<<Head(s)>>, t)
  BY <1>5, TailElements DEF Before
<1>. QED
  BY <1>1, <1>2, <1>3, <1>4, <1>5

(* An entry that becomes corrupt leaves the order of the others.           *)
LEMMA CorruptOrdered ==
  ASSUME NEW s \in Seq(Nat), NEW k \in DOMAIN s, Ordered(s)
  PROVE  LET c == [s EXCEPT ![k] = CorruptEntry]
         IN  /\ Ordered(c)
             /\ \A n \in Nat \ {0} : Below(s, n) => Below(c, n)
             /\ \A t : Before(t, s) => Before(t, c)
<1>. DEFINE c == [s EXCEPT ![k] = CorruptEntry]
<1>1. /\ DOMAIN c = DOMAIN s
      /\ \A i \in DOMAIN s : c[i] = IF i = k THEN 0 ELSE s[i]
      /\ \A i \in DOMAIN s : s[i] \in Nat
  BY DEF CorruptEntry
<1>. HIDE DEF c
<1>2. Ordered(c)
  <2>. SUFFICES ASSUME NEW i \in DOMAIN s, NEW j \in DOMAIN s, i < j, c[j] # 0
                PROVE  c[i] < c[j]
    BY <1>1 DEF Ordered, CorruptEntry
  <2>1. c[j] = s[j] /\ s[j] \in Nat \ {0}
    BY <1>1
  <2>2. s[i] < s[j] /\ s[i] \in Nat
    BY <1>1, <2>1 DEF Ordered, CorruptEntry
  <2>3. c[i] = 0 \/ c[i] = s[i]
    BY <1>1
  <2>. QED
    BY <2>1, <2>2, <2>3
<1>3. ASSUME NEW n \in Nat \ {0}, Below(s, n)
      PROVE  Below(c, n)
  BY <1>1, <1>3 DEF Below
<1>4. ASSUME NEW t, Before(t, s)
      PROVE  Before(t, c)
  BY <1>1, <1>4 DEF Before, CorruptEntry
<1>. QED
  BY <1>2, <1>3, <1>4 DEF c

(* So do those that are left when an entry swallows some behind it.        *)
LEMMA SwallowOrdered ==
  ASSUME NEW s \in Seq(Nat), NEW k \in DOMAIN s, NEW last \in k .. Len(s),
         Ordered(s)
  PROVE  LET c == SubSeq(s, 1, k) \o SubSeq(s, last + 1, Len(s))
         IN  /\ Ordered(c)
             /\ \A n \in Nat \ {0} : Below(s, n) => Below(c, n)
             /\ \A t : Before(t, s) => Before(t, c)
<1>. DEFINE c == SubSeq(s, 1, k) \o SubSeq(s, last + 1, Len(s))
            From(i) == IF i <= k THEN i ELSE i + (last - k)
<1>0. /\ k \in Nat \ {0} /\ last \in Nat /\ Len(s) \in Nat
      /\ k <= last /\ last <= Len(s) /\ DOMAIN s = 1 .. Len(s)
  OBVIOUS
<1>1. /\ c \in Seq(Nat) /\ Len(c) = k + Len(s) - last
      /\ \A i \in 1 .. k : c[i] = s[i]
      /\ \A i \in k + 1 .. Len(c) : c[i] = s[i + last - k]
  BY SwallowedSequence
<1>. HIDE DEF c
<1>2. DOMAIN c = 1 .. (k + Len(s)) - last
  BY <1>0, <1>1
<1>3. ASSUME NEW i \in DOMAIN c
      PROVE  c[i] = s[From(i)] /\ From(i) \in DOMAIN s /\ i \in Nat
  <2>0. i \in Nat /\ 1 <= i /\ i <= (k + Len(s)) - last
    BY <1>0, <1>2
  <2>1. CASE i <= k
    <3>1. i \in 1 .. k /\ From(i) = i
      BY <1>0, <2>0, <2>1
    <3>2. i \in 1 .. Len(s)
      BY <1>0, <2>0, <2>1
    <3>. QED
      BY <1>0, <1>1, <2>0, <3>1, <3>2
  <2>2. CASE i > k
    <3>0. Len(c) = (k + Len(s)) - last /\ Len(c) \in Int /\ k + 1 <= i
      <4>1. Len(c) = (k + Len(s)) - last
        BY <1>1
      <4>. QED
        BY <1>0, <2>0, <2>2, <4>1
    <3>1. i \in k + 1 .. Len(c) /\ From(i) = i + last - k
      BY <1>0, <2>0, <2>2, <3>0
    <3>2. From(i) \in 1 .. Len(s)
      BY <1>0, <2>0, <2>2
    <3>. QED
      BY <1>0, <1>1, <2>0, <3>1, <3>2
  <2>. QED
    BY <1>0, <2>0, <2>1, <2>2
<1>4. ASSUME NEW i \in DOMAIN c, NEW j \in DOMAIN c, i < j
      PROVE  From(i) < From(j)
  <2>1. i \in Nat /\ j \in Nat
    BY <1>3
  <2>. QED
    BY <1>0, <1>4, <2>1
<1>. HIDE DEF From
<1>5. Ordered(c)
  BY <1>3, <1>4 DEF Ordered
<1>6. ASSUME NEW n \in Nat \ {0}, Below(s, n)
      PROVE  Below(c, n)
  BY <1>3, <1>6 DEF Below
<1>7. ASSUME NEW t, Before(t, s)
      PROVE  Before(t, c)
  BY <1>3, <1>7 DEF Before
<1>. QED
  BY <1>5, <1>6, <1>7 DEF c

-----------------------------------------------------------------------------
(* Queue entries, decoded, returned by readErrorLogs and queued, are in    *)
(* the order in which the BIOS numbered them.  Nothing is said of how many *)
(* of them are lost.                                                       *)
EntriesInOrder ==
  /\ Below(stored, nextEntry) /\ Below(entryPairs, nextEntry)
  /\ Below(queue, nextEntry)
  /\ ~Unreadable(entryPairs)
  /\ Ordered(stored) /\ Ordered(entryPairs) /\ Ordered(queue)
  /\ Before(stored, entryPairs) /\ Before(stored, queue)
  /\ Before(entryPairs, queue)
  /\ ~Unreadable(stored)

(* Dropping what readLoop holds, or what is queued, leaves the order.      *)
LEMMA DroppingKeepsOrder ==
  ASSUME EntriesInOrder, stored' = stored, nextEntry' = nextEntry,
         entryPairs' \in {entryPairs, <<>>}, queue' \in {queue, <<>>}
  PROVE  EntriesInOrder'
BY EmptyOrdered DEF EntriesInOrder

LEMMA EntriesReadErrorLogs ==
  ASSUME EntriesInOrder, ReadErrorLogs, nextEntry' = nextEntry
  PROVE  EntriesInOrder'
<1>1. CASE Throw /\ UNCHANGED queue
  BY <1>1, DroppingKeepsOrder DEF ReadErrorLogs, Throw
<1>2. CASE entryPairs' = queue /\ queue' = <<>> /\ ~Unreadable(queue)
  BY <1>2, EmptyOrdered DEF ReadErrorLogs, EntriesInOrder
<1>. QED
  BY <1>1, <1>2 DEF ReadErrorLogs

LEMMA EntriesDecodeEntry ==
  ASSUME DataTypes, EntriesInOrder, NEW outcome, DecodeEntry(outcome),
         nextEntry' = nextEntry
  PROVE  EntriesInOrder'
<1>. DEFINE e == Head(entryPairs)
<1>1. /\ entryPairs \in Seq(Nat) /\ queue \in Seq(Nat) /\ stored \in Seq(Nat)
      /\ nextEntry \in Nat /\ entryPairs # <<>> /\ queue' = queue
  BY DEF DecodeEntry, DataTypes, shared
<1>2. CASE stored' = stored /\ entryPairs' = <<>>
  BY <1>1, <1>2, DroppingKeepsOrder
<1>3. /\ Ordered(Tail(entryPairs)) /\ ~Unreadable(Tail(entryPairs))
      /\ Before(<<e>>, Tail(entryPairs)) /\ Before(<<e>>, queue)
      /\ Before(Tail(entryPairs), queue) /\ Below(Tail(entryPairs), nextEntry)
      /\ Before(stored, Tail(entryPairs)) /\ Below(stored, e)
      /\ e \in Nat \ {0} /\ e < nextEntry
      /\ Tail(entryPairs) \in Seq(Nat)
  BY <1>1, TailOrdered, SequencesOfNumbers DEF EntriesInOrder
<1>4. CASE stored' = stored /\ entryPairs' = Tail(entryPairs)
  BY <1>1, <1>3, <1>4 DEF EntriesInOrder
<1>5. CASE stored' = Append(stored, e) /\ entryPairs' = Tail(entryPairs)
  <2>1. /\ Ordered(stored') /\ ~Unreadable(stored') /\ Below(stored', nextEntry)
    BY <1>1, <1>3, <1>5, AppendOrdered DEF EntriesInOrder
  <2>2. Before(stored', entryPairs') /\ Before(stored', queue)
    BY <1>1, <1>3, <1>5, AppendBefore DEF EntriesInOrder
  <2>. QED
    BY <1>1, <1>3, <1>5, <2>1, <2>2 DEF EntriesInOrder
<1>. QED
  BY <1>2, <1>4, <1>5 DEF DecodeEntry, Throw

LEMMA EntriesStep ==
  ASSUME DataTypes, EntriesInOrder, [Next]_vars
  PROVE  EntriesInOrder'
<1>. USE DEF shared, bmcVars, biosVars
<1>1. CASE UNCHANGED vars
  BY <1>1, DroppingKeepsOrder DEF vars
<1>2. CASE Bmc
  <2>1. nextEntry' = nextEntry
    BY <1>2 DEF Bmc
  <2>2. ASSUME NEW outcome, DecodeUe(outcome)
        PROVE  EntriesInOrder'
    BY <2>1, <2>2, DroppingKeepsOrder DEF DecodeUe, Throw
  <2>4. ASSUME ReadUeRegion
        PROVE  EntriesInOrder'
    BY <2>1, <2>4, DroppingKeepsOrder DEF ReadUeRegion, Throw
  <2>3. ASSUME \/ ReadUeHeader \/ AckUe \/ CheckForOverflow
               \/ AckOverflow \/ SetReady \/ Rearm \/ InitializeErase
               \/ InitializeHeader
        PROVE  EntriesInOrder'
    BY <2>1, <2>3, DroppingKeepsOrder
       DEF ReadUeHeader, AckUe, CheckForOverflow, AckOverflow,
           SetReady, Rearm, InitializeErase, InitializeHeader, UpdateBmcFlags
  <2>. QED
    BY <1>2, <2>1, <2>2, <2>3, <2>4, EntriesReadErrorLogs, EntriesDecodeEntry DEF Bmc
<1>3. CASE Bios
  <2>1. CASE BiosAppend
    <3>1. /\ queue' = Append(queue, nextEntry) /\ nextEntry' = nextEntry + 1
          /\ stored' = stored /\ entryPairs' = entryPairs
      BY <1>3, <2>1 DEF Bios, BiosAppend
    <3>2. /\ queue \in Seq(Nat) /\ stored \in Seq(Nat)
          /\ entryPairs \in Seq(Nat) /\ nextEntry \in Nat \ {0}
      BY DEF DataTypes
    <3>3. Ordered(queue') /\ Below(queue', nextEntry')
      BY <3>1, <3>2, AppendOrdered DEF EntriesInOrder
    <3>4. Before(stored, queue') /\ Before(entryPairs, queue')
      BY <3>1, <3>2, AppendBefore DEF EntriesInOrder
    <3>5. Below(stored, nextEntry') /\ Below(entryPairs, nextEntry')
      BY <3>1, <3>2, AppendElements DEF EntriesInOrder, Below
    <3>. QED
      BY <3>1, <3>3, <3>4, <3>5 DEF EntriesInOrder
  <2>2. CASE BiosWriteUe \/ BiosToggleUe \/ BiosOverflow
    BY <1>3, <2>2, DroppingKeepsOrder
       DEF Bios, BiosWriteUe, BiosToggleUe, BiosOverflow
  <2>. QED
    BY <1>3, <2>1, <2>2 DEF Bios
<1>4. CASE CorruptQueue
  <2>1. PICK k \in DOMAIN queue : CorruptDetected(k) \/ CorruptUnnoticed(k)
    BY <1>4 DEF CorruptQueue
  <2>2. UNCHANGED <<stored, entryPairs, nextEntry>>
    BY <1>4 DEF CorruptQueue
  <2>3. queue \in Seq(Nat) /\ nextEntry \in Nat \ {0}
    BY DEF DataTypes
  <2>4. CASE CorruptDetected(k)
    BY <2>2, <2>3, <2>4, CorruptOrdered DEF EntriesInOrder, CorruptDetected
  <2>5. CASE CorruptUnnoticed(k)
    BY <2>2, <2>3, <2>5, SwallowOrdered DEF EntriesInOrder, CorruptUnnoticed
  <2>. QED
    BY <2>1, <2>4, <2>5
<1>5. CASE Restart \/ CorruptSizes \/ AsyncWaitFails \/ ReinitializeFails
  BY <1>5, DroppingKeepsOrder
     DEF Restart, Throw, CorruptSizes, AsyncWaitFails, ReinitializeFails
<1>. QED
  BY <1>1, <1>2, <1>3, <1>4, <1>5 DEF Next

-----------------------------------------------------------------------------
(* UE logs.  A log is pending from the BIOS's toggle until the BMC's, and  *)
(* meanwhile the BIOS does not touch the region; what is in the region is  *)
(* newer than everything published, unless it is about to be acknowledged  *)
(* or erased.                                                              *)
ServesUe == {"readUe", "decodeUe", "ackUe"}

UeHandOver ==
  /\ pc \in ServesUe => UePending(hdr) /\ bios.step = "idle"
  /\ bios.step = "toggle" => ~UePending(hdr)

UeNumbers ==
  /\ IF bios.step = "toggle" THEN ueRegion <= nextUe ELSE ueRegion < nextUe
  /\ Ordered(processed) /\ ~Unreadable(processed) /\ Below(processed, nextUe)

UeFresh ==
  /\ UePending(hdr) \/ bios.step = "toggle"
  /\ pc \notin {"ackUe", "erase", "terminated"}
  /\ ueRegion # ZeroUe
  => Below(processed, ueRegion)

UeInOrder ==
  /\ UeHandOver /\ UeNumbers /\ UeFresh
  /\ pc = "decodeUe" => ueLog = ueRegion

(* The three updates of the word do to the ueSwitch bit what they are for. *)
LEMMA UpdatedSwitch ==
  ASSUME FlagsInv, UeHandOver
  PROVE  /\ AckUe => ~UePending(hdr')
         /\ AckOverflow \/ SetReady => (UePending(hdr') <=> UePending(hdr))
<1>1. /\ hdr \in Header /\ cached.bmcFlags \in BmcFlags
      /\ pc \in UsesCache => cached.bmcFlags = hdr.bmcFlags
  BY DEF FlagsInv, FlagTypes, FlagsCoherent, Header
<1>2. ASSUME NEW f \in BmcFlags, UpdateBmcFlags(f)
      PROVE  hdr'.bmcFlags = f /\ hdr'.biosFlags = hdr.biosFlags
  BY <1>1, <1>2 DEF UpdateBmcFlags, Header
<1>3. ASSUME AckUe
      PROVE  ~UePending(hdr')
  <2>. DEFINE f == [cached.bmcFlags EXCEPT !.ueSwitch = Toggle(@)]
  <2>1. f \in BmcFlags
    BY <1>1, ComputedFlags
  <2>2. hdr'.bmcFlags = f /\ hdr'.biosFlags = hdr.biosFlags
    BY <1>2, <1>3, <2>1 DEF AckUe
  <2>3. f.ueSwitch = Toggle(hdr.bmcFlags.ueSwitch)
    BY <1>1, <1>3 DEF AckUe, UsesCache, BmcFlags
  <2>4. UePending(hdr)
    BY <1>3 DEF AckUe, UeHandOver, ServesUe
  <2>5. hdr.bmcFlags.ueSwitch \in Bit /\ hdr.biosFlags.ueSwitch \in Bit
    BY <1>1 DEF Header, BmcFlags, BiosFlags
  <2>. QED
    BY <2>2, <2>3, <2>4, <2>5 DEF UePending, Toggle, Bit
<1>4. ASSUME AckOverflow
      PROVE  UePending(hdr') <=> UePending(hdr)
  <2>. DEFINE f == [cached.bmcFlags EXCEPT !.overflow = Toggle(@)]
  <2>1. f \in BmcFlags
    BY <1>1, ComputedFlags
  <2>2. hdr'.bmcFlags = f /\ hdr'.biosFlags = hdr.biosFlags
    BY <1>2, <1>4, <2>1 DEF AckOverflow
  <2>3. f.ueSwitch = hdr.bmcFlags.ueSwitch
    BY <1>1, <1>4 DEF AckOverflow, UsesCache, BmcFlags
  <2>. QED
    BY <2>2, <2>3 DEF UePending
<1>5. ASSUME SetReady
      PROVE  UePending(hdr') <=> UePending(hdr)
  <2>. DEFINE f == [cached.bmcFlags EXCEPT !.ready = 1]
  <2>1. f \in BmcFlags
    BY <1>1, ComputedFlags
  <2>2. hdr'.bmcFlags = f /\ hdr'.biosFlags = hdr.biosFlags
    BY <1>2, <1>5, <2>1 DEF SetReady
  <2>3. f.ueSwitch = hdr.bmcFlags.ueSwitch
    BY <1>1, <1>5 DEF SetReady, UsesCache, BmcFlags
  <2>. QED
    BY <2>2, <2>3 DEF UePending
<1>. QED
  BY <1>3, <1>4, <1>5

LEMMA UeBmc ==
  ASSUME FlagsInv, DataTypes, UeInOrder, Bmc
  PROVE  UeInOrder'
<1>. USE DEF UeInOrder, UeHandOver, UeNumbers, UeFresh, ServesUe, shared
<1>1. UNCHANGED <<bios, nextUe>>
  BY DEF Bmc, biosVars
<1>2. CASE ReadUeHeader
  <2>1. bios.step \in {"idle", "toggle"}
    BY DEF FlagsInv, FlagTypes, Senders
  <2>. QED
    BY <1>1, <1>2, <2>1 DEF ReadUeHeader
<1>3. CASE ReadUeRegion
  BY <1>1, <1>3 DEF ReadUeRegion, Throw
<1>4. ASSUME NEW outcome, DecodeUe(outcome)
      PROVE  UeInOrder'
  <2>1. CASE processed' = processed
    BY <1>1, <1>4, <2>1 DEF DecodeUe, Throw
  <2>2. CASE processed' # processed
    <3>1. /\ processed' = Append(processed, ueLog) /\ pc' = "ackUe"
          /\ ueLog = ueRegion /\ ueLog # ZeroUe
          /\ UNCHANGED <<hdr, ueRegion>>
      BY <1>4, <2>2 DEF DecodeUe
    <3>2. /\ ueLog \in Nat \ {0} /\ nextUe \in Nat /\ processed \in Seq(Nat)
      BY <3>1 DEF DataTypes, ZeroUe
    <3>3. Below(processed, ueLog) /\ ueLog < nextUe
      BY <1>4, <3>1 DEF DecodeUe
    <3>4. /\ Ordered(processed') /\ ~Unreadable(processed')
          /\ Below(processed', nextUe)
      BY <3>1, <3>2, <3>3, AppendOrdered
    <3>. QED
      BY <1>1, <1>4, <3>1, <3>4 DEF DecodeUe
  <2>. QED
    BY <2>1, <2>2
<1>5. CASE AckUe
  BY <1>1, <1>5, UpdatedSwitch DEF AckUe, UpdateBmcFlags
<1>6. CASE CheckForOverflow
  BY <1>1, <1>6 DEF CheckForOverflow
<1>7. CASE AckOverflow
  BY <1>1, <1>7, UpdatedSwitch DEF AckOverflow, UpdateBmcFlags
<1>8. CASE ReadErrorLogs
  BY <1>1, <1>8 DEF ReadErrorLogs, Throw
<1>9. ASSUME NEW outcome, DecodeEntry(outcome)
      PROVE  UeInOrder'
  BY <1>1, <1>9 DEF DecodeEntry, Throw
<1>10. CASE SetReady
  BY <1>1, <1>10, UpdatedSwitch DEF SetReady, UpdateBmcFlags
<1>11. CASE Rearm
  BY <1>1, <1>11 DEF Rearm
<1>12. CASE InitializeErase
  BY <1>1, <1>12 DEF InitializeErase, DataTypes, ZeroHeader, UePending, ZeroUe
<1>13. CASE InitializeHeader
  BY <1>1, <1>13 DEF InitializeHeader, InitialHeader, ZeroHeader, UePending
<1>. QED
  BY <1>2, <1>3, <1>4, <1>5, <1>6, <1>7, <1>8, <1>9, <1>10, <1>11, <1>12,
     <1>13 DEF Bmc

LEMMA UeBios ==
  ASSUME FlagsInv, DataTypes, UeInOrder, Bios
  PROVE  UeInOrder'
<1>. USE DEF UeInOrder, UeHandOver, UeNumbers, UeFresh, ServesUe
<1>1. UNCHANGED <<pc, ueLog, processed>>
  BY DEF Bios, bmcVars
<1>2. /\ ueRegion \in Nat /\ nextUe \in Nat \ {0} /\ processed \in Seq(Nat)
      /\ bios.step \in {"idle", "toggle"} /\ hdr \in Header
  BY DEF DataTypes, FlagsInv, FlagTypes, Senders
<1>3. CASE BiosWriteUe
  BY <1>1, <1>2, <1>3 DEF BiosWriteUe
<1>4. CASE BiosToggleUe
  <2>1. /\ bios.step = "toggle" /\ bios'.step = "idle"
        /\ nextUe' = nextUe + 1 /\ ueRegion' = ueRegion
    BY <1>4 DEF BiosToggleUe, IdleBios
  <2>2. Below(processed, nextUe')
    BY <1>2, <2>1, AppendElements DEF Below
  <2>. QED
    BY <1>1, <1>2, <2>1, <2>2
<1>5. CASE BiosAppend
  BY <1>1, <1>2, <1>5 DEF BiosAppend
<1>6. CASE BiosOverflow
  <2>1. UePending(hdr') <=> UePending(hdr)
    BY <1>2, <1>6 DEF BiosOverflow, UePending, Header, BiosFlags
  <2>. QED
    BY <1>1, <1>2, <1>6, <2>1 DEF BiosOverflow
<1>. QED
  BY <1>3, <1>4, <1>5, <1>6 DEF Bios

LEMMA UeStep ==
  ASSUME FlagsInv, DataTypes, UeInOrder, [Next]_vars
  PROVE  UeInOrder'
<1>. USE DEF UeInOrder, UeHandOver, UeNumbers, UeFresh, ServesUe,
             shared, bmcVars, biosVars
<1>1. CASE UNCHANGED vars
  BY <1>1 DEF vars
<1>2. CASE Restart
  BY <1>2 DEF Restart, Throw
<1>3. CASE CorruptSizes
  <2>1. UePending(hdr') <=> UePending(hdr)
    BY <1>3 DEF CorruptSizes, UePending, FlagsInv, FlagTypes, Header
  <2>. QED
    BY <1>3, <2>1 DEF CorruptSizes
<1>4. CASE CorruptQueue
  BY <1>4 DEF CorruptQueue
<1>5. CASE AsyncWaitFails \/ ReinitializeFails
  BY <1>5 DEF AsyncWaitFails, ReinitializeFails
<1>. QED
  BY <1>1, <1>2, <1>3, <1>4, <1>5, UeBmc, UeBios DEF Next

LEMMA OrderedIncreasing ==
  ASSUME NEW s \in Seq(Nat), Ordered(s), ~Unreadable(s)
  PROVE  Increasing(s)
BY DEF Ordered, Unreadable, Increasing

(* Whatever throws and whenever the daemon restarts, readLoop publishes no *)
(* UE log and decodes no queue entry twice or out of order: what it has    *)
(* read stays older than what is in shared memory, and a log that was      *)
(* published but not acknowledged is erased before it can be read again.   *)
THEOREM NothingTwice == Spec => []AtMostOnceInOrder
<1>. DEFINE OrderInv == FlagsInv /\ DataTypes /\ EntriesInOrder /\ UeInOrder
<1>1. Init => OrderInv
  <2>. SUFFICES ASSUME Init PROVE OrderInv
    OBVIOUS
  <2>1. FlagsInv /\ DataTypes
    BY FlagsInit, DataInit
  <2>2. EntriesInOrder
    BY EmptyOrdered DEF Init, EntriesInOrder
  <2>3. UeInOrder
    BY EmptyOrdered
       DEF Init, UeInOrder, UeHandOver, UeNumbers, UeFresh, ServesUe, IdleBios,
           ZeroUe
  <2>. QED
    BY <2>1, <2>2, <2>3
<1>2. OrderInv /\ [Next]_vars => OrderInv'
  BY FlagsStep, DataStep, EntriesStep, UeStep
<1>3. OrderInv => AtMostOnceInOrder
  BY OrderedIncreasing
     DEF AtMostOnceInOrder, EntriesInOrder, UeInOrder, UeNumbers, DataTypes
<1>. QED
  BY <1>1, <1>2, <1>3, PTL DEF Spec

-----------------------------------------------------------------------------
(* Nothing throws: no fault is injected, and decodeRdeCommand accepts the  *)
(* UE logs and throws for no entry.                                        *)
NothingThrows ==
  FaultKinds = {} /\ UeOutcomes \subseteq {"good"} /\ "throws" \notin EntryOutcomes

(* Then readLoop never gets to its catch blocks.                           *)
NeverErases ==
  /\ pc \notin {"erase", "writeHeader", "terminated"}
  /\ hdr.sizes = "ok" /\ cached.sizes = "ok" /\ ~Unreadable(queue)

(* No UE log is lost on the way: the BIOS toggles its bit when it finds    *)
(* the previous log taken, so the pending log is the last one sent.        *)
UeComplete ==
  /\ AckedIsProcessed
  /\ bios.step = "toggle" =>
       /\ ueRegion = nextUe
       /\ bios.flags.ueSwitch # hdr.biosFlags.ueSwitch
  /\ \A i \in DOMAIN processed : processed[i] = i

LEMMA SafeStep ==
  ASSUME NothingThrows, FlagsInv, DataTypes, NeverErases, [Next]_vars
  PROVE  NeverErases'
<1>. USE DEF NeverErases, shared, bmcVars, biosVars
<1>0. hdr \in Header /\ cached \in Header
  BY DEF FlagsInv, FlagTypes
<1>1. CASE UNCHANGED vars
  BY <1>1 DEF vars, Unreadable
<1>2. CASE Bmc
  <2>1. CASE ReadErrorLogs
    BY <2>1, EmptyOrdered DEF ReadErrorLogs
  <2>2. ASSUME NEW outcome \in UeOutcomes \cup {"zero", "cut"}, DecodeUe(outcome)
        PROVE  NeverErases'
    BY <2>2, NothingThrows DEF DecodeUe, NothingThrows, Unreadable
  <2>3. ASSUME NEW outcome \in EntryOutcomes, DecodeEntry(outcome)
        PROVE  NeverErases'
    BY <2>3, NothingThrows DEF DecodeEntry, NothingThrows, Unreadable
  <2>4. ASSUME ReadUeHeader \/ ReadUeRegion \/ CheckForOverflow \/ Rearm
        PROVE  NeverErases'
    BY <2>4 DEF ReadUeHeader, ReadUeRegion, CheckForOverflow, Rearm, Unreadable
  <2>5. ASSUME AckUe \/ AckOverflow \/ SetReady
        PROVE  NeverErases'
    <3>1. /\ hdr'.sizes = hdr.sizes /\ cached'.sizes = cached.sizes
          /\ queue' = queue
      BY <1>0, <2>5 DEF Header, AckUe, AckOverflow, SetReady, UpdateBmcFlags
    <3>2. pc' \in {"overflow", "read", "decode"}
      BY <2>5 DEF AckUe, AckOverflow, SetReady
    <3>. QED
      BY <3>1, <3>2 DEF Unreadable
  <2>6. ~(InitializeErase \/ InitializeHeader)
    BY DEF InitializeErase, InitializeHeader
  <2>. QED
    BY <1>2, <2>1, <2>2, <2>3, <2>4, <2>5, <2>6 DEF Bmc
<1>3. CASE Bios
  <2>1. pc' = pc /\ cached' = cached
    BY <1>3 DEF Bios
  <2>2. hdr'.sizes = hdr.sizes
    BY <1>0, <1>3
       DEF Bios, BiosWriteUe, BiosToggleUe, BiosAppend, BiosOverflow, Header
  <2>3. queue' \in {queue, Append(queue, nextEntry)}
    BY <1>3 DEF Bios, BiosWriteUe, BiosToggleUe, BiosAppend, BiosOverflow
  <2>4. ~Unreadable(Append(queue, nextEntry))
    BY AppendElements DEF DataTypes, Unreadable, CorruptEntry
  <2>5. ~Unreadable(queue')
    BY <2>3, <2>4
  <2>. QED
    BY <2>1, <2>2, <2>5
<1>4. ~(Restart \/ CorruptSizes \/ CorruptQueue \/ AsyncWaitFails \/ ReinitializeFails)
  BY NothingThrows
     DEF NothingThrows, Fault, Restart, CorruptSizes, CorruptQueue,
         AsyncWaitFails, ReinitializeFails
<1>. QED
  BY <1>1, <1>2, <1>3, <1>4 DEF Next

LEMMA UeCompleteBmc ==
  ASSUME NothingThrows, FlagsInv, DataTypes, UeInOrder, NeverErases, UeComplete,
         Bmc
  PROVE  UeComplete'
<1>. USE DEF UeComplete, AckedIsProcessed, shared
<1>1. UNCHANGED <<bios, nextUe>>
  BY DEF Bmc, biosVars
<1>2. CASE \/ ReadUeHeader \/ ReadUeRegion \/ CheckForOverflow \/ ReadErrorLogs
           \/ Rearm
  <2>1. UNCHANGED <<hdr, ueRegion, processed>> /\ pc # "ackUe" /\ pc' # "ackUe"
    BY <1>2 DEF ReadUeHeader, ReadUeRegion, CheckForOverflow, ReadErrorLogs,
                Rearm, Throw
  <2>. QED
    BY <1>1, <2>1
<1>3. ASSUME NEW outcome \in UeOutcomes \cup {"zero", "cut"}, DecodeUe(outcome)
      PROVE  UeComplete'
  <2>1. /\ UePending(hdr) /\ bios.step = "idle" /\ ueLog = nextUe - 1
        /\ Len(processed) = nextUe - 2 /\ UNCHANGED <<hdr, ueRegion>>
    BY <1>3 DEF DecodeUe, UeInOrder, UeHandOver, ServesUe
  <2>2. processed \in Seq(Nat) /\ nextUe \in Nat
    BY DEF DataTypes
  <2>3. ueLog # ZeroUe
    BY <2>1, <2>2, AppendElements DEF ZeroUe
  <2>4. processed' = Append(processed, ueLog) /\ pc' = "ackUe"
    BY <1>3, <2>3, NothingThrows DEF DecodeUe, NothingThrows, NeverErases
  <2>5. DOMAIN processed' = 1 .. nextUe - 1 /\ Len(processed') = nextUe - 1
    BY <2>1, <2>2, <2>4
  <2>6. ASSUME NEW i \in 1 .. nextUe - 1
        PROVE  processed'[i] = i
    <3>1. CASE i = nextUe - 1
      BY <2>1, <2>2, <2>4, <3>1, AppendElements
    <3>2. CASE i # nextUe - 1
      BY <2>1, <2>2, <2>4, <3>2, AppendElements
    <3>. QED
      BY <3>1, <3>2
  <2>. QED
    BY <1>1, <2>1, <2>4, <2>5, <2>6
<1>4. CASE AckUe
  <2>1. UePending(hdr) /\ bios.step = "idle" /\ ~UePending(hdr')
    BY <1>4, UpdatedSwitch DEF AckUe, UeInOrder, UeHandOver, ServesUe
  <2>2. UNCHANGED <<ueRegion, processed>> /\ pc = "ackUe" /\ pc' # "ackUe"
    BY <1>4 DEF AckUe, UpdateBmcFlags
  <2>. QED
    BY <1>1, <2>1, <2>2
<1>5. CASE AckOverflow \/ SetReady
  <2>1. UePending(hdr') <=> UePending(hdr)
    BY <1>5, UpdatedSwitch DEF UeInOrder
  <2>2. /\ UNCHANGED <<ueRegion, processed>> /\ pc # "ackUe" /\ pc' # "ackUe"
    BY <1>5 DEF AckOverflow, SetReady, UpdateBmcFlags
  <2>3. hdr'.biosFlags = hdr.biosFlags
    BY <1>5 DEF AckOverflow, SetReady, UpdateBmcFlags, FlagsInv, FlagTypes, Header
  <2>. QED
    BY <1>1, <2>1, <2>2, <2>3
<1>6. ASSUME NEW outcome, DecodeEntry(outcome)
      PROVE  UeComplete'
  <2>1. UNCHANGED <<hdr, ueRegion, processed>> /\ pc # "ackUe" /\ pc' # "ackUe"
    BY <1>6 DEF DecodeEntry, Throw
  <2>. QED
    BY <1>1, <2>1
<1>7. ~(InitializeErase \/ InitializeHeader)
  BY DEF NeverErases, InitializeErase, InitializeHeader
<1>. QED
  BY <1>2, <1>3, <1>4, <1>5, <1>6, <1>7 DEF Bmc

LEMMA UeCompleteBios ==
  ASSUME FlagsInv, DataTypes, UeInOrder, UeComplete, Bios
  PROVE  UeComplete'
<1>. USE DEF UeComplete, AckedIsProcessed
<1>1. UNCHANGED <<pc, processed>>
  BY DEF Bios, bmcVars
<1>2. nextUe \in Nat /\ hdr \in Header /\ bios \in Senders /\ Len(processed) \in Nat
  BY DEF DataTypes, FlagsInv, FlagTypes
<1>3. CASE BiosWriteUe
  <2>1. /\ ~UePending(hdr) /\ ueRegion' = nextUe
        /\ UNCHANGED <<hdr, nextUe>>
        /\ bios'.flags = [hdr.biosFlags EXCEPT !.ueSwitch = Toggle(@)]
    BY <1>3 DEF BiosWriteUe
  <2>2. bios'.flags.ueSwitch # hdr.biosFlags.ueSwitch
    BY <1>2, <2>1 DEF Header, BiosFlags, Toggle, Bit
  <2>. QED
    BY <1>1, <2>1, <2>2
<1>4. CASE BiosToggleUe
  <2>1. /\ bios.step = "toggle" /\ bios'.step = "idle" /\ nextUe' = nextUe + 1
        /\ ueRegion' = ueRegion
        /\ hdr' = [hdr EXCEPT !.biosFlags = bios.flags]
    BY <1>4 DEF BiosToggleUe, IdleBios
  <2>2. ~UePending(hdr) /\ pc \notin ServesUe
    BY <2>1 DEF UeInOrder, UeHandOver
  <2>3. UePending(hdr')
    <3>1. hdr'.biosFlags = bios.flags /\ hdr'.bmcFlags = hdr.bmcFlags
      BY <1>2, <2>1 DEF Header
    <3>. QED
      BY <1>2, <2>1, <2>2, <3>1
         DEF UePending, Header, Senders, BiosFlags, BmcFlags, Bit
  <2>. QED
    BY <1>1, <1>2, <2>1, <2>2, <2>3 DEF ServesUe
<1>5. CASE BiosAppend
  BY <1>1, <1>5 DEF BiosAppend
<1>6. CASE BiosOverflow
  <2>1. UePending(hdr') <=> UePending(hdr)
    BY <1>2, <1>6 DEF BiosOverflow, UePending, Header, BiosFlags
  <2>2. UNCHANGED <<ueRegion, bios, nextUe>> /\ bios.step = "idle"
    BY <1>6 DEF BiosOverflow
  <2>. QED
    BY <1>1, <2>1, <2>2
<1>. QED
  BY <1>3, <1>4, <1>5, <1>6 DEF Bios

LEMMA UeCompleteStep ==
  ASSUME NothingThrows, FlagsInv, DataTypes, UeInOrder, NeverErases, UeComplete,
         [Next]_vars
  PROVE  UeComplete'
<1>1. CASE UNCHANGED vars
  BY <1>1 DEF vars, shared, bmcVars, biosVars, UeComplete, AckedIsProcessed
<1>2. ~(Restart \/ CorruptSizes \/ CorruptQueue \/ AsyncWaitFails \/ ReinitializeFails)
  BY NothingThrows
     DEF NothingThrows, Fault, Restart, CorruptSizes, CorruptQueue,
         AsyncWaitFails, ReinitializeFails
<1>. QED
  BY <1>1, <1>2, UeCompleteBmc, UeCompleteBios DEF Next

(* The entries decoded, held by readLoop and queued, in this order, are    *)
(* all that the BIOS has appended.                                         *)
EntriesComplete ==
  /\ Len(stored) + Len(entryPairs) + Len(queue) = nextEntry - 1
  /\ \A i \in DOMAIN stored : stored[i] = i
  /\ \A i \in DOMAIN entryPairs : entryPairs[i] = Len(stored) + i
  /\ \A i \in DOMAIN queue : queue[i] = Len(stored) + Len(entryPairs) + i
  /\ pc # "decode" /\ pc # "setReady" => entryPairs = <<>>

LEMMA EntriesCompleteStep ==
  ASSUME NothingThrows, "refused" \notin EntryOutcomes,
         DataTypes, NeverErases, EntriesComplete, [Next]_vars
  PROVE  EntriesComplete'
<1>. USE DEF EntriesComplete, shared, bmcVars, biosVars
<1>1. /\ stored \in Seq(Nat) /\ entryPairs \in Seq(Nat) /\ queue \in Seq(Nat)
      /\ nextEntry \in Nat
  BY DEF DataTypes
<1>2. ASSUME UNCHANGED <<stored, entryPairs, queue, nextEntry>>,
             pc' # "decode" /\ pc' # "setReady" => pc # "decode" /\ pc # "setReady"
      PROVE  EntriesComplete'
  BY <1>2
<1>3. CASE UNCHANGED vars
  BY <1>2, <1>3 DEF vars
<1>4. CASE Bmc
  <2>1. nextEntry' = nextEntry
    BY <1>4 DEF Bmc
  <2>2. CASE ReadErrorLogs
    <3>1. /\ entryPairs' = queue /\ queue' = <<>> /\ pc' = "decode"
          /\ stored' = stored /\ entryPairs = <<>>
      BY <2>2 DEF ReadErrorLogs, NeverErases
    <3>2. Len(<<>>) = 0 /\ DOMAIN <<>> = {} /\ Len(queue) \in Nat
      BY <1>1
    <3>3. \A i \in DOMAIN queue : queue[i] = Len(stored) + i
      BY <1>1, <3>1, <3>2
    <3>. QED
      BY <1>1, <2>1, <3>1, <3>2, <3>3
  <2>3. ASSUME NEW outcome \in EntryOutcomes, DecodeEntry(outcome)
        PROVE  EntriesComplete'
    <3>1. /\ stored' = Append(stored, Head(entryPairs))
          /\ entryPairs' = Tail(entryPairs) /\ queue' = queue
          /\ entryPairs # <<>> /\ pc' \in {"decode", "setReady"}
      BY <2>3, NothingThrows, ReadLoopAssumption
         DEF DecodeEntry, NothingThrows, ReadLoopAssumption
    <3>2. Head(entryPairs) = Len(stored) + 1
      BY <1>1, <3>1, TailElements
    <3>3. \A i \in DOMAIN stored' : stored'[i] = i
      <4>1. Len(stored) + 1 \in Nat
        BY <1>1
      <4>. QED
        BY <1>1, <3>1, <3>2, <4>1, AppendElements
    <3>4. Len(stored') = Len(stored) + 1 /\ Len(entryPairs') = Len(entryPairs) - 1
      BY <1>1, <3>1
    <3>5. \A i \in DOMAIN entryPairs' : entryPairs'[i] = Len(stored') + i
      <4>. SUFFICES ASSUME NEW i \in 1 .. Len(entryPairs) - 1
                    PROVE  Tail(entryPairs)[i] = Len(stored) + 1 + i
        BY <1>1, <3>1, <3>4, TailElements
      <4>1. i + 1 \in DOMAIN entryPairs /\ Len(stored) \in Nat
        BY <1>1, <3>1, TailElements
      <4>2. Tail(entryPairs)[i] = entryPairs[i + 1]
        BY <1>1, <3>1, TailElements
      <4>. QED
        BY <4>1, <4>2
    <3>6. Len(stored') + Len(entryPairs') = Len(stored) + Len(entryPairs)
      BY <1>1, <3>4
    <3>. QED
      BY <2>1, <3>1, <3>3, <3>5, <3>6
  <2>4. ASSUME NEW outcome, DecodeUe(outcome)
        PROVE  EntriesComplete'
    BY <2>1, <2>4, <1>2 DEF DecodeUe, Throw
  <2>5. CASE ReadUeHeader \/ ReadUeRegion \/ CheckForOverflow \/ Rearm
    BY <2>1, <2>5, <1>2
       DEF ReadUeHeader, ReadUeRegion, CheckForOverflow, Rearm, NeverErases
  <2>6. CASE AckUe \/ AckOverflow \/ SetReady
    BY <2>1, <2>6, <1>2 DEF AckUe, AckOverflow, SetReady, UpdateBmcFlags
  <2>7. ~(InitializeErase \/ InitializeHeader)
    BY DEF NeverErases, InitializeErase, InitializeHeader
  <2>. QED
    BY <1>4, <2>2, <2>3, <2>4, <2>5, <2>6, <2>7 DEF Bmc
<1>5. CASE Bios
  <2>1. UNCHANGED <<stored, entryPairs, pc>>
    BY <1>5 DEF Bios
  <2>2. CASE BiosAppend
    <3>1. queue' = Append(queue, nextEntry) /\ nextEntry' = nextEntry + 1
      BY <2>2 DEF BiosAppend
    <3>2. Len(queue') = Len(queue) + 1
      BY <1>1, <3>1
    <3>3. \A i \in DOMAIN queue' : queue'[i] = Len(stored) + Len(entryPairs) + i
      <4>. SUFFICES ASSUME NEW i \in 1 .. Len(queue) + 1
                    PROVE  queue'[i] = Len(stored) + Len(entryPairs) + i
        BY <1>1, <3>1, AppendElements
      <4>1. CASE i = Len(queue) + 1
        <5>1. queue'[i] = nextEntry
          BY <1>1, <3>1, <4>1, AppendElements
        <5>2. Len(stored) \in Nat /\ Len(entryPairs) \in Nat /\ Len(queue) \in Nat
          BY <1>1
        <5>. QED
          BY <1>1, <4>1, <5>1, <5>2
      <4>2. CASE i \in DOMAIN queue
        BY <1>1, <3>1, <4>2, AppendElements
      <4>. QED
        BY <1>1, <4>1, <4>2, AppendElements
    <3>. QED
      BY <1>1, <2>1, <3>1, <3>2, <3>3
  <2>3. CASE BiosWriteUe \/ BiosToggleUe \/ BiosOverflow
    BY <1>2, <2>1, <2>3 DEF BiosWriteUe, BiosToggleUe, BiosOverflow
  <2>. QED
    BY <1>5, <2>2, <2>3 DEF Bios
<1>6. ~(Restart \/ CorruptSizes \/ CorruptQueue \/ AsyncWaitFails \/ ReinitializeFails)
  BY NothingThrows
     DEF NothingThrows, Fault, Restart, CorruptSizes, CorruptQueue,
         AsyncWaitFails, ReinitializeFails
<1>. QED
  BY <1>3, <1>4, <1>5, <1>6 DEF Next

-----------------------------------------------------------------------------
CleanInv ==
  /\ FlagsInv /\ DataTypes /\ UeInOrder
  /\ NeverErases /\ UeComplete

LEMMA CleanInit == Init => CleanInv
<1>. SUFFICES ASSUME Init PROVE CleanInv
  OBVIOUS
<1>1. ~UePending(hdr)
  BY DEF Init, UePending, InitialHeader, ZeroHeader
<1>2. UeInOrder
  BY <1>1, EmptyOrdered
     DEF Init, UeInOrder, UeHandOver, UeNumbers, UeFresh, ServesUe, IdleBios, ZeroUe
<1>3. NeverErases
  BY EmptyOrdered DEF Init, NeverErases, InitialHeader, ZeroHeader
<1>4. UeComplete
  BY <1>1 DEF Init, UeComplete, AckedIsProcessed, IdleBios
<1>. QED
  BY <1>2, <1>3, <1>4, FlagsInit, DataInit DEF CleanInv

LEMMA CleanStep ==
  ASSUME NothingThrows
  PROVE  CleanInv /\ [Next]_vars => CleanInv'
BY NothingThrows, FlagsStep, DataStep, UeStep, SafeStep, UeCompleteStep DEF CleanInv

(* As long as nothing throws, the BMC's bit catches up only when the log   *)
(* was published, and until then the log is in the region: readLoop never  *)
(* frees the region of a log it did not publish.                           *)
THEOREM AckedAfterProcessing ==
  ASSUME NothingThrows
  PROVE  Spec => []AckedIsProcessed
<1>1. CleanInv /\ [Next]_vars => CleanInv'
  BY CleanStep
<1>2. CleanInv => AckedIsProcessed
  BY DEF CleanInv, UeComplete
<1>. QED
  BY <1>1, <1>2, CleanInit, PTL DEF Spec

(* What a step may do to the histories and to the counters of the BIOS.    *)
LEMMA WhatChanges ==
  ASSUME DataTypes, [Next]_vars
  PROVE  /\ \/ UNCHANGED <<nextUe, processed>>
            \/ nextUe' = nextUe + 1 /\ processed' = processed
            \/ nextUe' = nextUe /\ processed' = Append(processed, ueLog)
         /\ \/ UNCHANGED <<nextEntry, stored>>
            \/ nextEntry' = nextEntry + 1 /\ stored' = stored
            \/ /\ nextEntry' = nextEntry /\ Head(entryPairs) \in Nat
               /\ stored' = Append(stored, Head(entryPairs))
<1>. USE DEF shared, bmcVars, biosVars
<1>1. CASE Bmc
  <2>1. UNCHANGED <<nextUe, nextEntry>>
    BY <1>1 DEF Bmc
  <2>2. processed' \in {processed, Append(processed, ueLog)}
    BY <1>1 DEF Bmc, ReadUeHeader, ReadUeRegion, DecodeUe, AckUe,
                CheckForOverflow, AckOverflow, ReadErrorLogs, DecodeEntry,
                SetReady, Rearm, InitializeErase, InitializeHeader
  <2>3. ASSUME stored' # stored
        PROVE  /\ Head(entryPairs) \in Nat
               /\ stored' = Append(stored, Head(entryPairs))
    <3>1. PICK outcome : DecodeEntry(outcome)
      BY <1>1, <2>3
         DEF Bmc, ReadUeHeader, ReadUeRegion, DecodeUe, AckUe,
             CheckForOverflow, AckOverflow, ReadErrorLogs,
             SetReady, Rearm, InitializeErase, InitializeHeader
    <3>. QED
      BY <2>3, <3>1, SequencesOfNumbers DEF DecodeEntry, DataTypes
  <2>. QED
    BY <2>1, <2>2, <2>3
<1>2. CASE Bios
  BY <1>2 DEF Bios, BiosWriteUe, BiosToggleUe, BiosAppend, BiosOverflow
<1>3. CASE UNCHANGED vars
  BY <1>3 DEF vars
<1>4. CASE \/ Restart \/ CorruptSizes \/ CorruptQueue \/ AsyncWaitFails
           \/ ReinitializeFails
  BY <1>4 DEF Restart, CorruptSizes, CorruptQueue, AsyncWaitFails, ReinitializeFails
<1>. QED
  BY <1>1, <1>2, <1>3, <1>4 DEF Next

(* One more log at the end of those received is a batch of its own.        *)
LEMMA AppendReceives ==
  ASSUME NEW s \in Seq(Nat), NEW log \in Nat, NEW t, NEW n,
         t = Append(s, log), Len(t) <= n, \A i \in DOMAIN t : t[i] = i
  PROVE  /\ Len(t) > Len(s)
         /\ SubSeq(t, 1, Len(s)) = s
         /\ UeLogs!CompleteUpTo(t, n) /\ QueueEntries!CompleteUpTo(t, n)
BY DEF UeLogs!CompleteUpTo, QueueEntries!CompleteUpTo

(* As long as nothing throws and no entry is refused, readLoop implements  *)
(* two reliable channels, one for UE logs and one for queue entries, each  *)
(* undisturbed by the other and by the flags they share a word with.       *)
THEOREM LoopRefinesChannels ==
  ASSUME NothingThrows, "refused" \notin EntryOutcomes
  PROVE  Spec => ImplementsReliableChannels
<1>. DEFINE BothInv == CleanInv /\ EntriesComplete
<1>1. Init => BothInv
  BY CleanInit DEF Init, EntriesComplete
<1>2. BothInv /\ [Next]_vars => BothInv'
  BY NothingThrows, CleanStep, EntriesCompleteStep DEF CleanInv
<1>3. Init => UeLogs!Init /\ QueueEntries!Init
  BY DEF Init, UeLogs!Init, QueueEntries!Init
<1>4. BothInv /\ BothInv' /\ [Next]_vars => [UeLogs!Next]_(UeLogs!channel)
  <2>. SUFFICES ASSUME CleanInv, CleanInv', [Next]_vars,
                       ~UNCHANGED <<nextUe, processed>>
                PROVE  UeLogs!Next
    BY DEF UeLogs!channel
  <2>1. /\ processed \in Seq(Nat) /\ nextUe \in Nat \ {0}
        /\ processed' \in Seq(Nat) /\ ueLog \in Nat
    BY DEF CleanInv, DataTypes
  <2>2. CASE nextUe' = nextUe + 1 /\ processed' = processed
    BY <2>1, <2>2 DEF UeLogs!Next, UeLogs!Send
  <2>3. CASE nextUe' = nextUe /\ processed' = Append(processed, ueLog)
    <3>1. Len(processed') <= nextUe - 1 /\ \A i \in DOMAIN processed' : processed'[i] = i
      BY <2>1, <2>3 DEF CleanInv, UeComplete, AckedIsProcessed
    <3>2. /\ Len(processed') > Len(processed)
          /\ SubSeq(processed', 1, Len(processed)) = processed
          /\ UeLogs!CompleteUpTo(processed', nextUe - 1)
      BY <2>1, <2>3, <3>1, AppendReceives
    <3>. QED
      BY <2>3, <3>2 DEF UeLogs!Next, UeLogs!Receive, UeLogs!Promised
  <2>4. \/ UNCHANGED <<nextUe, processed>>
        \/ nextUe' = nextUe + 1 /\ processed' = processed
        \/ nextUe' = nextUe /\ processed' = Append(processed, ueLog)
    BY WhatChanges DEF CleanInv
  <2>. QED
    BY <2>2, <2>3, <2>4
<1>5. BothInv /\ BothInv' /\ [Next]_vars
        => [QueueEntries!Next]_(QueueEntries!channel)
  <2>. SUFFICES ASSUME CleanInv, CleanInv', EntriesComplete', [Next]_vars,
                       ~UNCHANGED <<nextEntry, stored>>
                PROVE  QueueEntries!Next
    BY DEF QueueEntries!channel
  <2>1. /\ stored \in Seq(Nat) /\ nextEntry \in Nat \ {0}
        /\ stored' \in Seq(Nat)
    BY DEF CleanInv, DataTypes
  <2>2. CASE nextEntry' = nextEntry + 1 /\ stored' = stored
    BY <2>1, <2>2 DEF QueueEntries!Next, QueueEntries!Send
  <2>3. CASE /\ nextEntry' = nextEntry /\ Head(entryPairs) \in Nat
             /\ stored' = Append(stored, Head(entryPairs))
    <3>1. /\ Len(stored') \in Nat /\ Len(entryPairs') \in Nat
          /\ Len(queue') \in Nat
      BY DEF CleanInv, DataTypes
    <3>2. Len(stored') <= nextEntry - 1 /\ \A i \in DOMAIN stored' : stored'[i] = i
      BY <2>1, <2>3, <3>1 DEF EntriesComplete
    <3>3. /\ Len(stored') > Len(stored)
          /\ SubSeq(stored', 1, Len(stored)) = stored
          /\ QueueEntries!CompleteUpTo(stored', nextEntry - 1)
      BY <2>1, <2>3, <3>2, AppendReceives
    <3>. QED
      BY <2>3, <3>3
         DEF QueueEntries!Next, QueueEntries!Receive, QueueEntries!Promised
  <2>4. \/ UNCHANGED <<nextEntry, stored>>
        \/ nextEntry' = nextEntry + 1 /\ stored' = stored
        \/ /\ nextEntry' = nextEntry /\ Head(entryPairs) \in Nat
           /\ stored' = Append(stored, Head(entryPairs))
    BY WhatChanges DEF CleanInv
  <2>. QED
    BY <2>2, <2>3, <2>4
<1>. QED
  BY <1>1, <1>2, <1>3, <1>4, <1>5, PTL
     DEF Spec, ImplementsReliableChannels, UeLogs!Spec, QueueEntries!Spec

=============================================================================
